SPECIFICATION ConsoleSpec
CONSTANTS
    SCREEN_COLUMNS = 2
    SCREEN_ROWS = 2
    FirstRow = 1
    MAX_BUFFER_SIZE = 2
    WHITE = 1
    BootColours <- MCBoot
    Text <- MCText
    NewLine = "NL"
    ColourArgs <- MCColourArgs
PROPERTIES
    TerminalSpec
