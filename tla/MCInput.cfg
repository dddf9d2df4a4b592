SPECIFICATION Spec
CONSTANTS
    MAX_BUFF_SIZE = 3
    MAX_BUFFER_SIZE = 3
    Char <- MCChar
    NUL = 0
    char_map <- MCcharMap
    Key <- MCKey
    MAX_NAME_LENGTH = 2
    MAX_LEADERBOARD_ENTRIES = 2
    MAX_TYPED = 3
INVARIANTS
    KeysConserved NameIsTyped
PROPERTIES
    GameFollows
