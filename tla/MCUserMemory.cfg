SPECIFICATION MemSpec
CONSTANTS
    MAX_BUFF_SIZE = 3
    MAX_BUFFER_SIZE = 3
    Char <- MCChar
    NUL = "nul"
    char_map <- MCcharMap
    Key <- MCKey
    UINT = 128
    PAGE_SIZE = 4
    WORD = 2
    USER_FIRST_PAGE = 2
    NUM_PAG_CODE = 1
    NUM_PAG_DATA = 2
    TOTAL_PAGES = 7
    Pointer <- MCPointer
    Size <- MCSize
INVARIANTS
    KernelUntouched
    FaultsAtEdgeOnly
    TransfersExact
    AccessOkAccepts
PROPERTY
    FifoSpec
