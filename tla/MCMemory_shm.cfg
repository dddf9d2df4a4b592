SPECIFICATION Spec
CONSTANTS
    NR_TASKS = 2
    TOTAL_PAGES = 9
    NUM_PAG_KERNEL = 2
    NUM_PAG_DATA = 1
    NUM_PAG_CODE = 0
    NUM_SHARED_PAGES = 2
    USE_COW = FALSE
    CallsRead = TRUE
    Val = {0}
    Addr = {0, 1, 5, 9, 11, 14, 29, 1048574}
    MAX_REFS = 3
INVARIANTS
    RefsCountEntries
