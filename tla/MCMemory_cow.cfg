SPECIFICATION Spec
CONSTANTS
    NR_TASKS = 3
    TOTAL_PAGES = 10
    NUM_PAG_KERNEL = 1
    NUM_PAG_DATA = 1
    NUM_PAG_CODE = 1
    NUM_SHARED_PAGES = 1
    USE_COW = TRUE
    CallsRead = FALSE
    Val = {0, 1}
    Addr = {0, 11}
    MAX_REFS = 1
INVARIANTS
    FrameRefs NoDanglingPage
PROPERTY
    PrivateMemory
