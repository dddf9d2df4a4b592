SPECIFICATION Spec
CONSTANTS
    NR_TASKS = 4
    INIT_QUANTUM = 0
    MemoryOutcomes = {TRUE, FALSE}
    MAX_PID = 4
    MAX_PENDING = 0
    TOTAL_PAGES = 14
    NUM_PAG_KERNEL = 1
    NUM_PAG_DATA = 2
    NUM_PAG_CODE = 1
    NUM_SHARED_PAGES = 1
    USE_COW = FALSE
    CallsRead = TRUE
    Val = {0, 1}
    Addr = {}
    MAX_REFS = 0
INVARIANTS
    PcbsAgree FramesCounted TempMapsRemoved
PROPERTIES
    OnlyOwnMemory
