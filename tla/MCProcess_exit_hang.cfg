SPECIFICATION Spec
CONSTANTS
    NR_TASKS = 4
    INIT_QUANTUM = 1
    MemoryOutcomes = {TRUE, FALSE}
    MAX_PID = 4
    MAX_PENDING = 1
INVARIANT
    ExitTerminates
