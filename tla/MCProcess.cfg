SPECIFICATION FairSpec
CONSTANTS
    NR_TASKS = 5
    INIT_QUANTUM = 1
    MemoryOutcomes = {TRUE, FALSE}
    MAX_PID = 5
    MAX_PENDING = 1
INVARIANTS
    TypeOK QueuesDisjoint StateMatchesQueue FamilyTree Pids BlockedNoPending
    NumbrosCountsSiblings RunsBlockedOnlyExpired
PROPERTIES
    IdleForever NoProcessLost ReadyRuns
