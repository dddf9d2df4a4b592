SPECIFICATION SwitchSpec
CONSTANTS
    RawCalls <- MCRawCalls
    Results <- MCResults
    Loads <- MCLoads
    NR_TASKS = 3
INVARIANTS
    RightRoutine CallerStateKept ErrnoConvention SwitchComplete
