SPECIFICATION FairSpec
CONSTANTS
    Vaddr = 1
    Size = 3
    Code <- MCAllCode
    LIVE_BUDGET = 5
    LIVE_PATHS = 3
INVARIANTS TypeOK DeadIsSound ReadIsSound UnknownIsJustified
PROPERTY Terminates
CHECK_DEADLOCK FALSE
