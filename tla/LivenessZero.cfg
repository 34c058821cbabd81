SPECIFICATION Spec
CONSTANTS
    Vaddr = 0
    Size = 3
    Code <- MCPathCode
    LIVE_BUDGET = 12
    LIVE_PATHS = 4
INVARIANT DeadMeansDead
CHECK_DEADLOCK FALSE
