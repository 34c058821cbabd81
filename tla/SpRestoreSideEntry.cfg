SPECIFICATION Spec
CONSTANTS
    Size = 5
    Words = 3
    Programs <- MCSideEntries
INVARIANT EveryRestoreIsRedundant
CHECK_DEADLOCK FALSE
