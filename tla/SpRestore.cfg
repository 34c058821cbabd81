SPECIFICATION Spec
CONSTANTS
    Size = 4
    Words = 3
    Programs <- MCFrames
INVARIANTS TypeOK FindingsExact RestoreIsRedundant
CHECK_DEADLOCK FALSE
