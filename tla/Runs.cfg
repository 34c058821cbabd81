SPECIFICATION Spec
CONSTANTS
    Size = 5
    PUSH_WALK = 3
    PUSH_ACCESSES = 1
    MaxDown = 3
    MaxUp = 2
    MaxOff = 1
    Cells <- MCCells
    Codes <- MCCodes
    Notes <- MCNotes
CHECK_DEADLOCK FALSE
INVARIANTS TypeOK FoldsDisjoint SameBehaviour StackStaysReserved CoverIsLeast
