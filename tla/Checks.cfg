SPECIFICATION Spec
CONSTANTS
    XLEN = 16
    WORD = 8
    HALF = 4
    BYTE = 2
    IMM = 4
    ADDR = 6
    Arg = 6
    BranchReach = 5
    JalReach = 20
    CONST_WALK = 3
    ZSTORE_WALK = 3
    THREAD_HOPS = 3
    CROSS_TAIL = 3
    Steps = 16
    Regs <- MCRegs
    Sections <- MCSections
    Seconds <- MCSeconds
    Contents <- MCContents
CHECK_DEADLOCK FALSE
INVARIANTS TypeOK BranchesAgree ValuesAgree ConstantsAgree MemoryAgrees ThreadsAgree TailsAgree IndexedOnce PopcountHolds
