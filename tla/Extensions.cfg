SPECIFICATION Spec
CONSTANTS
    Byte = 1
    Imm = 2
    Half = 2
    Word = 4
    Double = 8
    Regs = {0, 1, 2}
    Code <- MCCode
INVARIANTS TypeOK ExtensionHolds
