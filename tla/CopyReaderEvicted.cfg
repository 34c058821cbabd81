SPECIFICATION ReaderSpec
CONSTANTS
    i1 = i1
    i2 = i2
    i3 = i3
    Nothing = Nothing
    Insns <- MCInsns
    Sections <- MCTwoSizes
    DEC_MAX = 2
    GEN_MOD = 3
INVARIANTS ReaderStands
