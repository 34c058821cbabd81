SPECIFICATION FairSpec
CONSTANTS
    i1 = i1
    i2 = i2
    i3 = i3
    Nothing = Nothing
    Insns <- MCInsns
    Sections <- MCSections
    DEC_MAX = 4
    GEN_MOD = 3
INVARIANTS TypeOK NothingStale HeldWhole
PROPERTIES Transparent SweepFinishes
