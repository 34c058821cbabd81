SPECIFICATION Spec
CONSTANTS
    None = None
    RVL_SLOTS = 2
    Regions <- MCBitcastRegion
INVARIANT EveryBitcastHolds
