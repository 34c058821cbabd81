SPECIFICATION Spec
CONSTANTS
    None = None
    RVL_SLOTS = 2
    Regions <- MCRegions
INVARIANTS TypeOK ReloadHolds ForwardHolds DeletedLoadHolds OneHeldStore DeletedStoreIsDead SilentStoreHolds ConstHolds CompHolds BitcastHolds
