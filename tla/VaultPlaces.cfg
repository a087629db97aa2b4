SPECIFICATION PlacesSpec
CONSTANTS
    Spellings = {"a", "A", "b"}
    Real <- MCReal
    Names = {"n", "m"}
    Procs = {1, 2}
    MaxVaults = 2
    MaxOps = 2
    MaxCrashes = 1
INVARIANTS
    SetupAllOrNothing
    NoOrphanSecret
PROPERTIES
    VaultsKeepAHome
CHECK_DEADLOCK FALSE
