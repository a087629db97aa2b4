SPECIFICATION LifeSpec
CONSTANTS
    Timeout = 3
    Grace = 2
    BundleGrace = 2
    Pages = {p1, p2}
    MaxInst = 2
    MaxEvents = 4
INVARIANTS
    StaleLockOnlyAfterCrash
PROPERTIES
    NoEarlyShutdown
    AbandonedServerStops
CHECK_DEADLOCK FALSE
