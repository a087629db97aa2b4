SPECIFICATION Spec
CONSTANTS
    MaxGen = 3
    MaxTime = 1
    Life = 0
    MaxAttempts = 1
    MaxCommands = 3
INVARIANTS
    ServedPairMatches
    
PROPERTIES
    NoLiveDowngrade
    CLITLSKept
    RenewalServed
CHECK_DEADLOCK FALSE
