SPECIFICATION WalkSpec
CONSTANTS
    Devices = {1, 2}
    MaxClock = 2
    Stamps <- MCStamps
    KeyRanks = {1, 2, 3}
    Bodies = {1, 2}
    MaxCopies = 3
    Mixed = FALSE
INVARIANTS
    OrderIndependent
    NothingDropped
    WinnerIsMaximal
CHECK_DEADLOCK FALSE
