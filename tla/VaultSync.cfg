SPECIFICATION MCSpec
CONSTANTS
    Devices = {1, 2}
    MaxWrites = 3
    Copies = 2
    Keys = {1, 2, 3}
    NoDeviceID = {}
    Ahead = {}
    Lead = 10
    clockAgeCompactions = 2
    CompactFaults = TRUE
INVARIANTS
    TypeOK
    NoLostEdit
    CompactSettles
    CompactEndsUnseen
    CompactHidesNothing
CHECK_DEADLOCK FALSE
VIEW View
