SPECIFICATION SessionSpec
CONSTANTS
    Slots = {s1, s2}
    MaxIds = 2
    MaxPapers = 2
    MaxRequests = 5
    MaxSessionTime = 2
    TTL = 1
    RefreshAfter = 1
    PaperTTL = 1
SYMMETRY Symmetry
PROPERTIES
    GoneStaysGone
    LoginSticks
    PapersOnce
CHECK_DEADLOCK FALSE
