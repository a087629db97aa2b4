SPECIFICATION WebSpec
CONSTANTS
    Slots = {1, 2}
    Paths = {"v", "w"}
    Existing = {"v"}
    MaxHandles = 3
    MaxPhrases = 2
    MaxTokens = 1
    MaxEntries = 2
    MaxRequests = 4
INVARIANTS
    VerifiesItsTarget
    DavTokenScope
    PresenceOwn
    ReadBackFirst
    CancelStops
PROPERTIES
    RequestsAnswered
CHECK_DEADLOCK FALSE
