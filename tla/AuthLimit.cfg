SPECIFICATION Spec
CONSTANTS
    Surfaces = {s1}
    Peers = {p1}
    Accounts = {a1}
    NoPeer = NoPeer
    NoAccount = NoAccount
    FailuresBeforeLock = 2
    AccountFailuresBeforeLock = 2
    Window = 2
    LockStart = 1
    LockMax = 2
    MaxKeys = 3
    Handlers = {h1, h2, h3}
    OperatorClears = FALSE
    HandlersLeak = TRUE
SYMMETRY Symmetry
INVARIANTS
    AdmissionBound
PROPERTIES
    LockEndsByTime
