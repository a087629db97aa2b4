SPECIFICATION Spec
CONSTANTS
    Surfaces = {s1}
    Peers = {p1, p2, p3}
    Accounts = {a1}
    NoPeer = NoPeer
    NoAccount = NoAccount
    FailuresBeforeLock = 1
    AccountFailuresBeforeLock = 2
    Window = 1
    LockStart = 1
    LockMax = 1
    MaxKeys = 1
    Handlers = {h1, h2}
    OperatorClears = TRUE
    HandlersLeak = FALSE
SYMMETRY Symmetry
INVARIANTS
    TypeOK
    NoPhantomReservation
    MapBound
