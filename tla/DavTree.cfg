SPECIFICATION DavSpec
CONSTANTS
    None = None
    Clients = {c1, c2}
    Names = {"d", "e"}
    Leaf = "x"
    InitialTrees <- MCInitialTrees
    MaxLen = 2
    MaxStreams = 1
    CacheMax = 1
    PerRequestServer = FALSE
    Mixes = {{"put", "copy"}, {"delete", "mkcol", "copy"}, {"put", "get"}, {"put", "restore"}}
    MaxContents = 3
    MaxRequests = 2
    MaxLosses = 1
SYMMETRY Symmetry
INVARIANT NoStitchedFile
PROPERTY NothingVanishes
CHECK_DEADLOCK FALSE
