SPECIFICATION FairSpec
CONSTANTS
    Files = {"a", "b"}
    Stored = {"a"}
    PutOn = {1}
    Fence = 2
    MaxLag = 1
    MaxPut = 0
    MaxCrashes = 1
INVARIANTS
    NoDanglingReference
PROPERTIES
    GarbageGoes
