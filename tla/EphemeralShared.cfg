SPECIFICATION FairSpec
CONSTANTS
    Branch = {0, 1}
    KeyLen = 3
    Threads = {t1, t2}
    Addr <- MCAddr
    Root <- MCRoot
    NULL = NULL
    Keys <- MCKeys
    Value = {1, 2}
    NoValue = NoValue
    Inserts <- MCInserts
    Merge <- Overwrite
    MovedFrom <- MoveCopies
    Malloc <- MCMalloc
    Ops = {"ins", "get"}
INVARIANTS
    WellFormed
    SizesAccounted
    RootHashCanonical
    ProofsExact
PROPERTIES
    Linearizable
    Progress
