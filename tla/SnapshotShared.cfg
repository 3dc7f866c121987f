SPECIFICATION FairSpec
CONSTANTS
    Branch = {0, 1}
    KeyLen = 2
    Threads = {t1, t2}
    Addr <- MCAddr
    NULL = NULL
    Keys <- MCKeys2
    Value = {1, 2}
    NoValue = NoValue
    Logical = {1}
    Malloc <- MCMalloc
    Merge <- Overwrite
    MaxGarbage = 0
    SubnodeLens = {0, 1}
    Ops = {"ins", "get"}
    Disjoint = FALSE
INVARIANTS
    TreeOK
    HashesFresh
PROPERTIES
    Linearizable
    Progress
