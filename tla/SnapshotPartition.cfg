SPECIFICATION Spec
CONSTANTS
    Branch = {0, 1}
    KeyLen = 2
    Threads = {t1, t2}
    Addr <- MCAddr
    NULL = NULL
    Keys <- MCKeys3
    Value = {0, 1}
    NoValue = NoValue
    Logical = {1}
    Malloc <- MCMalloc
    Merge <- Overwrite
    MaxGarbage = 0
    SubnodeLens = {0, 2}
    Ops = {"ins", "del"}
    Disjoint = TRUE
SYMMETRY ThreadSymmetry
INVARIANTS
    IndInv
    TrieAssertsHold
    CollectorSafe
    PathInvalidated
    RootHashCanonical
PROPERTIES
    Linearizable
