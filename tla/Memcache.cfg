SPECIFICATION Spec
CONSTANTS
    Branch = {0, 1}
    KeyLen = 2
    Threads = {t1, t2}
    Keys <- MCKeys3
    Value = {v1, v2}
    NoValue = NoValue
    NoHash = NoHash
    SubLen = {1}
    MaxRound = 3
    MaxCalls = 4
SYMMETRY Interchangeable
CHECK_DEADLOCK FALSE
INVARIANTS
    NothingForgotten
    LogPrunable
    HashCanonical
    ProofsExact
