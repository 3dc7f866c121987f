SPECIFICATION Spec
CONSTANTS
    Branch = {0, 1}
    KeyLen = 3
    NoValue = NoValue
    NoHash = NoHash
    Null = Null
    Threads = {1, 2, 3}
    Keys <- MCKeys
    Fills <- MCFills
    BufSize = 100
    BatchSize = 3
    Divisible = 2
    Slack = 0
    Modulus = 16
    MaxCalls = 4
CHECK_DEADLOCK FALSE
INVARIANTS
    HandlesOwned
    ContentsExact
    BatchAccounted
    RootHashCanonical
