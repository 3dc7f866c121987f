SPECIFICATION Spec
CONSTANTS
    Branch = {0, 1}
    KeyLen = 2
    Threads = {t1}
    Keys <- MCKeys2
    Value = {0, 1}
    Inactive = 0
    MaxLayer = 4
    MaxCalls <- MCMaxCalls
    WordSize = 256
    Ops = {"ins", "gc"}
    Back = {1}
    Hashed = {}
    Null = Null
    NoHash = NoHash
CHECK_DEADLOCK FALSE
INVARIANTS
    LayeredAssertsHold
