SPECIFICATION Spec
CONSTANTS
    Branch = {0, 1}
    KeyLen = 2
    Threads = {t1, t2}
    Keys <- MCKeys2
    Value = {0, 1}
    Inactive = 0
    MaxLayer = 3
    MaxCalls <- MCMaxCalls
    WordSize = 256
    Ops = {"ins", "gc"}
    Back = {0, 1, 2}
    Hashed = {0, 1, 2}
    Null = Null
    NoHash = NoHash
SYMMETRY ThreadSymmetry
CHECK_DEADLOCK FALSE
INVARIANTS
    SealedUnchanged
    ActiveComplete
    MemorySafe
    HashCanonical
