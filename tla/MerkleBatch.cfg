SPECIFICATION Spec
CONSTANTS
    Branch = {0, 1, 2}
    KeyLen = 3
    NoValue = NoValue
    NoHash = NoHash
    Null = Null
    Mains <- MCMains
    Batches <- MCBatches
    Divisible = 2
    Slack = 0
    Modulus = 16
    MaxRanges = 4
CHECK_DEADLOCK FALSE
INVARIANTS
    BatchAccounted
    MergedExactly
