SPECIFICATION FairSpec
CONSTANTS
    Branch = {0, 1}
    KeyLen = 3
    Keys <- MCKeys
    Kinds = {"accumulate", "apply", "hash"}
    GrainSize = 1
    HashGrain = 1
    MaxSplitLen = 2
INVARIANTS
    WorkPartitioned
PROPERTIES
    WorkDone
