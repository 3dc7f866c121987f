SPECIFICATION Spec
CONSTANTS
    Contexts = {c1, c2}
    BufSize = 4
    NumBuffers = 3
    NodeCounts = {1, 2}
    MaxRequests = 4
SYMMETRY ContextSymmetry
INVARIANTS
    GivenOnce
    HandlesUsable
