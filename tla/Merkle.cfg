SPECIFICATION Spec
CONSTANTS
    Branch = {0, 1, 2}
    KeyLen = 3
    Keys <- MCKeys
    Loads <- MCLoads
    Others <- MCOthers
    Endow = {1}
    Queries <- MCQueries
    NoValue = NoValue
    NoHash = NoHash
    Null = Null
    GrainSize = 1
    Families <- MCFamilies
    MaxSteps = 4
CHECK_DEADLOCK FALSE
INVARIANTS
    ContentExact
    MetadataExact
    WellFormed
    RootHashCanonical
    AnswersExact
PROPERTIES
    TakenExactly
