CONSTANTS
    Texts = {"a", "b"}
    MaxQueries = 4
    MaxConcurrency = 2
SPECIFICATION FairSpec
INVARIANTS
    SemaphoreIsExact
    BatchIsLossless
PROPERTIES
    BatchReturns
CHECK_DEADLOCK FALSE
