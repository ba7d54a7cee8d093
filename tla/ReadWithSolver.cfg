CONSTANTS
    MaxPages = 3
    TopLimit = 2
    ReplyLimit = 2
    MaxKids = 4
    Workers = 3
    MaxNonce = 2
SPECIFICATION FairSpec
INVARIANTS
    NothingIsMissing
    ListsAreCutOnlyAtTheCap
    ArchiveOnlyForGonePages
    OnlyReadableContent
    OneValidSolution
PROPERTIES
    NothingLeaks
    EveryReadReturns
CHECK_DEADLOCK FALSE
