CONSTANTS
    Width = 4
    Second = 3
    RetryAfterCap = 4
    rrfK = 60
    MaxRank = 3
    DefaultCount = 2
    MaxResultCount = 3
    defaultQueryContextLines = 1
    defaultMaxQueryMatches = 2
    maxQueryContextLines = 2
    maxQueryMatches = 3
    maxPDFPages = 3
    Searches <- AllSearches
    Reads <- AllReads
    PDFs <- AllPDFs
    Delays <- AllDelays
SPECIFICATION Spec
INVARIANTS
    MergeIsFair
    ChunksRebuildTheText
    CutsAreTold
    DelayIsAsDocumented
CHECK_DEADLOCK FALSE
