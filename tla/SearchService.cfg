CONSTANTS
    Requests = {r1}
    Names <- ThreeNames
    Burst = 1
    ProviderTimeout = TRUE
SPECIFICATION FairSpec
INVARIANTS
    FallbackServesFirst
    FanoutAccountsForAll
    TimeoutIsProvidersFault
    FailureIsTotal
PROPERTIES
    EverySearchReturns
CHECK_DEADLOCK FALSE
