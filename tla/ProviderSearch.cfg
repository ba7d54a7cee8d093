CONSTANTS
    Calls = {"c1", "c2"}
    Scenarios <- OneOrTwo
    Urls = {"u", "u2", "v"}
    Key <- Normalized
    PageSize = 2
    MaxPages = 3
    BraveMaxCount = 2
    BravePages = 3
    DefaultCount = 2
    MaxCount = 3
    Backoffs = {0, 1, 3}
    Midnights = {0, 2}
    Throttle = 2
    MaxCooldown = 2
SPECIFICATION FairSpec
INVARIANTS
    PagesAreMergedInOrder
    EmptyMeansEmpty
    LaterPagesAreBonus
PROPERTIES
    NoPageIsWasted
    CooldownIsHonoured
    EveryCallReturns
CHECK_DEADLOCK FALSE
