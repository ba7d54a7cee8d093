CONSTANTS
    Callers = {c1, c2}
    Keys = {k1, k2}
    Errs = {"blocked", "transient", "context"}
    NoErr = "nil"
    Threshold = 1
    Cooldown = 1
    MaxFaults = 1
    MaxAborts = 1
    MaxAttempts = 2
    TTL = 1
    MaxEntries = 1
SPECIFICATION WrapFairSpec
INVARIANTS
    UpstreamIsShielded
PROPERTIES
    OnlyAnswersAreCached
    EveryCallReturns
    Recovers
