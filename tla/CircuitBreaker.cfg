CONSTANTS
    Callers = {c1, c2, c3}
    Errs = {"transient"}
    NoErr = "nil"
    Threshold = 2
    Cooldown = 1
    MaxFaults = 3
    MaxAborts = 1
SPECIFICATION FairSpec
INVARIANTS
    TypeOK
    TrialSlot
    OpenIsQuiet
    StatusIsExplained
PROPERTIES
    TrialDecides
    CancellationIsNoEvidence
    Recovers
