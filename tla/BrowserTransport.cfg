CONSTANTS
    Requests = {r1, r2, r3}
    MaxStreams = 2
SPECIFICATION FairSpec
INVARIANTS
    ConnectionsAreAccountedFor
PROPERTIES
    EverythingEnds
CHECK_DEADLOCK FALSE
