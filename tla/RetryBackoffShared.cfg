CONSTANTS
    Goroutines = {g1, g2}
    Width = 3
    MaxAttempt = 1
    RetryAfters = {0}
    Second = 2
    RetryAfterCap = 3
    TableLen = 2
    MaxDraws = 2
SPECIFICATION Spec
INVARIANTS
    JitterReturns
CHECK_DEADLOCK FALSE
