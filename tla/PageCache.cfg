CONSTANTS
    Readers = {r1, r2}
    Urls = {u1, u2, u3, u4}
    Large = u4
    SizeOf <- Sizes
    TTL = 1
    MaxEntries = 2
    MaxBytes = 3
    UseDir = TRUE
    MaxDisk = 1
    DiskFaults = FALSE
    Changing = {u1}
    MaxVersion = 1
    MaxLatency = 1
    MaxRestarts = 1
SPECIFICATION Spec
SYMMETRY Symmetry
INVARIANTS
    BudgetsHold
PROPERTIES
    ReadsAreRecent
