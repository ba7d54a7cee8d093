CONSTANTS
    Urls = {u1, u2}
    Large = u2
    SizeOf <- Sizes
    Readers = {r1, r2}
    TTL = 1
    MaxEntries = 2
    MaxBytes = 4
    UseDir = TRUE
    MaxDisk = 2
    DiskFaults = TRUE
    Changing = {u1}
    MaxVersion = 1
    MaxLatency = 0
    MaxRestarts = 0
SPECIFICATION Spec
PROPERTIES
    BoundedStaleness
