SPECIFICATION Spec
CONSTANTS
    Keys = {k1, k2}
    TTL = 1
    MaxItems = 2
    MaxBatch = 2
    MaxTime = 4
    MaxCrashes = 0
    FileCorruptible = FALSE
PROPERTIES
    ExpiredKeyIsNew
