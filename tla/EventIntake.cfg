SPECIFICATION Spec
CONSTANTS
    Keys = {k1, k2, k3}
    TTL = 1
    MaxItems = 2
    MaxBatch = 2
    MaxTime = 3
    MaxCrashes = 1
    FileCorruptible = TRUE
SYMMETRY KeySymmetry
INVARIANTS
    TypeOK
    NoReplayWithinTTL
    DispatchIsDurable
    SuppressedWasAccounted
