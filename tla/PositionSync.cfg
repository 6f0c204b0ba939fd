SPECIFICATION Spec
CONSTANTS
    Followers = {f1, f2}
    Leverages = {1, 2}
    Stops = {1, 2}
    Triggers = {LastPrice, MarkPrice}
    MasterSettings <- AnySettings
    DefaultTrigger = LastPrice
    SyncLeverage = TRUE
    SyncTpsl = TRUE
    CancelEmpty = TRUE
    Concurrency = 1
    SyncAttempts = 2
    MayClose = FALSE
    Reordered = FALSE
    Losses = FALSE
    Faults = FALSE
    MaxMoves = 3
    None = None
CHECK_DEADLOCK FALSE
SYMMETRY FollowerSymmetry
INVARIANTS
    SettingsAligned
