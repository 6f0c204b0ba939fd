SPECIFICATION Spec
CONSTANTS
    Followers = {f1}
    Leverages = {1}
    Stops = {1}
    Triggers = {LastPrice, MarkPrice}
    MasterSettings <- AnySettings
    DefaultTrigger = LastPrice
    SyncLeverage = TRUE
    SyncTpsl = TRUE
    CancelEmpty = TRUE
    Concurrency = 1
    SyncAttempts = 2
    MayClose = TRUE
    Reordered = FALSE
    Losses = FALSE
    Faults = FALSE
    MaxMoves = 3
    None = None
CHECK_DEADLOCK FALSE
INVARIANTS
    SettingsAligned
