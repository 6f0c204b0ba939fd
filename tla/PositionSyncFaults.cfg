SPECIFICATION Spec
CONSTANTS
    Followers = {f1}
    Leverages = {1, 2}
    Stops = {1}
    Triggers = {LastPrice}
    MasterSettings <- TwoSettings
    DefaultTrigger = LastPrice
    SyncLeverage = TRUE
    SyncTpsl = TRUE
    CancelEmpty = TRUE
    Concurrency = 1
    SyncAttempts = 2
    MayClose = TRUE
    Reordered = TRUE
    Losses = TRUE
    Faults = TRUE
    MaxMoves = 2
    None = None
CHECK_DEADLOCK FALSE
INVARIANTS
    TypeOK
    DesiredIsCurrent
PROPERTIES
    DesiredGoesForward
    SyncedIsSet
    SyncReturns
