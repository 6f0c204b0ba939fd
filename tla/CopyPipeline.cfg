SPECIFICATION PipelineSpec
CONSTANTS
    Keys = {1}
    Followers = {f1, f2}
    Lot <- AnyQuantity
    ExecTypes <- TradesOnly
    Concurrency = 1
    Attempts = 1
    BlockIfOpen = TRUE
    ClipClose = TRUE
    PromptFills = FALSE
    MasterSides = {"Buy"}
    MaxQty = 1
    MaxTrades = 1
    MaxMishaps = 5
    TTL = 1
    MaxItems = 1
    MaxBatch = 1
    MaxTime = 3
    MaxCrashes = 1
    FileCorruptible = TRUE
CHECK_DEADLOCK FALSE
INVARIANTS
    CopyIsRemembered
PROPERTIES
    EngineReadsOn
    MarkedIsSettled
