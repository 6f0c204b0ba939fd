SPECIFICATION Spec
CONSTANTS
    Followers = {f1}
    Lot <- AnyQuantity
    ExecTypes <- TradesOnly
    Concurrency = 1
    Attempts = 1
    BlockIfOpen = TRUE
    ClipClose = TRUE
    PromptFills = FALSE
    Faults = FALSE
    MaxQty = 2
    MaxTrades = 2
    MaxMishaps = 0
CHECK_DEADLOCK FALSE
INVARIANTS
    FlatWhenMasterFlat
