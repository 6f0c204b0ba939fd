SPECIFICATION Spec
CONSTANTS
    Followers = {f1}
    Lot <- CappedLot
    ExecTypes <- TradesOnly
    Concurrency = 1
    Attempts = 1
    BlockIfOpen = TRUE
    ClipClose = TRUE
    PromptFills = TRUE
    Faults = FALSE
    MaxQty = 3
    MaxTrades = 5
    MaxMishaps = 0
CHECK_DEADLOCK FALSE
INVARIANTS
    FollowerWithinMaster
    CopiedExactly
PROPERTIES
    CopiesInSteps
