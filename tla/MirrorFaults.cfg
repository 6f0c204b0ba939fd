SPECIFICATION Spec
CONSTANTS
    Followers = {f1}
    Lot <- AnyQuantity
    ExecTypes <- TradesAndBust
    Concurrency = 1
    Attempts = 2
    BlockIfOpen = TRUE
    ClipClose = TRUE
    PromptFills = FALSE
    Faults = TRUE
    MaxQty = 2
    MaxTrades = 2
    MaxMishaps = 1
CHECK_DEADLOCK FALSE
INVARIANTS
    TypeOK
    SubmittedIsTaken
PROPERTIES
    AtMostOneCopy
    CloseNeverOpens
