SPECIFICATION Spec
CONSTANTS
    MaxQueue = 3
    MaxExponent = 3
    MaxOutage = 4
CHECK_DEADLOCK FALSE
INVARIANTS
    TypeOK
    EndsOnlyWhenStopped
PROPERTIES
    StopEnds
    Reconnects
