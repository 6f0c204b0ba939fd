SPECIFICATION Spec
CONSTANTS
    MaxQueue = 1
    MaxExponent <- FloatExponent
    MaxOutage <- LongOutage
CHECK_DEADLOCK FALSE
INVARIANTS
    EndsOnlyWhenStopped
