SPECIFICATION Spec
CONSTANTS
    InstrumentSpecs <- SmallSpecs
    Quantities = {0, 1, 2, 5, 6, 7}
    CacheTTL = 1
    MaxTime = 4
    NoSpec = NoSpec
INVARIANTS
    TypeOK
    OrderQtyIsLargest
    SpecIsRecent
