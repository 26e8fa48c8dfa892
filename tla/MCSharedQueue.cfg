SPECIFICATION Spec
CONSTANTS
    AllocSize = 5
    FillSize = 3
    Limit = 2
    ZeroPostMax = 1
    LargeFill = 4
    FillMargin = 2
    DataMax = 2
    MaxPending = 4
    Eager = 4
    Transfers = 2
    R3Bytes = 5
INVARIANTS
    TypeOK
    NeverStarved
PROPERTIES
    ThreadWakes
    TransferEnds
CHECK_DEADLOCK FALSE
