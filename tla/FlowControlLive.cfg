SPECIFICATION FairSpec
CONSTANTS
    Depth = 3
    NoopExtra = 1
    RendezvousExtra = 1
    InitialPrepost = 2
    PrepostThreshold = 0
    NotifyThreshold = 2
    DynamicThreshold = 2
    CreditPreserve = 1
    SqSize = 1
    EagerSizes = {1}
    R3Sizes = {3}
    MaxSends <- OneEach
PROPERTIES
    EventuallySettled
CHECK_DEADLOCK FALSE
