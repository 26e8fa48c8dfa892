SPECIFICATION Spec
CONSTANTS
    Depth = 5
    NoopExtra = 2
    RendezvousExtra = 2
    InitialPrepost = 3
    PrepostThreshold = 1
    NotifyThreshold = 2
    DynamicThreshold = 3
    CreditPreserve = 1
    SqSize = 1
    EagerSizes = {1, 3}
    R3Sizes = {3}
    MaxSends <- TwoAndOne
INVARIANTS
    TypeOK
    BacklogOnlyWhenStarved
    ExtSendqOnlyWhenFull
    InOrder
    CreditConservation
    CreditsAreBacked
    ReceiveQueueBounded
    RendezvousInitialized
    AccountsAreExact
PROPERTIES
    EagerKeepsPreserve
CHECK_DEADLOCK FALSE
