SPECIFICATION FairSpec
CONSTANTS
    N = 3
    Headers = {0}
    SendSizes <- OneOfEach
    MaxSends <- FiveAndThree
INVARIANTS
    NoOverwrite
    RingAccount
    SendsComplete
    WaitIsShort
    HeaderDecoded
PROPERTIES
    ArrivesInOrder
CHECK_DEADLOCK FALSE
