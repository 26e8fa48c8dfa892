SPECIFICATION Spec
CONSTANTS
    IdSpace = 65536
    FirstId = 2
    AckThreshold = 1
    Scripts <- Crossing
    MaxFaults <- OneFault
    FaultInHandshake = FALSE
    ReceiveInRecovery = FALSE
INVARIANTS
    NothingAborts
CHECK_DEADLOCK FALSE
