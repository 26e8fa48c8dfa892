SPECIFICATION Spec
CONSTANTS
    IdSpace = 65536
    FirstId = 2
    AckThreshold = 1
    Scripts <- OneEager
    MaxFaults <- TwoFaults
    FaultInHandshake = TRUE
    ReceiveInRecovery = FALSE
INVARIANTS
    LockReleased
CHECK_DEADLOCK FALSE
