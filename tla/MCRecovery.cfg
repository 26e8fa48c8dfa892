SPECIFICATION Spec
CONSTANTS
    IdSpace = 65536
    FirstId = 2
    AckThreshold = 1
    Scripts <- Traffic
    MaxFaults <- TrafficFaults
    FaultInHandshake = FALSE
    ReceiveInRecovery = FALSE
INVARIANTS
    NothingAborts
    NothingForgotten
    AcksAreExact
    HandshakeAgrees
    BufferReadInTime
PROPERTIES
    ArrivesInOrder
    EventuallyRecovered
    RendezvousSurvivesFault
CHECK_DEADLOCK FALSE
