SPECIFICATION FairSpec
CONSTANTS
    Rank <- TwoRanks
    MaxSends <- BothSend
    Copies = {c1, c2}
INVARIANTS
    RetryMatchesState
    TimerAwake
    QueuedSendsAreSeen
    EndsMatch
PROPERTIES
    PostsOnReadyQp
    ArrivesInOrder
