SPECIFICATION FairSpec
CONSTANTS
    Words = 8
    Sizes = {1, 3}
    Values <- Flags
    Ids = 2
    AltTag = 4
    RankWord = 2
    Me = 1
INVARIANTS
    TakenWhole
PROPERTIES
    ComesBack
CHECK_DEADLOCK FALSE
