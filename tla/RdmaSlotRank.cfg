SPECIFICATION Spec
CONSTANTS
    Words = 8
    Sizes = {2}
    Values <- Flags
    Ids = 2
    AltTag = 4
    RankWord = 2
    Me = 1
INVARIANTS
    TakenWhole
