SPECIFICATION Spec
CONSTANTS
    Pages = 2
    NdregEntries = 2
    CacheLimit = 0
    Word = 8
    o1 = o1
    o2 = o2
    Op = {o1}
    MaxQueued = 1
INVARIANTS
    NoStaleHit
CHECK_DEADLOCK FALSE
