SPECIFICATION Spec
CONSTANTS
    Pages = 3
    NdregEntries = 2
    CacheLimit = 4
    Word = 8
    o1 = o1
    o2 = o2
    Op = {o1, o2}
    MaxQueued = 1
SYMMETRY Symmetry
VIEW View
INVARIANTS
    LookupExact
    EntriesAccounted
    OperationsArePinned
CHECK_DEADLOCK FALSE
