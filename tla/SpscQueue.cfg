SPECIFICATION SSpec
CONSTANTS
    N = 4
    MaxBytes = 8
    WakesKept = FALSE
INVARIANTS
    GrantsDisjoint
    ReadsInOrder
    SleepsOnlyAfterWrap
PROPERTIES
    IsFifo
    DrainedOrWrapped
CHECK_DEADLOCK FALSE
