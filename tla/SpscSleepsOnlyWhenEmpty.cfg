SPECIFICATION SSpec
CONSTANTS
    N = 3
    MaxBytes = 7
    WakesKept = TRUE
INVARIANTS
    SleepsOnlyWhenEmpty
CHECK_DEADLOCK FALSE
