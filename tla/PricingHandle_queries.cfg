SPECIFICATION FairSpec
CONSTANTS
    NumSources = 2
    Ttl = 2
    Refresh = TRUE
    Threads = {t1, t2}
    Null = Null
    KeepsStamp = TRUE
    ClockSteps = FALSE
    MaxHandles = 4
    MaxTime = 8
INVARIANTS
    MemorySafe
    NoLeak
    RefreshExactlyOnce
    FailureNotMemoized
    FreshUse
PROPERTIES
    ClosedForGood
    ImplementsMemo
    LockReleased
CHECK_DEADLOCK FALSE
