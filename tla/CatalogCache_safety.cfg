SPECIFICATION Spec
CONSTANTS
    Loaders = {core, node}
    StampsAtStart = {core}
    ToleratesStore = {core}
    Ttl = 1
    FetchTimeout = 1
    Null = Null
    Torn = Torn
    ClockLag = 1
    MaxTime = 3
INVARIANTS
    FreshIsRecent
    LifecycleContract
PROPERTY UsableFileKept
CHECK_DEADLOCK FALSE
