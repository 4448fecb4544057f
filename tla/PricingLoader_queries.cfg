SPECIFICATION FairSpec
CONSTANTS
    NumSources = 2
    Ttl = 1
    Refresh = TRUE
    Queries = {q1, q2}
    Null = Null
    MaxLoads = 3
    MaxEngines = 4
    MaxTime = 3
INVARIANTS
    SingleFlight
    RefreshExactlyOnce
    FreshAnswer
PROPERTIES
    NoReplayedRejection
    ImplementsMemo
    QueriesSettle
CHECK_DEADLOCK FALSE
