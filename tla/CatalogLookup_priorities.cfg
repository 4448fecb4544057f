SPECIFICATION LookupSpec
CONSTANTS
    exact = exact
    stripped = stripped
    other = other
    Keys = {exact, stripped, other}
    Candidates <- TwoCandidates
    Catalogs <- SomeCatalogs
    MaxCatalogs = 3
    Absent = Absent
    None = None
INVARIANTS
    HitIsBest
    MissExplained
CHECK_DEADLOCK FALSE
