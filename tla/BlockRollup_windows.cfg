SPECIFICATION Spec
CONSTANTS
    Events = {e1, e2, e3}
    Instants <- SomeInstants
    Unparsed = Unparsed
    Widths <- SomeWidths
    DefaultWidth = 8
    Hour = 4
    Zones <- SomeZones
    Counts <- SomeCounts
    Null = Null
    MaxInt = 20
    MaxCount = 3
SYMMETRY EventSymmetry
INVARIANTS
    KeysAscend
    EventInWindow
    CountedOnce
CHECK_DEADLOCK FALSE
