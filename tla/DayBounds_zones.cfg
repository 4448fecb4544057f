SPECIFICATION Spec
CONSTANTS
    Events = {e1}
    Instants <- SomeInstants
    Days = {1, 2, 3}
    Day = 12
    Zones <- SomeZones
    Unparsed = Unparsed
    Null = Null
INVARIANTS
    DayFilterAgrees
    TwinsAgree
    DaysFollow
CHECK_DEADLOCK FALSE
