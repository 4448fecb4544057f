---------------------------- MODULE MCDayBounds ----------------------------
(***************************************************************************)
(* Small instances of DayBounds: a day is twelve units of two hours, and   *)
(* the transitions happen around the beginning of day 2 (unit 24).         *)
(***************************************************************************)
EXTENDS DayBounds

Fixed(o) == [before |-> o, after |-> o, moves |-> 0]

\* The clock of a zone at offset o shows wall when it is moved by shift.
Moves(o, wall, shift) == [before |-> o, after |-> o + shift, moves |-> wall - o]

\* UTC and a zone of five units; clocks set forward at midnight (Havana,
\* Santiago), to midnight (Nuuk) and at night; set back to midnight (Havana),
\* at midnight (Beirut) and at night; a zone that skipped a day (Apia) and one
\* that repeated one (Alaska).
OrdinaryZones == {Fixed(0), Fixed(-5),
    Moves(-2, 24, 1), Moves(-1, 23, 1), Moves(3, 25, 1),
    Moves(-2, 25, -1), Moves(1, 24, -1), Moves(3, 27, -1),
    Moves(-5, 24, 12), Moves(7, 36, -12)}

\* Clocks set back from just after midnight to before it (St. John's until
\* 2011), and forward from before midnight to after it (Toronto, 1919).
StraddlingZones == {Moves(-2, 25, -2), Moves(-2, 23, 2)}

SomeZones == OrdinaryZones \cup StraddlingZones

SomeInstants == {17, 18, 22, 23, 24, 25, 26, 27, 28, 29, 31, 38}
=============================================================================
