--------------------------- MODULE MCBlockRollup ---------------------------
(***************************************************************************)
(* Small instances of BlockRollup: the unit is a quarter of an hour.       *)
(***************************************************************************)
EXTENDS BlockRollup, TLC

EventSymmetry == Permutations(Events)

\* The instants and every start a block of theirs can have.
Timeline == -7..11

Fixed(offset) == [ms \in Timeline |-> offset]

\* A zone that is set back by shift at instant 6.
FallsBack(offset, shift) ==
    [ms \in Timeline |-> IF ms < 6 THEN offset ELSE offset - shift]

\* UTC, a zone of three quarters of an hour (Kathmandu), and one that repeats a
\* whole hour (New York).
WholeHourZones == {Fixed(0), Fixed(3), FallsBack(-4, 4)}

\* A zone whose transition is half an hour (Lord Howe).
HalfHourZones == {FallsBack(2, 2)}

SomeZones == WholeHourZones \cup HalfHourZones

\* Instants before and after the transition, and before the epoch.
SomeInstants == {-3, 0, 2, 5, 6, 7, 11}

\* Plain writes, writes reported in part at 1h, and a malformed report whose
\* 1h part exceeds its writes.
SomeCounts == {[write |-> 2, write1h |-> Null], [write |-> 2, write1h |-> 1],
               [write |-> 1, write1h |-> 2]}

\* Default (0); shorter than an hour, dividing it or not; an hour; one that is
\* no multiple of the hour; and one whose end saturates.
SomeWidths == {0, 2, 3, 4, 6, 19}
=============================================================================
