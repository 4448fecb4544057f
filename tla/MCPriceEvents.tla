--------------------------- MODULE MCPriceEvents ---------------------------
(***************************************************************************)
(* Small instances of PriceEvents: UTC, with an hour of two units and a    *)
(* day of eight.                                                           *)
(***************************************************************************)
EXTENDS PriceEvents

EventSymmetry == Permutations(Events)

Utc == {[ms \in -2..11 |-> 0]}

OneDay == {1}

\* One call, several behind one event, and one that claims more 1h writes than
\* it made.
SomeCounts == {[write |-> 1, write1h |-> Null, calls |-> 1],
               [write |-> 3, write1h |-> Null, calls |-> 2],
               [write |-> 1, write1h |-> 3, calls |-> 1]}

SomeCosts == {Null, 7}
=============================================================================
