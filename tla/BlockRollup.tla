---------------------------- MODULE BlockRollup ----------------------------
(***************************************************************************)
(* Billing-block rollups: block_rollup of rollup.rs, and its twin          *)
(* blockRollup of rollup.ts.  Events are taken in the order of their       *)
(* instants, those whose timestamp does not parse last; a block opens at   *)
(* the first event past the end of the block before it, at that event's    *)
(* instant floored to the grain in the zone, and spans the width.          *)
(*                                                                         *)
(* One step is one iteration of the loop.  The order of the sort is in the *)
(* guard Reached: events of equal instants may come in any order, which   *)
(* covers the stable sort for every order of the input.                    *)
(***************************************************************************)
EXTENDS Integers, Sequences

CONSTANTS
    Events,         \* the events to aggregate
    Instants,       \* the instants their timestamps may denote, in ms
    Unparsed,       \* a timestamp that does not parse; the key "invalid-date"
    Widths,         \* requested block widths
    DefaultWidth,   \* DEFAULT_BLOCK_MS
    Hour,           \* HOUR_MS
    Zones,          \* time zones: the offset from UTC at each instant
    Counts,         \* token counters of an event
    Null,           \* no block end yet; a counter that was not reported
    MaxInt,         \* i64::MAX
    MaxCount        \* u64::MAX

ASSUME BlockAssumption ==
    /\ Instants \subseteq Int /\ Unparsed \notin Int /\ Null \notin Int
    /\ Widths \subseteq Int
    /\ DefaultWidth \in Nat \ {0} /\ Hour \in Nat \ {0}
    /\ MaxInt \in Nat /\ MaxCount \in Nat
    /\ \A ms \in Instants : ms < MaxInt
    /\ \A c \in Counts : /\ c.write \in 0..MaxCount
                         /\ c.write1h \in 0..MaxCount \cup {Null}

\* A zone gives an offset to every instant.
ASSUME ZoneAssumption == \A z \in Zones : \A ms \in Instants : z[ms] \in Int

VARIABLES
    at,             \* the events' instants
    tokens,         \* the events' counters
    width,          \* the block width in force
    zone,           \* the time zone
    pending,        \* the events the loop has not reached
    rows,           \* the rows built so far
    end             \* the first instant past the last block, or Null

input == <<at, tokens, width, zone>>
vars == <<input, pending, rows, end>>

\* A row: its key, the events counted in it, and two of its counters (the
\* others are summed like write).
Row == [key : Int \cup {Unparsed}, events : SUBSET Events,
        write : 0..MaxCount, write1h : 0..MaxCount \cup {Null}]

TypeOK ==
    /\ at \in [Events -> Instants \cup {Unparsed}]
    /\ tokens \in [Events -> Counts]
    /\ width \in Nat \ {0}
    /\ zone \in Zones
    /\ pending \subseteq Events
    /\ rows \in Seq(Row)
    /\ end \in Int \cup {Null}

\* A width that is not positive asks for the default.
EffectiveWidth(requested) == IF requested > 0 THEN requested ELSE DefaultWidth

Init ==
    /\ at \in [Events -> Instants \cup {Unparsed}]
    /\ tokens \in [Events -> Counts]
    /\ \E requested \in Widths : width = EffectiveWidth(requested)
    /\ zone \in Zones
    /\ pending = Events
    /\ rows = <<>>
    /\ end = Null

-----------------------------------------------------------------------------
Least(a, b) == IF a <= b THEN a ELSE b

Saturated(sum, max) == Least(sum, max)

\* Time since the start of the wall-clock hour in the zone.
WithinHour(ms) == (ms + zone[ms]) % Hour

\* Mutation: a block starts on the hour, also when it is shorter than one.
BlockStartHourly(ms) == ms - WithinHour(ms)

BlockStart(ms) == ms - (WithinHour(ms) % Least(width, Hour))

\* Mutation: the window includes the instant past its end.
BlockEndInclusive(start) == Saturated(start + width + 1, MaxInt)

BlockEnd(start) == Saturated(start + width, MaxInt)

EmptyRow(key) == [key |-> key, events |-> {}, write |-> 0, write1h |-> Null]

\* Mutation: 1h writes are believed.
Unclamped1h(c) == c.write1h

\* One event's 1h writes, never more than its own writes.
Clamped1h(c) == Least(c.write1h, c.write)

Reported(count) == IF count = Null THEN 0 ELSE count

Added(row, e) ==
    [key |-> row.key,
     events |-> row.events \cup {e},
     write |-> Saturated(row.write + tokens[e].write, MaxCount),
     write1h |-> IF tokens[e].write1h = Null THEN row.write1h
                 ELSE Saturated(Reported(row.write1h) + Clamped1h(tokens[e]),
                                MaxCount)]

-----------------------------------------------------------------------------
Before(e, f) ==
    at[e] # Unparsed /\ (at[f] = Unparsed \/ at[e] < at[f])

Reached(e) == e \in pending /\ \A f \in pending : ~Before(f, e)

\* Mutation: the new row forgets the event that opens it.
AppendRowEmpty(key, e) == rows' = Append(rows, EmptyRow(key))

AppendRow(key, e) == rows' = Append(rows, Added(EmptyRow(key), e))

AddToLast(e) == rows' = [rows EXCEPT ![Len(rows)] = Added(rows[Len(rows)], e)]

\* The event lies past the block that is open, or none is.
OpenBlock(e) ==
    /\ Reached(e)
    /\ at[e] # Unparsed
    /\ end # Null => at[e] >= end
    /\ AppendRow(BlockStart(at[e]), e)
    /\ end' = BlockEnd(BlockStart(at[e]))
    /\ pending' = pending \ {e}
    /\ UNCHANGED input

JoinBlock(e) ==
    /\ Reached(e)
    /\ at[e] # Unparsed
    /\ end # Null /\ at[e] < end
    /\ AddToLast(e)
    /\ pending' = pending \ {e}
    /\ UNCHANGED <<input, end>>

LastIsInvalid == rows # <<>> /\ rows[Len(rows)].key = Unparsed

OpenInvalid(e) ==
    /\ Reached(e)
    /\ at[e] = Unparsed /\ ~LastIsInvalid
    /\ AppendRow(Unparsed, e)
    /\ pending' = pending \ {e}
    /\ UNCHANGED <<input, end>>

JoinInvalid(e) ==
    /\ Reached(e)
    /\ at[e] = Unparsed /\ LastIsInvalid
    /\ AddToLast(e)
    /\ pending' = pending \ {e}
    /\ UNCHANGED <<input, end>>

Next == \E e \in Events :
    OpenBlock(e) \/ JoinBlock(e) \/ OpenInvalid(e) \/ JoinInvalid(e)

Spec == Init /\ [][Next]_vars

-----------------------------------------------------------------------------
(***************************************************************************)
(* Properties.                                                             *)
(***************************************************************************)

\* Two blocks never share a key: block starts strictly ascend, whatever the
\* width, the zone and its transitions, and the events that do not parse share
\* one trailing row.
KeysAscend ==
    \A i, j \in DOMAIN rows : i < j =>
        /\ rows[i].key # Unparsed
        /\ rows[j].key # Unparsed => rows[i].key < rows[j].key

\* Every event is counted in the block whose window [start, start + width)
\* holds its instant, also where the windows of two blocks overlap and where
\* the end of the window saturates.
EventInWindow ==
    \A i \in DOMAIN rows : \A e \in rows[i].events :
        IF rows[i].key = Unparsed
        THEN at[e] = Unparsed
        ELSE /\ at[e] # Unparsed
             /\ rows[i].key <= at[e] /\ at[e] < rows[i].key + width

\* Every event the loop has passed is counted in exactly one row, and no row
\* is empty.
CountedOnce ==
    /\ \A e \in Events \ pending : \E i \in DOMAIN rows : e \in rows[i].events
    /\ \A i, j \in DOMAIN rows : i # j => rows[i].events \cap rows[j].events = {}
    /\ \A i \in DOMAIN rows : rows[i].events # {} /\ rows[i].events \cap pending = {}

\* A malformed event cannot rebill other events' writes at the 1h rate: the 1h
\* writes of a row never exceed its writes, also when the sums saturate.
Write1hWithinWrites ==
    \A i \in DOMAIN rows : Reported(rows[i].write1h) <= rows[i].write
=============================================================================
