---------------------------- MODULE RollupProofs ----------------------------
(***************************************************************************)
(* The rollups and what they are priced at.                                *)
(*                                                                         *)
(* Of the rollup by blocks, for every width, zone and set of events: block *)
(* starts strictly ascend, every event is counted exactly once and in the  *)
(* window of its row, and a row's 1h writes never exceed its writes.       *)
(*                                                                         *)
(* Of the pricing of events, for every rollup, mode, catalog and order of  *)
(* the events: a row is priced by the events it counts, a price that tiers *)
(* may distort is flagged, and the price of a row's sums is the sum of its *)
(* events' prices.                                                         *)
(***************************************************************************)
EXTENDS PriceEvents, SequenceTheorems, FiniteSetTheorems, TLAPS

\* The loop takes the events in order: none it has counted comes after one
\* that is pending.
SortedInv ==
    \A i \in DOMAIN rows : \A f \in rows[i].events : \A e \in pending : ~Before(e, f)

\* Once the trailing row is open, only events that do not parse are left.
TrailingInv == LastIsInvalid => \A e \in pending : at[e] = Unparsed

\* end is the end of the last block.
EndInv ==
    /\ end = Null => \A i \in DOMAIN rows : rows[i].key = Unparsed
    /\ end # Null /\ ~LastIsInvalid =>
         rows # <<>> /\ end = BlockEnd(rows[Len(rows)].key)

IInv ==
    /\ TypeOK /\ SortedInv /\ TrailingInv /\ EndInv
    /\ KeysAscend /\ EventInWindow /\ CountedOnce /\ Write1hWithinWrites

-----------------------------------------------------------------------------
(***************************************************************************)
(* The operators.                                                          *)
(***************************************************************************)

\* A block starts at or before the event that opens it, by less than the width.
LEMMA BlockStartBounds ==
    ASSUME TypeOK, NEW ms \in Instants
    PROVE  /\ BlockStart(ms) \in Int
           /\ BlockStart(ms) <= ms
           /\ ms < BlockStart(ms) + width
<1> DEFINE grain == Least(width, Hour)
           within == WithinHour(ms)
<1>1. ms \in Int /\ zone[ms] \in Int
  BY BlockAssumption, ZoneAssumption DEF TypeOK
<1>2. within \in Nat
  BY <1>1, BlockAssumption DEF WithinHour
<1>3. grain \in Nat \ {0} /\ grain <= width /\ width \in Nat
  BY BlockAssumption DEF Least, TypeOK
<1> HIDE DEF grain, within
<1>4. within % grain \in Nat /\ within % grain < grain
  BY <1>2, <1>3
<1>5. BlockStart(ms) = ms - (within % grain)
  BY DEF BlockStart, grain, within
<1> QED  BY <1>1, <1>3, <1>4, <1>5

\* The end of a block is its start and the width, also when it saturates: no
\* instant is as late as the end it saturates at.
LEMMA BlockEndBounds ==
    ASSUME TypeOK, NEW start \in Int
    PROVE  /\ BlockEnd(start) \in Int /\ BlockEnd(start) <= start + width
           /\ \A ms \in Int : ms < MaxInt /\ ms >= BlockEnd(start) => ms >= start + width
<1>1. width \in Nat /\ MaxInt \in Nat
  BY BlockAssumption DEF TypeOK
<1> QED  BY <1>1 DEF BlockEnd, Saturated, Least

\* The positions of the rows.
LEMMA Positions ==
    ASSUME TypeOK
    PROVE  /\ Len(rows) \in Nat /\ DOMAIN rows = 1..Len(rows)
           /\ rows # <<>> => Len(rows) \in DOMAIN rows
           /\ rows = <<>> => DOMAIN rows = {}
           /\ \A i \in DOMAIN rows : rows[i].events \subseteq Events
<1>1. rows \in Seq(Row)
  BY DEF TypeOK
<1>2. \A row \in Row : row.events \subseteq Events
  BY DEF Row
<1>3. \A i \in 1..Len(rows) : rows[i] \in Row
  BY <1>1
<1> QED  BY <1>1, <1>2, <1>3

\* Adding an event keeps a row a row, with the 1h writes within the writes.
LEMMA AddedRow ==
    ASSUME TypeOK, NEW row \in Row, NEW e \in Events
    PROVE  /\ Added(row, e) \in Row
           /\ Added(row, e).key = row.key
           /\ Added(row, e).events = row.events \cup {e}
           /\ Reported(row.write1h) <= row.write =>
                Reported(Added(row, e).write1h) <= Added(row, e).write
<1>1. /\ tokens[e].write \in 0..MaxCount
      /\ tokens[e].write1h \in 0..MaxCount \cup {Null}
  BY BlockAssumption DEF TypeOK
<1>2. /\ row.write \in 0..MaxCount /\ row.write1h \in 0..MaxCount \cup {Null}
      /\ row.events \subseteq Events /\ row.key \in Int \cup {Unparsed}
  BY DEF Row
<1>3. MaxCount \in Nat /\ Null \notin Int
  BY BlockAssumption
<1>4. Added(row, e).write \in 0..MaxCount
  BY <1>1, <1>2, <1>3 DEF Added, Saturated, Least
<1>5. Added(row, e).write1h \in 0..MaxCount \cup {Null}
  BY <1>1, <1>2, <1>3 DEF Added, Saturated, Least, Reported, Clamped1h
<1>6. Added(row, e) \in Row
  BY <1>2, <1>4, <1>5 DEF Added, Row
<1>7. ASSUME Reported(row.write1h) <= row.write
      PROVE  Reported(Added(row, e).write1h) <= Added(row, e).write
  BY <1>1, <1>2, <1>3, <1>7 DEF Added, Saturated, Least, Reported, Clamped1h
<1> QED  BY <1>6, <1>7 DEF Added

LEMMA EmptyIsRow ==
    ASSUME NEW key \in Int \cup {Unparsed}
    PROVE  /\ EmptyRow(key) \in Row
           /\ EmptyRow(key).key = key /\ EmptyRow(key).events = {}
           /\ Reported(EmptyRow(key).write1h) <= EmptyRow(key).write
BY BlockAssumption DEF EmptyRow, Row, Reported

-----------------------------------------------------------------------------
(***************************************************************************)
(* The steps.  Each adds one event e to the last row, which it opens or    *)
(* which was there: n is its position.                                     *)
(***************************************************************************)

\* What a step does to the rows, whichever of the two it is.
Grows(e, n, key, before) ==
    /\ rows' \in Seq(Row) /\ Len(rows') = n /\ n \in 1..n
    /\ \A i \in 1..(n - 1) : i \in DOMAIN rows /\ rows'[i] = rows[i]
    /\ rows'[n].key = key
    /\ rows'[n].events = before \cup {e}
    /\ Reported(rows'[n].write1h) <= rows'[n].write

LEMMA Grown ==
    ASSUME NEW e, NEW n, NEW key, NEW before, Grows(e, n, key, before)
    PROVE  /\ rows' \in Seq(Row) /\ Len(rows') = n /\ n \in Nat /\ rows' # <<>>
           /\ DOMAIN rows' = 1..n /\ n \in DOMAIN rows' /\ rows'[n].key = key
           /\ \A i \in DOMAIN rows' : i # n => i \in DOMAIN rows /\ rows'[i] = rows[i]
BY DEF Grows

LEMMA Opened ==
    ASSUME TypeOK, NEW key \in Int \cup {Unparsed}, NEW e \in Events,
           AppendRow(key, e)
    PROVE  Grows(e, Len(rows) + 1, key, {})
<1>1. /\ Added(EmptyRow(key), e) \in Row
      /\ Added(EmptyRow(key), e).key = key
      /\ Added(EmptyRow(key), e).events = {} \cup {e}
      /\ LET row == Added(EmptyRow(key), e) IN Reported(row.write1h) <= row.write
  BY EmptyIsRow, AddedRow
<1>2. /\ rows' \in Seq(Row) /\ Len(rows') = Len(rows) + 1 /\ Len(rows) \in Nat
      /\ \A i \in 1..Len(rows) : i \in DOMAIN rows /\ rows'[i] = rows[i]
      /\ rows'[Len(rows) + 1] = Added(EmptyRow(key), e)
  BY <1>1 DEF AppendRow, TypeOK
<1> QED  BY <1>1, <1>2 DEF Grows

LEMMA Joined ==
    ASSUME TypeOK, Write1hWithinWrites, rows # <<>>, NEW e \in Events, AddToLast(e)
    PROVE  Grows(e, Len(rows), rows[Len(rows)].key, rows[Len(rows)].events)
<1>1. /\ Len(rows) \in 1..Len(rows) /\ rows[Len(rows)] \in Row /\ rows \in Seq(Row)
      /\ Reported(rows[Len(rows)].write1h) <= rows[Len(rows)].write
  BY DEF TypeOK, Write1hWithinWrites
<1>2. /\ Added(rows[Len(rows)], e) \in Row
      /\ Added(rows[Len(rows)], e).key = rows[Len(rows)].key
      /\ Added(rows[Len(rows)], e).events = rows[Len(rows)].events \cup {e}
      /\ LET row == Added(rows[Len(rows)], e) IN Reported(row.write1h) <= row.write
  BY <1>1, AddedRow
<1>3. /\ rows' \in Seq(Row) /\ Len(rows') = Len(rows)
      /\ \A i \in 1..(Len(rows) - 1) : i \in DOMAIN rows /\ rows'[i] = rows[i]
      /\ rows'[Len(rows)] = Added(rows[Len(rows)], e)
  BY <1>1, <1>2, ExceptSeq DEF AddToLast
<1> QED  BY <1>1, <1>2, <1>3 DEF Grows

\* The counting, and the order in which events are taken, whatever the step.
LEMMA CountStep ==
    ASSUME TypeOK, CountedOnce, SortedInv,
           NEW e \in Events, Reached(e), pending' = pending \ {e}, UNCHANGED input,
           NEW n \in {Len(rows), Len(rows) + 1}, NEW key,
           Grows(e, n, key, IF n = Len(rows) THEN rows[n].events ELSE {})
    PROVE  CountedOnce' /\ SortedInv'
<1> DEFINE before == IF n = Len(rows) THEN rows[n].events ELSE {}
<1>1. /\ DOMAIN rows = 1..Len(rows) /\ DOMAIN rows' = 1..n /\ Len(rows) \in Nat
      /\ \A i \in 1..(n - 1) : i \in DOMAIN rows /\ rows'[i].events = rows[i].events
      /\ rows'[n].events = before \cup {e}
      /\ n \in 1..n
  BY DEF Grows, TypeOK
<1>2. e \in pending /\ \A f \in pending : ~Before(f, e)
  BY DEF Reached
<1>3. before = {} \/ (n \in DOMAIN rows /\ before = rows[n].events)
  BY <1>1
<1>4. \A i \in DOMAIN rows : \E j \in DOMAIN rows' : rows[i].events \subseteq rows'[j].events
  BY <1>1
<1>5. \A i \in DOMAIN rows' :
        \/ i # n /\ i \in DOMAIN rows /\ rows'[i].events = rows[i].events
        \/ i = n /\ rows'[i].events = before \cup {e}
  BY <1>1
<1> HIDE DEF before
<1>6. ASSUME NEW f \in Events \ pending' PROVE \E j \in DOMAIN rows' : f \in rows'[j].events
  <2>1. CASE f = e
    BY <1>1, <2>1
  <2>2. CASE f # e
    <3>1. PICK i \in DOMAIN rows : f \in rows[i].events
      BY <2>2 DEF CountedOnce
    <3> QED  BY <1>4, <3>1
  <2> QED  BY <2>1, <2>2
<1>7. ASSUME NEW i \in DOMAIN rows', NEW j \in DOMAIN rows', i # j
      PROVE  rows'[i].events \cap rows'[j].events = {}
  BY <1>2, <1>3, <1>5, <1>7 DEF CountedOnce
<1>8. ASSUME NEW i \in DOMAIN rows'
      PROVE  rows'[i].events # {} /\ rows'[i].events \cap pending' = {}
  BY <1>2, <1>3, <1>5 DEF CountedOnce
<1>9. ASSUME NEW i \in DOMAIN rows', NEW f \in rows'[i].events, NEW g \in pending'
      PROVE  ~Before(g, f)
  BY <1>2, <1>3, <1>5 DEF SortedInv
<1>10. \A f, g : Before(g, f)' <=> Before(g, f)
  BY DEF Before, input
<1> QED  BY <1>6, <1>7, <1>8, <1>9, <1>10 DEF CountedOnce, SortedInv

\* The keys and the windows, whatever the step: what is asked of the row that
\* grew is what the steps below show.
LEMMA WindowStep ==
    ASSUME TypeOK, KeysAscend, EventInWindow, Write1hWithinWrites,
           NEW e \in Events, UNCHANGED input,
           NEW n \in {Len(rows), Len(rows) + 1}, NEW key,
           Grows(e, n, key, IF n = Len(rows) THEN rows[n].events ELSE {}),
           n = Len(rows) => key = rows[n].key,
           n = Len(rows) + 1 => \A i \in DOMAIN rows :
               rows[i].key # Unparsed /\ (key # Unparsed => rows[i].key < key),
           IF key = Unparsed THEN at[e] = Unparsed
           ELSE at[e] # Unparsed /\ key <= at[e] /\ at[e] < key + width
    PROVE  KeysAscend' /\ EventInWindow' /\ Write1hWithinWrites'
<1> DEFINE before == IF n = Len(rows) THEN rows[n].events ELSE {}
<1>1. /\ DOMAIN rows = 1..Len(rows) /\ DOMAIN rows' = 1..n /\ Len(rows) \in Nat
      /\ \A i \in 1..(n - 1) : i \in DOMAIN rows /\ rows'[i] = rows[i]
      /\ rows'[n].key = key /\ rows'[n].events = before \cup {e}
      /\ Reported(rows'[n].write1h) <= rows'[n].write
      /\ n \in 1..n
  <2>1. DOMAIN rows = 1..Len(rows) /\ Len(rows) \in Nat
    BY DEF TypeOK
  <2>2. DOMAIN rows' = 1..n /\ n \in 1..n
    BY DEF Grows
  <2>3. /\ \A i \in 1..(n - 1) : i \in DOMAIN rows /\ rows'[i] = rows[i]
        /\ rows'[n].key = key /\ rows'[n].events = before \cup {e}
        /\ Reported(rows'[n].write1h) <= rows'[n].write
    BY DEF Grows
  <2> QED
    BY <2>1, <2>2, <2>3
<1>2. before = {} \/ (n \in DOMAIN rows /\ n = Len(rows) /\ before = rows[n].events)
  BY <1>1
<1>3. at' = at /\ width' = width
  BY DEF input
<1> HIDE DEF before
<1>4. ASSUME NEW i \in DOMAIN rows', NEW j \in DOMAIN rows', i < j
      PROVE  rows'[i].key # Unparsed /\ (rows'[j].key # Unparsed => rows'[i].key < rows'[j].key)
  <2>1. i \in DOMAIN rows /\ rows'[i].key = rows[i].key
    BY <1>1, <1>4
  <2>2. CASE j # n
    BY <1>1, <1>4, <2>1, <2>2 DEF KeysAscend
  <2>3. CASE j = n
    BY <1>1, <1>4, <2>1, <2>3 DEF KeysAscend
  <2> QED  BY <2>2, <2>3
<1>5. ASSUME NEW i \in DOMAIN rows', NEW f \in rows'[i].events
      PROVE  IF rows'[i].key = Unparsed THEN at[f] = Unparsed
             ELSE at[f] # Unparsed /\ rows'[i].key <= at[f] /\ at[f] < rows'[i].key + width
  <2>1. CASE i # n
    BY <1>1, <1>5, <2>1 DEF EventInWindow
  <2>2. CASE i = n /\ f = e
    BY <1>1, <2>2
  <2>3. CASE i = n /\ f # e
    BY <1>1, <1>2, <1>5, <2>3 DEF EventInWindow
  <2> QED  BY <2>1, <2>2, <2>3
<1>6. ASSUME NEW i \in DOMAIN rows'
      PROVE  Reported(rows'[i].write1h) <= rows'[i].write
  BY <1>1, <1>6 DEF Write1hWithinWrites
<1>7. KeysAscend'
  BY <1>4 DEF KeysAscend
<1>8. EventInWindow'
  BY <1>3, <1>5 DEF EventInWindow
<1>9. Write1hWithinWrites'
  <2>1. \A c : Reported(c)' = Reported(c)
    BY DEF Reported
  <2> QED  BY <1>6, <2>1 DEF Write1hWithinWrites
<1> QED  BY <1>7, <1>8, <1>9

\* What the open block's end says of its key, and what the order of the events
\* says of its rows.
LEMMA OpenIsLast ==
    ASSUME IInv, NEW e \in pending, at[e] # Unparsed
    PROVE  /\ at[e] \in Instants /\ at[e] \in Int /\ at[e] < MaxInt /\ e \in Events
           /\ \A i \in DOMAIN rows : rows[i].key \in Int /\ rows[i].key # Unparsed
           /\ rows # <<>> =>
                /\ end # Null /\ end = BlockEnd(rows[Len(rows)].key)
                /\ \A i \in DOMAIN rows : rows[i].key <= rows[Len(rows)].key
           /\ rows = <<>> => end = Null
<1>1. at[e] \in Instants /\ at[e] \in Int /\ at[e] < MaxInt /\ e \in Events
  BY BlockAssumption DEF IInv, TypeOK
<1>2. ~LastIsInvalid
  BY DEF IInv, TrailingInv
<1>3. DOMAIN rows = 1..Len(rows) /\ Len(rows) \in Nat /\ (rows # <<>> => Len(rows) # 0)
      /\ \A i \in DOMAIN rows : rows[i] \in Row /\ rows[i].key \in Int \cup {Unparsed}
  <2>1. rows \in Seq(Row)
    BY DEF IInv, TypeOK
  <2>2. \A row \in Row : row.key \in Int \cup {Unparsed}
    BY DEF Row
  <2>3. \A i \in 1..Len(rows) : rows[i] \in Row
    BY <2>1
  <2> QED  BY <2>1, <2>2, <2>3
<1>4. \A i \in DOMAIN rows : rows[i].key \in Int /\ rows[i].key # Unparsed
  <2> SUFFICES ASSUME NEW i \in DOMAIN rows PROVE rows[i].key # Unparsed
    BY <1>3
  <2>1. CASE i = Len(rows)
    BY <1>2, <1>3, <2>1 DEF LastIsInvalid
  <2>2. CASE i # Len(rows)
    BY <1>3, <2>2 DEF IInv, KeysAscend
  <2> QED  BY <2>1, <2>2
<1>5. ASSUME rows # <<>>
      PROVE  /\ end # Null /\ end = BlockEnd(rows[Len(rows)].key)
             /\ \A i \in DOMAIN rows : rows[i].key <= rows[Len(rows)].key
  <2>1. Len(rows) \in DOMAIN rows
    BY <1>3, <1>5
  <2>2. end # Null
    BY <1>4, <2>1 DEF IInv, EndInv
  <2>3. end = BlockEnd(rows[Len(rows)].key)
    BY <1>2, <2>2 DEF IInv, EndInv
  <2>4. ASSUME NEW i \in DOMAIN rows PROVE rows[i].key <= rows[Len(rows)].key
    <3>1. CASE i = Len(rows)
      BY <1>4, <3>1
    <3>2. CASE i # Len(rows)
      <4>1. i < Len(rows)
        BY <1>3, <3>2
      <4>2. rows[i].key < rows[Len(rows)].key
        BY <1>4, <2>1, <4>1 DEF IInv, KeysAscend
      <4> QED  BY <1>4, <2>1, <4>2
    <3> QED  BY <3>1, <3>2
  <2> QED  BY <2>2, <2>3, <2>4
<1>6. rows = <<>> => end = Null
  BY <1>2 DEF IInv, EndInv
<1> QED  BY <1>1, <1>4, <1>5, <1>6


-----------------------------------------------------------------------------
(***************************************************************************)
(* The four branches of the loop.                                          *)
(***************************************************************************)

\* A block opens past the windows of the blocks before it that hold events:
\* at or past the last end, its start is less than a width before its event.
LEMMA OpenStep ==
    ASSUME IInv, NEW e \in Events, OpenBlock(e) PROVE IInv'
<1> DEFINE start == BlockStart(at[e])
           last == rows[Len(rows)].key
<1>1. /\ e \in pending /\ at[e] # Unparsed /\ Reached(e) /\ UNCHANGED input
      /\ pending' = pending \ {e} /\ AppendRow(start, e) /\ end' = BlockEnd(start)
      /\ end # Null => at[e] >= end
  BY DEF OpenBlock, Reached
<1>2. TypeOK
  BY DEF IInv
<1>3. /\ at[e] \in Instants /\ at[e] \in Int /\ at[e] < MaxInt
      /\ \A i \in DOMAIN rows : rows[i].key \in Int /\ rows[i].key # Unparsed
      /\ rows # <<>> =>
           /\ end # Null /\ end = BlockEnd(last)
           /\ \A i \in DOMAIN rows : rows[i].key <= last
  BY <1>1, OpenIsLast
<1>4. start \in Int /\ start <= at[e] /\ at[e] < start + width /\ start # Unparsed
  BY <1>2, <1>3, BlockStartBounds, BlockAssumption
<1>5. width \in Nat /\ Len(rows) \in Nat /\ DOMAIN rows = 1..Len(rows)
      /\ Len(rows) + 1 # Len(rows)
  BY <1>2, Positions DEF TypeOK
<1> HIDE DEF start
<1>6. Grows(e, Len(rows) + 1, start, {})
  BY <1>1, <1>2, <1>4, Opened
<1>7. ASSUME NEW i \in DOMAIN rows PROVE rows[i].key < start
  <2>1. rows # <<>> /\ Len(rows) \in DOMAIN rows
    BY <1>2, Positions
  <2>2. last \in Int /\ rows[i].key \in Int /\ rows[i].key <= last
    BY <1>3, <2>1
  <2>3. at[e] >= BlockEnd(last)
    BY <1>1, <1>3, <2>1
  <2> HIDE DEF last
  <2>4. at[e] >= last + width
    <3>1. /\ \A ms \in Int : ms < MaxInt /\ ms >= BlockEnd(last) => ms >= last + width
          /\ at[e] \in Int /\ at[e] < MaxInt
      BY <1>2, <1>3, <2>2, BlockEndBounds
    <3> QED  BY <2>3, <3>1
  <2>5. width \in Nat /\ at[e] \in Int
    BY <1>2, <1>3 DEF TypeOK
  <2> QED  BY <1>4, <2>2, <2>4, <2>5
<1> DEFINE n == Len(rows) + 1
           before == IF n = Len(rows) THEN rows[n].events ELSE {}
<1>8. before = {} /\ n \in {Len(rows), Len(rows) + 1} /\ n # Len(rows)
  BY <1>5
<1>9. Grows(e, n, start, before)
  BY <1>6, <1>8
<1>10. CountedOnce' /\ SortedInv'
  BY <1>1, <1>8, <1>9, CountStep DEF IInv
<1>11. KeysAscend' /\ EventInWindow' /\ Write1hWithinWrites'
  BY <1>1, <1>3, <1>4, <1>7, <1>8, <1>9, WindowStep DEF IInv
<1>12. rows' \in Seq(Row) /\ Len(rows') = n /\ rows'[n].key = start /\ rows' # <<>>
  BY <1>6, Grown
<1>13. end' \in Int
  BY <1>1, <1>2, <1>4, BlockEndBounds
<1>14. TypeOK'
  BY <1>1, <1>2, <1>12, <1>13 DEF TypeOK, input
<1>15. TrailingInv'
  BY <1>4, <1>12 DEF TrailingInv, LastIsInvalid
<1>16. EndInv'
  <2>1. end' = BlockEnd(start) /\ end' # Null
    BY <1>1, <1>13, BlockAssumption
  <2>2. BlockEnd(rows[Len(rows)].key)' = BlockEnd(start)
    BY <1>1, <1>12 DEF BlockEnd, Saturated, Least, input
  <2> QED  BY <1>12, <2>1, <2>2 DEF EndInv
<1> QED  BY <1>10, <1>11, <1>14, <1>15, <1>16 DEF IInv

\* An event that joins the open block comes after those counted in it.
LEMMA JoinStep ==
    ASSUME IInv, NEW e \in Events, JoinBlock(e) PROVE IInv'
<1> DEFINE n == Len(rows)
           key == rows[n].key
           before == IF n = Len(rows) THEN rows[n].events ELSE {}
<1>1. /\ e \in pending /\ at[e] # Unparsed /\ Reached(e) /\ UNCHANGED input
      /\ pending' = pending \ {e} /\ AddToLast(e) /\ end' = end
      /\ end # Null /\ at[e] < end
  BY DEF JoinBlock, Reached
<1>2. TypeOK
  BY DEF IInv
<1>3. /\ at[e] \in Instants /\ at[e] \in Int
      /\ \A i \in DOMAIN rows : rows[i].key \in Int /\ rows[i].key # Unparsed
      /\ rows # <<>> /\ end = BlockEnd(key)
  BY <1>1, OpenIsLast
<1>4. width \in Nat /\ n \in DOMAIN rows /\ n # Len(rows) + 1
      /\ rows[n].events \subseteq Events
  BY <1>2, <1>3, Positions DEF TypeOK
<1>5. key \in Int /\ key # Unparsed
  BY <1>3, <1>4
<1>6. at[e] < key + width
  <2> HIDE DEF key
  <2>1. BlockEnd(key) <= key + width /\ BlockEnd(key) \in Int
    BY <1>2, <1>5, BlockEndBounds
  <2> QED  BY <1>1, <1>3, <1>4, <1>5, <2>1
<1>7. key <= at[e]
  <2>1. PICK f \in rows[n].events : TRUE
    BY <1>4 DEF IInv, CountedOnce
  <2>2. at[f] # Unparsed /\ key <= at[f]
    BY <1>4, <1>5 DEF IInv, EventInWindow
  <2>3. ~Before(e, f)
    BY <1>1, <1>4 DEF IInv, SortedInv
  <2>4. f \in Events
    BY <1>4
  <2>5. at[f] \in Int
    BY <1>2, <2>2, <2>4, BlockAssumption DEF TypeOK
  <2> QED  BY <1>1, <1>3, <1>5, <2>2, <2>3, <2>5 DEF Before
<1>8. Grows(e, n, key, before)
  BY <1>1, <1>2, <1>3, Joined DEF IInv
<1>9. CountedOnce' /\ SortedInv'
  BY <1>1, <1>8, CountStep DEF IInv
<1>10. KeysAscend' /\ EventInWindow' /\ Write1hWithinWrites'
  <2>1. n = Len(rows) => key = rows[n].key
    OBVIOUS
  <2>2. n \in {Len(rows), Len(rows) + 1}
    OBVIOUS
  <2> HIDE DEF key, before
  <2>3. IF key = Unparsed THEN at[e] = Unparsed
        ELSE at[e] # Unparsed /\ key <= at[e] /\ at[e] < key + width
    BY <1>1, <1>5, <1>6, <1>7
  <2>4. Grows(e, n, key, IF n = Len(rows) THEN rows[n].events ELSE {})
    BY <1>8 DEF before
  <2> QED  BY <1>1, <1>2, <1>4, <2>1, <2>2, <2>3, <2>4, WindowStep DEF IInv
<1>11. rows' \in Seq(Row) /\ Len(rows') = n /\ rows'[n].key = key /\ rows' # <<>>
  BY <1>8, Grown
<1>12. TypeOK'
  BY <1>1, <1>2, <1>11 DEF TypeOK, input
<1>13. TrailingInv'
  BY <1>5, <1>11 DEF TrailingInv, LastIsInvalid
<1>14. EndInv'
  <2>1. BlockEnd(rows[Len(rows)].key)' = BlockEnd(key)
    BY <1>1, <1>11 DEF BlockEnd, Saturated, Least, input
  <2> QED  BY <1>1, <1>3, <1>11, <2>1 DEF EndInv
<1> QED  BY <1>9, <1>10, <1>12, <1>13, <1>14 DEF IInv

\* Once an event that does not parse is reached, none that parses is left.
LEMMA OnlyUnparsedLeft ==
    ASSUME NEW e \in Events, Reached(e), at[e] = Unparsed, pending' = pending \ {e},
           UNCHANGED input
    PROVE  \A f \in pending' : at'[f] = Unparsed
BY DEF Reached, Before, input

LEMMA OpenInvalidStep ==
    ASSUME IInv, NEW e \in Events, OpenInvalid(e) PROVE IInv'
<1> DEFINE n == Len(rows) + 1
           before == IF n = Len(rows) THEN rows[n].events ELSE {}
<1>1. /\ Reached(e) /\ at[e] = Unparsed /\ ~LastIsInvalid /\ UNCHANGED input
      /\ pending' = pending \ {e} /\ AppendRow(Unparsed, e) /\ end' = end
  BY DEF OpenInvalid
<1>2. TypeOK
  BY DEF IInv
<1>3. Len(rows) \in Nat /\ DOMAIN rows = 1..Len(rows)
      /\ (rows = <<>> => DOMAIN rows = {})
  BY <1>2, Positions
<1>4. \A i \in DOMAIN rows : rows[i].key # Unparsed
  <2> SUFFICES ASSUME NEW i \in DOMAIN rows PROVE rows[i].key # Unparsed
    OBVIOUS
  <2>1. CASE i = Len(rows)
    <3>1. rows # <<>>
      BY <1>3
    <3> QED  BY <1>1, <2>1, <3>1 DEF LastIsInvalid
  <2>2. CASE i # Len(rows)
    <3>1. Len(rows) \in DOMAIN rows /\ i < Len(rows)
      BY <1>3, <2>2
    <3> QED  BY <3>1 DEF IInv, KeysAscend
  <2> QED  BY <2>1, <2>2
<1>5. Grows(e, n, Unparsed, {}) /\ before = {} /\ n # Len(rows)
  <2>1. n # Len(rows)
    <3>1. Len(rows) \in Nat
      BY <1>3
    <3> QED  BY <3>1
  <2> QED  BY <1>1, <1>2, <2>1, Opened
<1>6. CountedOnce' /\ SortedInv'
  BY <1>1, <1>5, CountStep DEF IInv
<1>7. KeysAscend' /\ EventInWindow' /\ Write1hWithinWrites'
  BY <1>1, <1>4, <1>5, WindowStep DEF IInv
<1>8. /\ rows' \in Seq(Row) /\ Len(rows') = n /\ rows'[n].key = Unparsed
      /\ rows' # <<>>
      /\ \A i \in DOMAIN rows' : i # n => i \in DOMAIN rows /\ rows'[i] = rows[i]
  BY <1>5, Grown
<1>9. TypeOK'
  BY <1>1, <1>2, <1>8 DEF TypeOK, input
<1>10. TrailingInv'
  BY <1>1, OnlyUnparsedLeft DEF TrailingInv
<1>11. EndInv'
  <2>1. LastIsInvalid'
    BY <1>3, <1>8 DEF LastIsInvalid
  <2>2. ASSUME end' = Null PROVE \A i \in DOMAIN rows' : rows'[i].key = Unparsed
    <3>1. DOMAIN rows = {}
      BY <1>1, <1>4, <2>2 DEF IInv, EndInv
    <3> QED  BY <1>8, <3>1
  <2> QED  BY <2>1, <2>2 DEF EndInv
<1> QED  BY <1>6, <1>7, <1>9, <1>10, <1>11 DEF IInv

LEMMA JoinInvalidStep ==
    ASSUME IInv, NEW e \in Events, JoinInvalid(e) PROVE IInv'
<1> DEFINE n == Len(rows)
           before == IF n = Len(rows) THEN rows[n].events ELSE {}
<1>1. /\ Reached(e) /\ at[e] = Unparsed /\ UNCHANGED input
      /\ rows # <<>> /\ rows[n].key = Unparsed
      /\ pending' = pending \ {e} /\ AddToLast(e) /\ end' = end
  BY DEF JoinInvalid, LastIsInvalid
<1>2. TypeOK
  BY DEF IInv
<1>3. n # Len(rows) + 1
  <2>1. Len(rows) \in Nat
    BY <1>2, Positions
  <2> QED  BY <2>1
<1>4. Grows(e, n, Unparsed, before)
  BY <1>1, <1>2, Joined DEF IInv
<1>5. CountedOnce' /\ SortedInv'
  BY <1>1, <1>4, CountStep DEF IInv
<1>6. KeysAscend' /\ EventInWindow' /\ Write1hWithinWrites'
  BY <1>1, <1>3, <1>4, WindowStep DEF IInv
<1>7. /\ rows' \in Seq(Row) /\ Len(rows') = n /\ rows'[n].key = Unparsed
      /\ rows' # <<>>
      /\ \A i \in DOMAIN rows' : i # n => i \in DOMAIN rows /\ rows'[i] = rows[i]
  BY <1>4, Grown
<1>8. TypeOK'
  BY <1>1, <1>2, <1>7 DEF TypeOK, input
<1>9. TrailingInv'
  BY <1>1, OnlyUnparsedLeft DEF TrailingInv
<1>10. EndInv'
  <2>1. LastIsInvalid'
    BY <1>3, <1>7 DEF LastIsInvalid
  <2>2. ASSUME end' = Null, NEW i \in DOMAIN rows' PROVE rows'[i].key = Unparsed
    <3>1. \A j \in DOMAIN rows : rows[j].key = Unparsed
      BY <1>1, <2>2 DEF IInv, EndInv
    <3> QED  BY <1>7, <2>2, <3>1
  <2> QED  BY <2>1, <2>2 DEF EndInv
<1> QED  BY <1>5, <1>6, <1>8, <1>9, <1>10 DEF IInv

-----------------------------------------------------------------------------
(***************************************************************************)
(* The invariant, and the properties it implies.                           *)
(***************************************************************************)
LEMMA Initially == Init => IInv
<1> SUFFICES ASSUME Init PROVE IInv
  OBVIOUS
<1>1. width \in Nat \ {0}
  BY BlockAssumption DEF Init, EffectiveWidth
<1>2. TypeOK
  BY <1>1 DEF Init, TypeOK
<1>3. rows = <<>> /\ DOMAIN rows = {} /\ end = Null /\ pending = Events
  BY DEF Init
<1> QED
  BY <1>2, <1>3 DEF IInv, SortedInv, TrailingInv, LastIsInvalid, EndInv,
                    KeysAscend, EventInWindow, CountedOnce, Write1hWithinWrites

LEMMA IInvKept == IInv /\ [Next]_vars => IInv'
<1> SUFFICES ASSUME IInv, [Next]_vars PROVE IInv'
  OBVIOUS
<1>1. CASE Next
  BY <1>1, OpenStep, JoinStep, OpenInvalidStep, JoinInvalidStep DEF Next
<1>2. CASE UNCHANGED vars
  BY <1>2 DEF vars, input, IInv, TypeOK, SortedInv, TrailingInv, LastIsInvalid,
              EndInv, KeysAscend, EventInWindow, CountedOnce,
              Write1hWithinWrites, Before, BlockEnd, Saturated, Least, Reported
<1> QED  BY <1>1, <1>2

LEMMA IInvCorrect == Spec => []IInv
BY Initially, IInvKept, PTL DEF Spec

\* Type correctness: also the saturated sums and the keys stay in range.
THEOREM TypeCorrect == Spec => []TypeOK
<1>1. IInv => TypeOK
  BY DEF IInv
<1> QED  BY <1>1, IInvCorrect, PTL

\* No two rows share a key, and they ascend: for every width, also one shorter
\* than an hour, whose windows overlap, and for every zone.
THEOREM RowsAscend == Spec => []KeysAscend
<1>1. IInv => KeysAscend
  BY DEF IInv
<1> QED  BY <1>1, IInvCorrect, PTL

\* The window of a row holds every event counted in it.
THEOREM EventsInWindow == Spec => []EventInWindow
<1>1. IInv => EventInWindow
  BY DEF IInv
<1> QED  BY <1>1, IInvCorrect, PTL

\* No event is lost or counted twice, and no row is empty.
THEOREM EventsCountedOnce == Spec => []CountedOnce
<1>1. IInv => CountedOnce
  BY DEF IInv
<1> QED  BY <1>1, IInvCorrect, PTL

\* The 1h writes of a row are within its writes, saturated sums included.
THEOREM Write1hIsWithin == Spec => []Write1hWithinWrites
<1>1. IInv => Write1hWithinWrites
  BY DEF IInv
<1> QED  BY <1>1, IInvCorrect, PTL

-----------------------------------------------------------------------------
(***************************************************************************)
(* Folds and sums over a finite set.                                       *)
(***************************************************************************)
Chosen(T) == CHOOSE x \in T : TRUE

\* it folds step over the subsets of S, from base.
IsFold(it, step, base, S) ==
    it = [T \in SUBSET S |->
            IF T = {} THEN base ELSE step[<<Chosen(T), it[T \ {Chosen(T)}]>>]]

LEMMA ChosenIn == \A T : T # {} => Chosen(T) \in T
BY DEF Chosen

\* Of the subsets of S with a property, one is least.
LEMMA LeastSubset ==
    ASSUME NEW S, IsFiniteSet(S), NEW Bad, Bad \subseteq SUBSET S, Bad # {}
    PROVE  \E T \in Bad : \A U \in Bad : ~(U \subseteq T /\ U # T)
<1>1. IsWellFoundedOn(StrictSubsetOrdering(S), SUBSET S)
  BY FS_StrictSubsetOrderingWellFounded, FS_FiniteSubsetsOfFinite
<1>2. PICK T \in Bad : \A U \in Bad : ~(<<U, T>> \in StrictSubsetOrdering(S))
  BY <1>1, WFMin
<1> QED BY <1>2 DEF StrictSubsetOrdering

LEMMA FoldUnique ==
    ASSUME NEW S, IsFiniteSet(S), NEW R, NEW step, NEW base, NEW g, NEW h,
           IsFold(g, step, base, S), IsFold(h, step, base, R)
    PROVE  \A T \in SUBSET S : T \subseteq R => g[T] = h[T]
<1> DEFINE Bad == {T \in SUBSET S : T \subseteq R /\ g[T] # h[T]}
<1> SUFFICES ASSUME Bad # {} PROVE FALSE
  OBVIOUS
<1>1. PICK T \in Bad : \A U \in Bad : ~(U \subseteq T /\ U # T)
  <2> Bad \subseteq SUBSET S
    OBVIOUS
  <2> HIDE DEF Bad
  <2> QED BY LeastSubset
<1>2. /\ g[T] = IF T = {} THEN base ELSE step[<<Chosen(T), g[T \ {Chosen(T)}]>>]
      /\ h[T] = IF T = {} THEN base ELSE step[<<Chosen(T), h[T \ {Chosen(T)}]>>]
  BY DEF IsFold
<1>3. T # {} => g[T \ {Chosen(T)}] = h[T \ {Chosen(T)}]
  BY <1>1, ChosenIn
<1> QED BY <1>2, <1>3

LEMMA FoldExists ==
    ASSUME NEW S, IsFiniteSet(S), NEW step, NEW base
    PROVE  \E it : IsFold(it, step, base, S)
<1> DEFINE Bad == {T \in SUBSET S : ~\E it : IsFold(it, step, base, T)}
<1> SUFFICES ASSUME Bad # {} PROVE FALSE
  OBVIOUS
<1>1. PICK T \in Bad : \A U \in Bad : ~(U \subseteq T /\ U # T)
  <2> Bad \subseteq SUBSET S
    OBVIOUS
  <2> HIDE DEF Bad
  <2> QED BY LeastSubset
<1> DEFINE F(U) == CHOOSE it : IsFold(it, step, base, U)
           Rest(U) == U \ {Chosen(U)}
           it == [U \in SUBSET T |->
                    IF U = {} THEN base ELSE step[<<Chosen(U), F(Rest(U))[Rest(U)]>>]]
<1>2. ASSUME NEW U \in SUBSET T, U # T
      PROVE  IsFold(F(U), step, base, U)
  BY <1>1, <1>2
<1>3. \A U \in SUBSET T : U # {} => Rest(U) \in SUBSET T /\ Rest(U) # T
  BY ChosenIn
<1>4. ASSUME NEW U \in SUBSET T, U # T
      PROVE  it[U] = F(U)[U]
  <2>1. F(U)[U] = IF U = {} THEN base ELSE step[<<Chosen(U), F(U)[Rest(U)]>>]
    <3> IsFold(F(U), step, base, U) /\ U \in SUBSET U
      BY <1>2, <1>4
    <3> HIDE DEF F, it
    <3> QED BY DEF IsFold
  <2>2. U # {} => F(U)[Rest(U)] = F(Rest(U))[Rest(U)]
    <3> SUFFICES ASSUME U # {} PROVE F(U)[Rest(U)] = F(Rest(U))[Rest(U)]
      OBVIOUS
    <3>1. IsFold(F(U), step, base, U) /\ IsFold(F(Rest(U)), step, base, Rest(U))
      BY <1>2, <1>3, <1>4
    <3>2. IsFiniteSet(U) /\ Rest(U) \in SUBSET U
      BY FS_Subset
    <3> HIDE DEF F, Rest
    <3> QED BY <3>1, <3>2, FoldUnique
  <2> QED BY <2>1, <2>2
<1>5. IsFold(it, step, base, T)
  <2>1. \A U \in SUBSET T : U # {} => it[Rest(U)] = F(Rest(U))[Rest(U)]
    BY <1>3, <1>4
  <2>2. it = [U \in SUBSET T |->
                IF U = {} THEN base ELSE step[<<Chosen(U), F(Rest(U))[Rest(U)]>>]]
    OBVIOUS
  <2> HIDE DEF F, it
  <2>3. it = [U \in SUBSET T |-> IF U = {} THEN base ELSE step[<<Chosen(U), it[Rest(U)]>>]]
    BY <2>1, <2>2
  <2> QED BY <2>3 DEF IsFold
<1> QED BY <1>5

\* g gives the sums of f over the subsets of S.
IsSum(g, f, S) ==
    g = [T \in SUBSET S |->
           IF T = {} THEN 0 ELSE f[Chosen(T)] + g[T \ {Chosen(T)}]]

LEMMA SumExists ==
    ASSUME NEW S, IsFiniteSet(S), NEW f, \A x \in S : f[x] \in Nat
    PROVE  /\ \E g : IsSum(g, f, S)
           /\ \A g : IsSum(g, f, S) => \A T \in SUBSET S : g[T] \in Nat
<1> DEFINE step == [p \in S \X Nat |-> f[p[1]] + p[2]]
<1>1. ASSUME NEW g, IsFold(g, step, 0, S) \/ IsSum(g, f, S)
      PROVE  \A T \in SUBSET S : g[T] \in Nat
  <2> DEFINE Bad == {T \in SUBSET S : g[T] \notin Nat}
  <2> SUFFICES ASSUME Bad # {} PROVE FALSE
    OBVIOUS
  <2>1. PICK T \in Bad : \A U \in Bad : ~(U \subseteq T /\ U # T)
    <3> Bad \subseteq SUBSET S
      OBVIOUS
    <3> HIDE DEF Bad
    <3> QED BY LeastSubset
  <2> DEFINE rest == T \ {Chosen(T)}
  <2>2. T # {} => Chosen(T) \in S /\ g[rest] \in Nat /\ f[Chosen(T)] \in Nat
    BY <2>1, ChosenIn
  <2>3. \/ g[T] = IF T = {} THEN 0 ELSE step[<<Chosen(T), g[rest]>>]
        \/ g[T] = IF T = {} THEN 0 ELSE f[Chosen(T)] + g[rest]
    <3> T \in SUBSET S
      OBVIOUS
    <3> HIDE DEF step
    <3> QED BY <1>1 DEF IsFold, IsSum
  <2>4. T # {} => step[<<Chosen(T), g[rest]>>] = f[Chosen(T)] + g[rest]
    BY <2>2
  <2> HIDE DEF step, rest
  <2> QED BY <2>2, <2>3, <2>4
<1>2. PICK g : IsFold(g, step, 0, S)
  <2> HIDE DEF step
  <2> QED BY FoldExists
<1>3. \A T \in SUBSET S : g[T] \in Nat
  BY <1>1, <1>2
<1>4. IsSum(g, f, S)
  <2>1. \A T \in SUBSET S : T # {} =>
          step[<<Chosen(T), g[T \ {Chosen(T)}]>>] = f[Chosen(T)] + g[T \ {Chosen(T)}]
    BY <1>3, ChosenIn
  <2>2. g = [T \in SUBSET S |->
           IF T = {} THEN 0 ELSE step[<<Chosen(T), g[T \ {Chosen(T)}]>>]]
    BY <1>2 DEF IsFold
  <2> HIDE DEF step
  <2> QED BY <2>1, <2>2 DEF IsSum
<1> QED BY <1>1, <1>4

LEMMA SumUnique ==
    ASSUME NEW S, IsFiniteSet(S), NEW R, NEW f, NEW g, NEW h,
           IsSum(g, f, S), IsSum(h, f, R)
    PROVE  \A T \in SUBSET S : T \subseteq R => g[T] = h[T]
<1> DEFINE Bad == {T \in SUBSET S : T \subseteq R /\ g[T] # h[T]}
<1> SUFFICES ASSUME Bad # {} PROVE FALSE
  OBVIOUS
<1>1. PICK T \in Bad : \A U \in Bad : ~(U \subseteq T /\ U # T)
  <2> Bad \subseteq SUBSET S
    OBVIOUS
  <2> HIDE DEF Bad
  <2> QED BY LeastSubset
<1>2. /\ g[T] = IF T = {} THEN 0 ELSE f[Chosen(T)] + g[T \ {Chosen(T)}]
      /\ h[T] = IF T = {} THEN 0 ELSE f[Chosen(T)] + h[T \ {Chosen(T)}]
  BY DEF IsSum
<1>3. T # {} => g[T \ {Chosen(T)}] = h[T \ {Chosen(T)}]
  BY <1>1, ChosenIn
<1> QED BY <1>2, <1>3

LEMMA SumStep ==
    ASSUME NEW S, IsFiniteSet(S), NEW f, \A x \in S : f[x] \in Nat
    PROVE  /\ SumFunctionOnSet(f, {}) = 0
           /\ \A T \in SUBSET S :
                /\ SumFunctionOnSet(f, T) \in Nat
                /\ T # {} => SumFunctionOnSet(f, T)
                               = f[Chosen(T)] + SumFunctionOnSet(f, T \ {Chosen(T)})
<1>1. PICK g : IsSum(g, f, S)
  BY SumExists
<1>2. ASSUME NEW T \in SUBSET S
      PROVE  SumFunctionOnSet(f, T) = g[T]
  <2>1. IsFiniteSet(T) /\ \A x \in T : f[x] \in Nat
    BY FS_Subset
  <2>2. \E h : IsSum(h, f, T)
    BY <2>1, SumExists
  <2> DEFINE h == CHOOSE h : IsSum(h, f, T)
  <2>3. IsSum(h, f, T)
    BY <2>2
  <2>4. SumFunctionOnSet(f, T) = h[T]
    BY DEF SumFunctionOnSet, FoldFunctionOnSet, MapThenFoldSet, IsSum, Chosen
  <2> HIDE DEF h
  <2>5. h[T] = g[T]
    BY <1>1, <2>1, <2>3, SumUnique
  <2> QED BY <2>4, <2>5
<1>3. \A T \in SUBSET S : g[T] = IF T = {} THEN 0 ELSE f[Chosen(T)] + g[T \ {Chosen(T)}]
  BY <1>1 DEF IsSum
<1>4. \A T \in SUBSET S : g[T] \in Nat
  BY <1>1, SumExists
<1> QED BY <1>2, <1>3, <1>4, ChosenIn

\* The same of one set, of the elements chosen from it and what is left.
LEMMA SumRest ==
    ASSUME NEW S, IsFiniteSet(S), NEW f, \A x \in S : f[x] \in Nat,
           NEW T \in SUBSET S, NEW c, c = Chosen(T), NEW R, R = T \ {c}
    PROVE  /\ SumFunctionOnSet(f, T) \in Nat /\ SumFunctionOnSet(f, R) \in Nat
           /\ T = {} => SumFunctionOnSet(f, T) = 0
           /\ T # {} => SumFunctionOnSet(f, T) = f[c] + SumFunctionOnSet(f, R)
<1>1. R \in SUBSET S /\ SumFunctionOnSet(f, {}) = 0
  BY SumStep
<1>2. SumFunctionOnSet(f, T) \in Nat /\ SumFunctionOnSet(f, R) \in Nat
  BY <1>1, SumStep
<1>3. T = {} => SumFunctionOnSet(f, T) = 0
  BY <1>1
<1>4. ASSUME T # {} PROVE SumFunctionOnSet(f, T) = f[c] + SumFunctionOnSet(f, R)
  BY <1>4, SumStep
<1> QED BY <1>2, <1>3, <1>4

\* A sum is that without one element, and the element's share.
LEMMA SumSplits ==
    ASSUME NEW S, IsFiniteSet(S), NEW f, \A x \in S : f[x] \in Nat
    PROVE  \A T \in SUBSET S : \A x \in T :
              SumFunctionOnSet(f, T) = f[x] + SumFunctionOnSet(f, T \ {x})
<1> DEFINE Sum(T) == SumFunctionOnSet(f, T)
           Bad == {T \in SUBSET S : \E x \in T : Sum(T) # f[x] + Sum(T \ {x})}
<1> SUFFICES ASSUME Bad # {} PROVE FALSE
  OBVIOUS
<1>1. PICK T \in Bad : \A U \in Bad : ~(U \subseteq T /\ U # T)
  <2> Bad \subseteq SUBSET S
    OBVIOUS
  <2> HIDE DEF Bad
  <2> QED BY LeastSubset
<1>2. PICK x \in T : Sum(T) # f[x] + Sum(T \ {x})
  OBVIOUS
<1> DEFINE c == Chosen(T)
<1>3. c \in T /\ T \in SUBSET S
  BY <1>2, ChosenIn
<1>4. Sum(T) = f[c] + Sum(T \ {c}) /\ x # c
  BY <1>2, <1>3, SumStep
<1>5. Sum(T \ {c}) = f[x] + Sum((T \ {c}) \ {x})
  <2>1. T \ {c} \in SUBSET S /\ T \ {c} # T /\ T \ {c} \subseteq T /\ x \in T \ {c}
    BY <1>3, <1>4
  <2> HIDE DEF c, Sum
  <2> QED BY <1>1, <2>1
<1>6. Sum(T \ {x}) = f[c] + Sum((T \ {x}) \ {c})
  <2>1. T \ {x} \in SUBSET S /\ T \ {x} # T /\ T \ {x} \subseteq T /\ c \in T \ {x}
    BY <1>2, <1>3, <1>4
  <2> HIDE DEF c, Sum
  <2> QED BY <1>1, <2>1
<1>7. (T \ {c}) \ {x} = (T \ {x}) \ {c}
  OBVIOUS
<1>8. f[x] \in Nat /\ f[c] \in Nat /\ Sum((T \ {x}) \ {c}) \in Nat
  BY <1>2, <1>3, SumStep
<1>9. Sum(T) # f[x] + Sum(T \ {x})
  BY <1>2
<1>10. Sum((T \ {c}) \ {x}) = Sum((T \ {x}) \ {c})
  BY <1>7
<1> HIDE DEF Sum, c
<1> QED BY <1>4, <1>5, <1>6, <1>8, <1>9, <1>10

LEMMA SumAdds ==
    ASSUME NEW S, IsFiniteSet(S), NEW f, \A x \in S : f[x] \in Nat,
           NEW T \in SUBSET S, NEW e \in S, e \notin T
    PROVE  SumFunctionOnSet(f, T \cup {e}) = SumFunctionOnSet(f, T) + f[e]
<1> DEFINE Sum(U) == SumFunctionOnSet(f, U)
           with == T \cup {e}
<1>1. with \in SUBSET S /\ e \in with /\ with \ {e} = T
  OBVIOUS
<1>2. Sum(with) = f[e] + Sum(with \ {e})
  <2> HIDE DEF with
  <2> QED BY <1>1, SumSplits
<1>3. Sum(T) \in Nat /\ f[e] \in Nat
  BY SumStep
<1>4. Sum(with \ {e}) = Sum(T)
  BY <1>1
<1>5. Sum(with) = Sum(T) + f[e]
  <2> HIDE DEF Sum, with
  <2> QED BY <1>2, <1>3, <1>4
<1> QED BY <1>5

\* The sum of two functions sums up to their sums.
LEMMA SumOfTwo ==
    ASSUME NEW S, IsFiniteSet(S), NEW f, NEW g, NEW h,
           \A x \in S : f[x] \in Nat /\ g[x] \in Nat /\ h[x] = f[x] + g[x]
    PROVE  \A T \in SUBSET S :
              SumFunctionOnSet(h, T) = SumFunctionOnSet(f, T) + SumFunctionOnSet(g, T)
<1> DEFINE F(T) == SumFunctionOnSet(f, T)
           G(T) == SumFunctionOnSet(g, T)
           H(T) == SumFunctionOnSet(h, T)
           Bad == {T \in SUBSET S : H(T) # F(T) + G(T)}
<1> SUFFICES ASSUME Bad # {} PROVE FALSE
  OBVIOUS
<1>1. PICK T \in Bad : \A U \in Bad : ~(U \subseteq T /\ U # T)
  <2> Bad \subseteq SUBSET S
    OBVIOUS
  <2> HIDE DEF Bad
  <2> QED BY LeastSubset
<1> DEFINE c == Chosen(T)
           R == T \ {c}
<1>2. /\ T = {} => F(T) = 0 /\ G(T) = 0 /\ H(T) = 0
      /\ T # {} => F(T) = f[c] + F(R) /\ G(T) = g[c] + G(R) /\ H(T) = h[c] + H(R)
      /\ F(R) \in Nat /\ G(R) \in Nat
  <2>1. /\ \A x \in S : f[x] \in Nat
        /\ \A x \in S : g[x] \in Nat
        /\ \A x \in S : h[x] \in Nat
    OBVIOUS
  <2>2. T \in SUBSET S /\ c = Chosen(T) /\ R = T \ {c}
    OBVIOUS
  <2> HIDE DEF c, R, Bad
  <2> QED BY <2>1, <2>2, SumRest
<1>3. T # {} => c \in S /\ R \in SUBSET S /\ R # T /\ R \subseteq T
  BY <1>1, ChosenIn
<1>4. T # {} => H(R) = F(R) + G(R)
  BY <1>1, <1>3
<1>5. H(T) # F(T) + G(T)
  OBVIOUS
<1>6. T # {} => h[c] = f[c] + g[c] /\ f[c] \in Nat /\ g[c] \in Nat
  BY <1>3
<1> HIDE DEF F, G, H, c, R
<1>7. CASE T = {}
  BY <1>2, <1>5, <1>7
<1>8. CASE T # {}
  BY <1>2, <1>4, <1>5, <1>6, <1>8
<1> QED BY <1>7, <1>8

\* What is zero adds nothing.
LEMMA SumOfPart ==
    ASSUME NEW S, IsFiniteSet(S), NEW f, \A x \in S : f[x] \in Nat,
           NEW P \in SUBSET S, \A x \in S \ P : f[x] = 0
    PROVE  SumFunctionOnSet(f, S) = SumFunctionOnSet(f, P)
<1> DEFINE F(T) == SumFunctionOnSet(f, T)
           Bad == {T \in SUBSET S : F(T) # F(T \cap P)}
<1> SUFFICES ASSUME Bad # {} PROVE FALSE
  <2>1. S \in SUBSET S /\ S \cap P = P
    OBVIOUS
  <2>2. F(S) = F(S \cap P)
    <3> HIDE DEF F
    <3> QED BY <2>1
  <2>3. F(S \cap P) = F(P)
    BY <2>1
  <2> QED BY <2>2, <2>3
<1>1. PICK T \in Bad : \A U \in Bad : ~(U \subseteq T /\ U # T)
  <2> Bad \subseteq SUBSET S
    OBVIOUS
  <2> HIDE DEF Bad
  <2> QED BY LeastSubset
<1> DEFINE c == Chosen(T)
           R == T \ {c}
<1>2. T # {}
  <2> SUFFICES ASSUME T = {} PROVE FALSE
    OBVIOUS
  <2>1. T \cap P = T
    OBVIOUS
  <2> QED BY <2>1
<1>3. c \in T /\ R \in SUBSET S /\ R # T /\ R \subseteq T /\ T \cap P \in SUBSET S
  BY <1>2, ChosenIn
<1>4. F(R) = F(R \cap P)
  BY <1>1, <1>3
<1>5. F(T) = f[c] + F(R) /\ F(R) \in Nat /\ F(R \cap P) \in Nat
  <2>1. T \in SUBSET S /\ c = Chosen(T) /\ R = T \ {c} /\ R \cap P \in SUBSET S
    OBVIOUS
  <2> HIDE DEF c, R, Bad
  <2>2. F(R \cap P) \in Nat
    BY <2>1, SumStep
  <2> QED BY <1>2, <2>1, <2>2, SumRest
<1>6. CASE c \in P
  <2>1. (T \cap P) \ {c} = R \cap P /\ c \in T \cap P
    BY <1>3, <1>6
  <2>2. F(T \cap P) = f[c] + F((T \cap P) \ {c})
    BY <1>3, <2>1, SumSplits
  <2>3. F(T) # F(T \cap P)
    OBVIOUS
  <2>4. F((T \cap P) \ {c}) = F(R \cap P)
    BY <2>1
  <2> HIDE DEF F, c, R
  <2> QED BY <1>4, <1>5, <2>2, <2>3, <2>4
<1>7. CASE c \notin P
  <2>1. T \cap P = R \cap P /\ f[c] = 0
    BY <1>3, <1>7
  <2>2. F(T \cap P) = F(R \cap P)
    BY <2>1
  <2>3. F(T) # F(T \cap P)
    OBVIOUS
  <2> HIDE DEF F, c, R
  <2> QED BY <1>4, <1>5, <2>1, <2>2, <2>3
<1> QED BY <1>6, <1>7

LEMMA SumOfZeros ==
    ASSUME NEW S, IsFiniteSet(S), NEW f, \A x \in S : f[x] = 0
    PROVE  SumFunctionOnSet(f, S) = 0
<1>1. {} \in SUBSET S /\ \A x \in S : f[x] \in Nat
  OBVIOUS
<1> QED BY <1>1, SumOfPart, SumStep

\* Functions that agree have one sum.
LEMMA SumOfSame ==
    ASSUME NEW S, IsFiniteSet(S), NEW f, NEW g, \A x \in S : f[x] \in Nat /\ f[x] = g[x]
    PROVE  SumFunctionOnSet(f, S) = SumFunctionOnSet(g, S)
<1> DEFINE zero == [x \in S |-> 0]
<1>1. \A x \in S : zero[x] = 0 /\ zero[x] \in Nat /\ g[x] = f[x] + zero[x]
  OBVIOUS
<1> HIDE DEF zero
<1>2. SumFunctionOnSet(g, S) = SumFunctionOnSet(f, S) + SumFunctionOnSet(zero, S)
  BY <1>1, SumOfTwo
<1>3. SumFunctionOnSet(zero, S) = 0 /\ SumFunctionOnSet(f, S) \in Nat
  BY <1>1, SumOfZeros, SumStep
<1> QED BY <1>2, <1>3

-----------------------------------------------------------------------------
(***************************************************************************)
(* The row of a key: its events are folded into it one by one.             *)
(***************************************************************************)
Writes == [e \in Events |-> tokens[e].write]
Hours == [e \in Events |-> Least(Reported(tokens[e].write1h), tokens[e].write)]

RowsOf(key) == [key : {key}, events : SUBSET Events,
                write : 0..MaxCount, write1h : 0..MaxCount \cup {Null}]

\* What the row of these events holds: sums, unless they saturate.
Holds(row, T) ==
    /\ row.events = T
    /\ Reported(row.write1h) <= row.write
    /\ SumFunctionOnSet(Writes, T) <= MaxCount =>
         /\ row.write = SumFunctionOnSet(Writes, T)
         /\ Reported(row.write1h) = SumFunctionOnSet(Hours, T)

LEMMA Counters ==
    ASSUME tokens \in [Events -> Counts], NEW e \in Events
    PROVE  /\ tokens[e].write \in 0..MaxCount
           /\ tokens[e].write1h \in 0..MaxCount \cup {Null}
           /\ Writes[e] = tokens[e].write /\ Writes[e] \in Nat
           /\ Hours[e] = Least(Reported(tokens[e].write1h), tokens[e].write)
           /\ Hours[e] \in Nat /\ Hours[e] <= Writes[e]
<1>1. /\ tokens[e].write \in 0..MaxCount
      /\ tokens[e].write1h \in 0..MaxCount \cup {Null}
  BY BlockAssumption
<1>2. Writes[e] = tokens[e].write
  BY DEF Writes
<1>3. Hours[e] = Least(Reported(tokens[e].write1h), tokens[e].write)
  BY DEF Hours
<1> QED BY <1>1, <1>2, <1>3, BlockAssumption DEF Least, Reported

\* The sums over a set of events, and one more.
LEMMA CounterSums ==
    ASSUME tokens \in [Events -> Counts], NEW T \in SUBSET Events
    PROVE  /\ SumFunctionOnSet(Writes, {}) = 0 /\ SumFunctionOnSet(Hours, {}) = 0
           /\ SumFunctionOnSet(Writes, T) \in Nat /\ SumFunctionOnSet(Hours, T) \in Nat
           /\ \A e \in Events \ T :
                /\ SumFunctionOnSet(Writes, T \cup {e})
                     = SumFunctionOnSet(Writes, T) + Writes[e]
                /\ SumFunctionOnSet(Hours, T \cup {e})
                     = SumFunctionOnSet(Hours, T) + Hours[e]
<1>1. IsFiniteSet(Events)
  BY PriceAssumption
<1>2. \A e \in Events : Writes[e] \in Nat
  BY Counters
<1>3. \A e \in Events : Hours[e] \in Nat
  BY Counters
<1>4. /\ SumFunctionOnSet(Writes, {}) = 0 /\ SumFunctionOnSet(Writes, T) \in Nat
  BY <1>1, <1>2, SumStep
<1>5. /\ SumFunctionOnSet(Hours, {}) = 0 /\ SumFunctionOnSet(Hours, T) \in Nat
  BY <1>1, <1>3, SumStep
<1>6. ASSUME NEW e \in Events \ T
      PROVE  SumFunctionOnSet(Writes, T \cup {e}) = SumFunctionOnSet(Writes, T) + Writes[e]
  <2>1. e \in Events /\ e \notin T
    OBVIOUS
  <2> QED BY <1>1, <1>2, <2>1, SumAdds
<1>7. ASSUME NEW e \in Events \ T
      PROVE  SumFunctionOnSet(Hours, T \cup {e}) = SumFunctionOnSet(Hours, T) + Hours[e]
  <2>1. e \in Events /\ e \notin T
    OBVIOUS
  <2> QED BY <1>1, <1>3, <2>1, SumAdds
<1> QED BY <1>4, <1>5, <1>6, <1>7

LEMMA EmptyHolds ==
    ASSUME tokens \in [Events -> Counts], NEW key
    PROVE  EmptyRow(key) \in RowsOf(key) /\ Holds(EmptyRow(key), {})
<1>1. SumFunctionOnSet(Writes, {}) = 0 /\ SumFunctionOnSet(Hours, {}) = 0
  BY CounterSums
<1> QED BY <1>1, BlockAssumption DEF EmptyRow, RowsOf, Holds, Reported

LEMMA AddedKeeps ==
    ASSUME tokens \in [Events -> Counts], NEW key, NEW row \in RowsOf(key),
           NEW e \in Events
    PROVE  Added(row, e) \in RowsOf(key)
<1>1. /\ row.write \in 0..MaxCount /\ row.write1h \in 0..MaxCount \cup {Null}
      /\ row.events \subseteq Events /\ row.key = key
  BY DEF RowsOf
<1>2. Added(row, e).write \in 0..MaxCount
  BY <1>1, Counters, BlockAssumption DEF Added, Saturated, Least
<1>3. Added(row, e).write1h \in 0..MaxCount \cup {Null}
  BY <1>1, Counters, BlockAssumption DEF Added, Saturated, Least, Reported, Clamped1h
<1> QED BY <1>1, <1>2, <1>3 DEF Added, RowsOf

LEMMA AddedHolds ==
    ASSUME tokens \in [Events -> Counts], NEW key, NEW row \in RowsOf(key),
           NEW T \in SUBSET Events, Holds(row, T), NEW e \in Events \ T
    PROVE  Holds(Added(row, e), T \cup {e})
<1> DEFINE added == Added(row, e)
           w == SumFunctionOnSet(Writes, T)
           h == SumFunctionOnSet(Hours, T)
<1>1. /\ row.write \in 0..MaxCount /\ row.write1h \in 0..MaxCount \cup {Null}
      /\ row.events = T /\ Reported(row.write1h) <= row.write
  BY DEF RowsOf, Holds
<1>2. /\ w \in Nat /\ h \in Nat
      /\ SumFunctionOnSet(Writes, T \cup {e}) = w + Writes[e]
      /\ SumFunctionOnSet(Hours, T \cup {e}) = h + Hours[e]
  BY CounterSums
<1>3. /\ MaxCount \in Nat /\ Null \notin Int
      /\ tokens[e].write \in 0..MaxCount
      /\ tokens[e].write1h \in 0..MaxCount \cup {Null}
  BY Counters, BlockAssumption
<1>4. added.events = T \cup {e} /\ Reported(added.write1h) <= added.write
  BY <1>1, <1>3 DEF Added, Saturated, Least, Reported, Clamped1h
<1>5. ASSUME w + Writes[e] <= MaxCount
      PROVE  added.write = w + Writes[e] /\ Reported(added.write1h) = h + Hours[e]
  <2>1. Writes[e] = tokens[e].write
        /\ Hours[e] = Least(Reported(tokens[e].write1h), tokens[e].write)
    BY Counters
  <2>2. w <= MaxCount
    BY <1>2, <1>3, <1>5, <2>1
  <2>3. row.write = w /\ Reported(row.write1h) = h
    BY <2>2 DEF Holds
  <2>4. added.write = w + Writes[e]
    BY <1>3, <1>5, <2>1, <2>3 DEF Added, Saturated, Least
  <2>5. CASE tokens[e].write1h = Null
    <3>1. added.write1h = row.write1h
      BY <2>5 DEF Added
    <3>2. Hours[e] = 0
      BY <1>3, <2>1, <2>5 DEF Least, Reported
    <3> QED BY <1>2, <2>3, <2>4, <3>1, <3>2
  <2>6. CASE tokens[e].write1h # Null
    <3>1. added.write1h = Saturated(h + Clamped1h(tokens[e]), MaxCount)
      BY <2>3, <2>6 DEF Added
    <3>2. Hours[e] = Clamped1h(tokens[e])
      BY <2>1, <2>6 DEF Reported, Clamped1h
    <3>3. Hours[e] <= Writes[e] /\ Hours[e] \in Nat /\ Writes[e] \in Nat
      BY Counters
    <3>4. h + Hours[e] <= MaxCount /\ h + Hours[e] \in Nat
      BY <1>1, <1>2, <1>3, <1>5, <2>3, <3>3
    <3>5. added.write1h = h + Hours[e]
      BY <3>1, <3>2, <3>4 DEF Saturated, Least
    <3>6. added.write1h # Null
      BY <1>3, <3>4, <3>5
    <3> QED BY <2>4, <3>5, <3>6 DEF Reported
  <2> QED BY <2>5, <2>6
<1> QED BY <1>2, <1>4, <1>5 DEF Holds

LEMMA RowFolds ==
    ASSUME NEW key
    PROVE  LET M == {e \in Events : RollupKey(e) = key}
           IN  RowOf(key) = (CHOOSE it :
                 it = [T \in SUBSET M |-> IF T = {} THEN EmptyRow(key)
                                          ELSE Added(it[T \ {Chosen(T)}], Chosen(T))])[M]
BY DEF RowOf, FoldSet, MapThenFoldSet, Chosen

LEMMA RowHolds ==
    ASSUME tokens \in [Events -> Counts], NEW key
    PROVE  LET M == {e \in Events : RollupKey(e) = key}
           IN  RowOf(key) \in RowsOf(key) /\ Holds(RowOf(key), M)
<1> DEFINE M == {e \in Events : RollupKey(e) = key}
           Unfolds(it) == it = [T \in SUBSET M |->
                IF T = {} THEN EmptyRow(key) ELSE Added(it[T \ {Chosen(T)}], Chosen(T))]
           step == [p \in M \X RowsOf(key) |-> Added(p[2], p[1])]
           base == EmptyRow(key)
<1>1. M \subseteq Events /\ IsFiniteSet(M)
  BY PriceAssumption, FS_Subset
<1>2. ASSUME NEW it, IsFold(it, step, base, M) \/ Unfolds(it), NEW U \in SUBSET M
      PROVE  it[U] \in RowsOf(key) /\ Holds(it[U], U)
  <2> DEFINE Bad == {T \in SUBSET M : ~(it[T] \in RowsOf(key) /\ Holds(it[T], T))}
  <2> SUFFICES ASSUME Bad # {} PROVE FALSE
    OBVIOUS
  <2>1. PICK T \in Bad : \A V \in Bad : ~(V \subseteq T /\ V # T)
    <3> Bad \subseteq SUBSET M
      OBVIOUS
    <3> HIDE DEF Bad
    <3> QED BY <1>1, LeastSubset
  <2> DEFINE c == Chosen(T)
             R == T \ {c}
  <2>2. T \in SUBSET M
    OBVIOUS
  <2>3. \/ it[T] = IF T = {} THEN base ELSE step[<<c, it[R]>>]
        \/ it[T] = IF T = {} THEN base ELSE Added(it[R], c)
    <3> HIDE DEF step, M, Bad
    <3> QED BY <1>2, <2>2 DEF IsFold
  <2>4. ~(it[T] \in RowsOf(key) /\ Holds(it[T], T))
    OBVIOUS
  <2>5. CASE T = {}
    <3>1. it[T] = base
      BY <2>3, <2>5
    <3> HIDE DEF Bad
    <3> QED BY <2>4, <2>5, <3>1, EmptyHolds
  <2>6. CASE T # {}
    <3>1. c \in T /\ R \in SUBSET M /\ R # T /\ R \subseteq T /\ T = R \cup {c} /\ c \notin R
      BY <2>6, ChosenIn
    <3>2. it[R] \in RowsOf(key) /\ Holds(it[R], R)
      BY <2>1, <3>1
    <3>3. c \in M /\ c \in Events \ R /\ R \in SUBSET Events
      BY <1>1, <2>2, <3>1
    <3>4. step[<<c, it[R]>>] = Added(it[R], c)
      BY <3>2, <3>3
    <3>5. it[T] = Added(it[R], c)
      <4> HIDE DEF step, M, Bad, c, R
      <4> QED BY <2>3, <2>6, <3>4
    <3> HIDE DEF Bad, c, R, M, step
    <3>6. Added(it[R], c) \in RowsOf(key)
      BY <3>2, <3>3, AddedKeeps
    <3>7. Holds(Added(it[R], c), R \cup {c})
      BY <3>2, <3>3, AddedHolds
    <3> QED BY <2>4, <3>1, <3>5, <3>6, <3>7
  <2> QED BY <2>5, <2>6
<1>3. PICK it : IsFold(it, step, base, M)
  <2> HIDE DEF step, M
  <2> QED BY <1>1, FoldExists
<1>4. Unfolds(it)
  <2>1. \A T \in SUBSET M : T # {} =>
          step[<<Chosen(T), it[T \ {Chosen(T)}]>>] = Added(it[T \ {Chosen(T)}], Chosen(T))
    <3> SUFFICES ASSUME NEW T \in SUBSET M, T # {}
                 PROVE  step[<<Chosen(T), it[T \ {Chosen(T)}]>>]
                          = Added(it[T \ {Chosen(T)}], Chosen(T))
      OBVIOUS
    <3> DEFINE c == Chosen(T)
               R == T \ {c}
    <3>1. c \in M /\ R \in SUBSET M
      BY ChosenIn
    <3>2. it[R] \in RowsOf(key)
      <4> HIDE DEF step, M, R
      <4> QED BY <1>2, <1>3, <3>1
    <3> HIDE DEF c, R, M
    <3>3. step[<<c, it[R]>>] = Added(it[R], c)
      BY <3>1, <3>2
    <3> QED BY <3>3 DEF c, R
  <2>2. it = [T \in SUBSET M |->
                IF T = {} THEN base ELSE step[<<Chosen(T), it[T \ {Chosen(T)}]>>]]
    BY <1>3 DEF IsFold
  <2> HIDE DEF step, M
  <2> QED BY <2>1, <2>2
<1> DEFINE fold == CHOOSE r : Unfolds(r)
<1>5. Unfolds(fold)
  <2> HIDE DEF Unfolds
  <2> QED BY <1>4
<1>6. RowOf(key) = fold[M]
  BY RowFolds
<1>7. M \in SUBSET M
  OBVIOUS
<1>8. fold[M] \in RowsOf(key) /\ Holds(fold[M], M)
  <2> HIDE DEF fold, Unfolds, M
  <2> QED BY <1>2, <1>5, <1>7
<1> QED BY <1>6, <1>8

-----------------------------------------------------------------------------
(***************************************************************************)
(* The invariant of the pricing.                                           *)
(***************************************************************************)

\* What the group of these events holds.
Sums(group, T) ==
    /\ group.usd = SumFunctionOnSet(Charges, T)
    /\ group.allPriced = \A e \in T : IsPriced(e)
    /\ group.models = {model[e] : e \in T}
    /\ group.multiCall = \E e \in T : tokens[e].calls > 1

MembersOf(key) == {e \in Events : RollupKey(e) = key}
PricedOf(key) == {e \in Events \ unpriced : RollupKey(e) = key}

RequestInv ==
    /\ by \in Dimensions /\ mode \in Modes
    /\ model \in [Events -> Models] /\ recorded \in [Events -> Recorded]
    /\ tokens \in [Events -> Counts]
    /\ unpriced \subseteq Events

\* A block's rows are those of its loop; the keyed ones are there at once.
KeyedRows ==
    \A i \in DOMAIN rows :
        /\ MembersOf(rows[i].key) # {}
        /\ Holds(rows[i], MembersOf(rows[i].key))

RowsInv ==
    IF by = "block" THEN IInv
    ELSE \/ pending = {} /\ KeyedRows
         \/ pending = Events /\ rows = <<>>

GroupsInv ==
    /\ DOMAIN groups = {RollupKey(e) : e \in Events \ unpriced}
    /\ \A key \in DOMAIN groups : Sums(groups[key], PricedOf(key))

\* No step follows the decisions, but for the prices of the rollups.
DecidedInv ==
    /\ decisions # <<>> => pending = {} /\ unpriced = {}
    /\ RowPricedByItsEvents /\ TierExposureFlagged

\* The writes of a row are summed, not saturated.
WritesFit ==
    \A i \in DOMAIN rows : SumFunctionOnSet(Writes, rows[i].events) <= MaxCount

RollupPricedInv ==
    /\ rollupPrices # <<>> => by = "model" /\ pending = {}
    /\ WritesFit => RollupPricesAgreeUnlessPartlyRecorded

PInv == RequestInv /\ RowsInv /\ GroupsInv /\ DecidedInv /\ RollupPricedInv
-----------------------------------------------------------------------------
(***************************************************************************)
(* The steps.                                                              *)
(***************************************************************************)

\* What an event is worth is a number.
LEMMA ChargeNat ==
    ASSUME RequestInv
    PROVE  \A e \in Events : Charges[e] \in Nat /\ Charges[e] = Charge(e)
<1> SUFFICES ASSUME NEW e \in Events PROVE Charge(e) \in Nat
  BY DEF Charges
<1>1. recorded[e] \in Nat \cup {Null}
  BY PriceAssumption DEF RequestInv
<1>2. Cost(model[e], tokens[e]) \in Nat
  <2>1. /\ tokens[e].write \in 0..MaxCount /\ MaxCount \in Nat
        /\ tokens[e].write1h \in 0..MaxCount \cup {Null}
    BY Counters, BlockAssumption DEF RequestInv
  <2> QED BY <2>1 DEF Cost, Least, Reported
<1>3. mode \in {"calculate", "display", "auto"}
  BY DEF RequestInv, Modes
<1> QED BY <1>1, <1>2, <1>3 DEF Charge

LEMMA ChargeSums ==
    ASSUME RequestInv, NEW T \in SUBSET Events
    PROVE  /\ SumFunctionOnSet(Charges, {}) = 0
           /\ SumFunctionOnSet(Charges, T) \in Nat
           /\ \A e \in Events \ T :
                SumFunctionOnSet(Charges, T \cup {e}) = SumFunctionOnSet(Charges, T) + Charge(e)
<1>1. IsFiniteSet(Events)
  BY PriceAssumption
<1>2. \A e \in Events : Charges[e] \in Nat
  BY ChargeNat
<1>3. SumFunctionOnSet(Charges, {}) = 0 /\ SumFunctionOnSet(Charges, T) \in Nat
  BY <1>1, <1>2, SumStep
<1>4. ASSUME NEW e \in Events \ T
      PROVE  SumFunctionOnSet(Charges, T \cup {e}) = SumFunctionOnSet(Charges, T) + Charge(e)
  <2>1. e \in Events /\ e \notin T
    OBVIOUS
  <2>2. SumFunctionOnSet(Charges, T \cup {e}) = SumFunctionOnSet(Charges, T) + Charges[e]
    BY <1>1, <1>2, <2>1, SumAdds
  <2> QED BY <2>2, ChargeNat
<1> QED BY <1>3, <1>4

\* Nothing but the request and the input decides what an event is worth and
\* under which key.
LEMMA SameRequest ==
    ASSUME UNCHANGED <<request, input>>
    PROVE  /\ by' = by /\ mode' = mode /\ model' = model /\ recorded' = recorded
           /\ tokens' = tokens
           /\ Charges' = Charges /\ Writes' = Writes /\ Hours' = Hours
           /\ \A key : MembersOf(key)' = MembersOf(key)
           /\ \A e : RollupKey(e)' = RollupKey(e)
           /\ \A group, T : Sums(group, T)' <=> Sums(group, T)
           /\ \A row, T : Holds(row, T)' <=> Holds(row, T)
           /\ \A row : RollupPrice(row)' = RollupPrice(row)
<1>1. by' = by /\ mode' = mode /\ model' = model /\ recorded' = recorded /\ tokens' = tokens
      /\ at' = at /\ zone' = zone
  BY DEF request, input
<1>2. \A e : Charge(e)' = Charge(e)
  BY <1>1 DEF Charge, IsPriced, Cost, Least, Reported
<1>3. Charges' = Charges
  BY <1>2 DEF Charges
<1>4. Writes' = Writes /\ Hours' = Hours
  BY <1>1 DEF Writes, Hours, Least, Reported
<1>5. \A e : RollupKey(e)' = RollupKey(e)
  BY <1>1 DEF RollupKey, DayKey, InvalidDate, Key
<1>6. \A key : MembersOf(key)' = MembersOf(key)
  BY <1>5 DEF MembersOf
<1>7. \A group, T : Sums(group, T)' <=> Sums(group, T)
  BY <1>1, <1>3 DEF Sums, IsPriced
<1>8. \A row, T : Holds(row, T)' <=> Holds(row, T)
  BY <1>4 DEF Holds, Reported
<1>9. \A row : RollupPrice(row)' = RollupPrice(row)
  BY <1>1 DEF RollupPrice, RecordedOf, CallsOf, Cost, Least, Reported
<1> QED BY <1>1, <1>3, <1>4, <1>5, <1>6, <1>7, <1>8, <1>9

\* The rows of a rollup by key, at once: one for each key, of its events.
LEMMA KeysOnce ==
    LET keys == {RollupKey(e) : e \in Events}
    IN  SetToSeq(keys) \in [1..Cardinality(keys) -> keys]
<1> DEFINE keys == {RollupKey(e) : e \in Events}
           f == [e \in Events |-> RollupKey(e)]
<1>1. f \in Surjection(Events, keys)
  BY DEF Surjection
<1>2. IsFiniteSet(keys)
  <2> HIDE DEF f, keys
  <2> QED BY <1>1, FS_Surjection, PriceAssumption
<1>3. ExistsBijection(1..Cardinality(keys), keys)
  <2> HIDE DEF keys
  <2> QED BY <1>2, FS_CardinalityType
<1>4. \E g \in [1..Cardinality(keys) -> keys] : IsInjective(g)
  <2> HIDE DEF keys
  <2> QED BY <1>3 DEF ExistsBijection, Bijection, Injection
<1>5. SetToSeq(keys) \in [1..Cardinality(keys) -> keys]
  <2> HIDE DEF keys
  <2> QED BY <1>4 DEF SetToSeq
<1> QED BY <1>5

LEMMA RollupKeyedStep ==
    ASSUME RequestInv, RollupKeyed
    PROVE  RowsInv'
<1> DEFINE keys == {RollupKey(e) : e \in Events}
           order == SetToSeq(keys)
<1>1. /\ by # "block" /\ pending' = {} /\ UNCHANGED <<request, input>>
      /\ rows' = [i \in DOMAIN order |-> RowOf(order[i])]
  BY DEF RollupKeyed
<1>2. \A i \in DOMAIN order : order[i] \in keys
  BY KeysOnce
<1>3. ASSUME NEW i \in DOMAIN rows'
      PROVE  (MembersOf(rows[i].key) # {} /\ Holds(rows[i], MembersOf(rows[i].key)))'
  <2> DEFINE key == order[i]
  <2>1. i \in DOMAIN order /\ key \in keys /\ rows'[i] = RowOf(key)
    <3> HIDE DEF order, keys
    <3> QED BY <1>1, <1>2
  <2>2. MembersOf(key) # {}
    BY <2>1 DEF MembersOf
  <2> HIDE DEF key, order, keys
  <2>3. RowOf(key) \in RowsOf(key) /\ Holds(RowOf(key), MembersOf(key))
    BY RowHolds DEF RequestInv, MembersOf
  <2>4. rows'[i].key = key
    BY <2>1, <2>3 DEF RowsOf
  <2>5. \A k : MembersOf(k)' = MembersOf(k)
    BY <1>1, SameRequest
  <2>6. \A row, T : Holds(row, T)' <=> Holds(row, T)
    BY <1>1, SameRequest
  <2>7. ASSUME NEW r, r = rows'[i], NEW k, k = rows'[i].key
        PROVE  MembersOf(k)' # {} /\ Holds(r, MembersOf(k))'
    BY <2>1, <2>2, <2>3, <2>4, <2>5, <2>6, <2>7
  <2> QED BY <2>7
<1>4. KeyedRows'
  BY <1>3 DEF KeyedRows
<1>5. by' # "block"
  BY <1>1 DEF request
<1> QED BY <1>1, <1>4, <1>5 DEF RowsInv

\* The steps that leave the rows alone.
LEMMA RowsKept ==
    ASSUME RowsInv, UNCHANGED <<vars, request>>
    PROVE  RowsInv'
<1>1. /\ UNCHANGED <<request, input>> /\ by' = by
      /\ pending' = pending /\ rows' = rows /\ [Next]_vars
  BY DEF vars, request
<1>2. CASE by = "block"
  BY <1>1, <1>2, IInvKept DEF RowsInv
<1>3. CASE by # "block"
  <2>1. \A k : MembersOf(k)' = MembersOf(k)
    BY <1>1, SameRequest
  <2>2. \A row, T : Holds(row, T)' <=> Holds(row, T)
    BY <1>1, SameRequest
  <2>3. ASSUME KeyedRows PROVE KeyedRows'
    <3>1. ASSUME NEW i \in DOMAIN rows, NEW r, r = rows[i], NEW k, k = rows[i].key
          PROVE  MembersOf(k)' # {} /\ Holds(r, MembersOf(k))'
      BY <2>1, <2>2, <2>3, <3>1 DEF KeyedRows
    <3>2. ASSUME NEW i \in DOMAIN rows'
          PROVE  (MembersOf(rows[i].key) # {} /\ Holds(rows[i], MembersOf(rows[i].key)))'
      BY <1>1, <3>1, <3>2
    <3> QED BY <3>2 DEF KeyedRows
  <2> QED BY <1>1, <1>3, <2>3 DEF RowsInv
<1> QED BY <1>2, <1>3

\* An event priced joins the group of its key.
LEMMA WithEventSums ==
    ASSUME RequestInv, NEW group, NEW T \in SUBSET Events, Sums(group, T),
           NEW e \in Events \ T
    PROVE  Sums(WithEvent(group, e), T \cup {e})
<1>1. SumFunctionOnSet(Charges, T \cup {e}) = SumFunctionOnSet(Charges, T) + Charge(e)
  BY ChargeSums
<1>2. WithEvent(group, e).usd = SumFunctionOnSet(Charges, T \cup {e})
  BY <1>1 DEF WithEvent, Sums
<1>3. WithEvent(group, e).models = {model[f] : f \in T \cup {e}}
  BY DEF WithEvent, Sums
<1>4. WithEvent(group, e).allPriced = \A f \in T \cup {e} : IsPriced(f)
  <2>1. WithEvent(group, e).allPriced = (group.allPriced /\ IsPriced(e))
    BY DEF WithEvent
  <2>2. group.allPriced = \A f \in T : IsPriced(f)
    BY DEF Sums
  <2> QED BY <2>1, <2>2
<1>5. WithEvent(group, e).multiCall = \E f \in T \cup {e} : tokens[f].calls > 1
  <2>1. WithEvent(group, e).multiCall = (group.multiCall \/ tokens[e].calls > 1)
    BY DEF WithEvent
  <2>2. group.multiCall = \E f \in T : tokens[f].calls > 1
    BY DEF Sums
  <2> QED BY <2>1, <2>2
<1> QED BY <1>2, <1>3, <1>4, <1>5 DEF Sums

LEMMA NewGroupSums == RequestInv => Sums(NewGroup, {})
<1> SUFFICES ASSUME RequestInv PROVE Sums(NewGroup, {})
  OBVIOUS
<1>1. SumFunctionOnSet(Charges, {}) = 0
  BY ChargeSums
<1> QED BY <1>1 DEF Sums, NewGroup

LEMMA PriceEventStep ==
    ASSUME RequestInv, GroupsInv, NEW e \in Events, PriceEvent(e)
    PROVE  GroupsInv'
<1> DEFINE key == RollupKey(e)
           group == IF key \in DOMAIN groups THEN groups[key] ELSE NewGroup
<1>1. /\ e \in unpriced /\ unpriced' = unpriced \ {e} /\ UNCHANGED <<request, input>>
      /\ groups' = [k \in DOMAIN groups \cup {key} |->
                      IF k = key THEN WithEvent(group, e) ELSE groups[k]]
  BY DEF PriceEvent, vars
<1>2. unpriced \subseteq Events
  BY DEF RequestInv
<1>3. \A f : RollupKey(f)' = RollupKey(f)
  BY <1>1, SameRequest
<1>4. \A g, T : Sums(g, T)' <=> Sums(g, T)
  BY <1>1, SameRequest
<1>5. Events \ unpriced' = (Events \ unpriced) \cup {e}
  BY <1>1, <1>2
<1>6. \A k : PricedOf(k)' = IF k = key THEN PricedOf(k) \cup {e} ELSE PricedOf(k)
  <2> SUFFICES ASSUME NEW k
               PROVE  PricedOf(k)' = IF k = key THEN PricedOf(k) \cup {e} ELSE PricedOf(k)
    OBVIOUS
  <2>1. PricedOf(k)' = {f \in (Events \ unpriced) \cup {e} : RollupKey(f) = k}
    BY <1>3, <1>5 DEF PricedOf
  <2> QED BY <2>1 DEF PricedOf
<1>7. DOMAIN groups' = {RollupKey(f) : f \in Events \ unpriced}'
  BY <1>1, <1>3, <1>5 DEF GroupsInv
<1>8. Sums(group, PricedOf(key))
  <2>1. CASE key \in DOMAIN groups
    BY <2>1 DEF GroupsInv
  <2>2. CASE key \notin DOMAIN groups
    <3>1. PricedOf(key) = {}
      BY <2>2 DEF GroupsInv, PricedOf
    <3> QED BY <2>2, <3>1, NewGroupSums
  <2> QED BY <2>1, <2>2
<1>9. Sums(WithEvent(group, e), PricedOf(key) \cup {e})
  <2>1. PricedOf(key) \in SUBSET Events /\ e \notin PricedOf(key)
    BY <1>1 DEF PricedOf
  <2> HIDE DEF group, key
  <2> QED BY <1>8, <2>1, WithEventSums
<1>10. ASSUME NEW k \in DOMAIN groups'
       PROVE  Sums(groups[k], PricedOf(k))'
  <2> HIDE DEF group
  <2>1. CASE k = key
    <3>1. groups'[k] = WithEvent(group, e) /\ PricedOf(k)' = PricedOf(key) \cup {e}
      BY <1>1, <1>6, <2>1
    <3> HIDE DEF key
    <3> QED BY <1>4, <1>9, <3>1
  <2>2. CASE k # key
    <3>1. k \in DOMAIN groups /\ groups'[k] = groups[k] /\ PricedOf(k)' = PricedOf(k)
      BY <1>1, <1>6, <2>2
    <3>2. Sums(groups[k], PricedOf(k))
      BY <3>1 DEF GroupsInv
    <3> QED BY <1>4, <3>1, <3>2
  <2> QED BY <2>1, <2>2
<1> QED BY <1>7, <1>10 DEF GroupsInv

LEMMA GroupsKept ==
    ASSUME GroupsInv, UNCHANGED <<request, input, unpriced, groups>>
    PROVE  GroupsInv'
<1>1. UNCHANGED <<request, input>> /\ unpriced' = unpriced /\ groups' = groups
  OBVIOUS
<1>2. \A f : RollupKey(f)' = RollupKey(f)
  BY <1>1, SameRequest
<1>3. \A g, T : Sums(g, T)' <=> Sums(g, T)
  BY <1>1, SameRequest
<1>4. \A k : PricedOf(k)' = PricedOf(k)
  BY <1>1, <1>2 DEF PricedOf
<1>5. DOMAIN groups' = {RollupKey(f)' : f \in Events \ unpriced'}
  BY <1>1, <1>2 DEF GroupsInv
<1>6. ASSUME NEW k \in DOMAIN groups, NEW g, g = groups[k], NEW T, T = PricedOf(k)
      PROVE  Sums(g, T)'
  BY <1>3, <1>6 DEF GroupsInv
<1>7. ASSUME NEW k \in DOMAIN groups'
      PROVE  Sums(groups[k], PricedOf(k))'
  BY <1>1, <1>4, <1>6
<1> QED BY <1>5, <1>7 DEF GroupsInv

\* The group under a row's key, if there is one, is that of the row's events.
LEMMA RowMembers ==
    ASSUME RowsInv, GroupsInv, pending = {}, unpriced = {}, NEW i \in DOMAIN rows
    PROVE  /\ rows[i].events # {} /\ rows[i].events \subseteq Events
           /\ by # "block" => KeyOfRow(rows[i]) \in DOMAIN groups
           /\ KeyOfRow(rows[i]) \in DOMAIN groups =>
                Sums(groups[KeyOfRow(rows[i])], rows[i].events)
<1> DEFINE row == rows[i]
           key == KeyOfRow(row)
<1>1. DOMAIN groups = {RollupKey(e) : e \in Events}
  BY DEF GroupsInv
<1>2. \A k \in DOMAIN groups : Sums(groups[k], MembersOf(k))
  BY DEF GroupsInv, PricedOf, MembersOf
<1>3. CASE by # "block"
  <2>1. key = row.key
    BY <1>3 DEF KeyOfRow
  <2>2. MembersOf(row.key) # {} /\ row.events = MembersOf(row.key)
    BY <1>3 DEF RowsInv, KeyedRows, Holds
  <2>3. row.key \in DOMAIN groups
    BY <1>1, <2>2 DEF MembersOf
  <2> QED BY <1>2, <2>1, <2>2, <2>3 DEF MembersOf
<1>4. CASE by = "block"
  <2>1. IInv /\ row.events # {} /\ row.events \subseteq Events
    BY <1>4, Positions DEF RowsInv, IInv, CountedOnce
  <2>2. ASSUME key \in DOMAIN groups PROVE row.key = Unparsed
    <3>1. PICK e \in Events : key = RollupKey(e)
      BY <1>1, <2>2
    <3>2. key.kind \in {"day", "invalid-date"}
      BY <1>4, <3>1 DEF RollupKey, DayKey, InvalidDate, Key
    <3>3. row.key # Unparsed => key.kind = "block"
      BY <1>4 DEF KeyOfRow, Key
    <3> QED BY <3>2, <3>3
  <2>3. ASSUME row.key = Unparsed PROVE row.events = MembersOf(key)
    <3>1. key = InvalidDate
      BY <1>4, <2>3 DEF KeyOfRow
    <3>2. \A e \in Events : RollupKey(e) = InvalidDate <=> at[e] = Unparsed
      BY <1>4 DEF RollupKey, DayKey, InvalidDate, Key
    <3>3. \A e \in row.events : at[e] = Unparsed
      BY <2>1, <2>3 DEF IInv, EventInWindow
    <3>4. ASSUME NEW e \in Events, at[e] = Unparsed PROVE e \in row.events
      <4>1. PICK j \in DOMAIN rows : e \in rows[j].events
        BY <2>1 DEF IInv, CountedOnce
      <4>2. rows[j].key = Unparsed
        BY <2>1, <3>4, <4>1 DEF IInv, EventInWindow
      <4>3. i \in Int /\ j \in Int
        BY <2>1, Positions DEF IInv
      <4>4. ~(i < j) /\ ~(j < i)
        BY <2>1, <2>3, <4>2 DEF IInv, KeysAscend
      <4> QED BY <4>1, <4>3, <4>4
    <3> QED BY <2>1, <3>1, <3>2, <3>3, <3>4 DEF MembersOf
  <2> QED BY <1>2, <1>4, <2>1, <2>2, <2>3
<1> QED BY <1>3, <1>4

\* A row's decision, from the group of its events.
DecidedBy(d, T) ==
    LET hit == \A e \in T : IsPriced(e)
        single == \A e, f \in T : model[e] = model[f]
    IN  /\ d.kind = IF hit THEN IF single THEN "SingleHit" ELSE "MultiHit"
                           ELSE IF single THEN "SingleMiss" ELSE "MultiMiss"
        /\ d.usd = IF hit \/ mode # "calculate" THEN SumFunctionOnSet(Charges, T) ELSE Null
        /\ d.tieredAggregate <=>
             /\ d.kind = "SingleHit" /\ mode # "display"
             /\ \E e \in T : tokens[e].calls > 1
             /\ \A e \in T : model[e] \in Tiered

LEMMA ModelsFinite ==
    ASSUME NEW T \in SUBSET Events
    PROVE  /\ IsFiniteSet({model[e] : e \in T})
           /\ T # {} => (Cardinality({model[e] : e \in T}) = 1
                           <=> \A e, f \in T : model[e] = model[f])
<1> DEFINE models == {model[e] : e \in T}
           g == [e \in T |-> model[e]]
<1>1. IsFiniteSet(T)
  BY PriceAssumption, FS_Subset
<1>2. g \in Surjection(T, models)
  BY DEF Surjection
<1>3. IsFiniteSet(models)
  <2> HIDE DEF g, models
  <2> QED BY <1>1, <1>2, FS_Surjection
<1>4. Cardinality(models) = 1 <=> \E m : models = {m}
  <2> HIDE DEF models
  <2> QED BY <1>3, FS_Singleton
<1>5. ASSUME T # {}, NEW m, models = {m} PROVE \A e, f \in T : model[e] = model[f]
  BY <1>5
<1>6. ASSUME T # {}, \A e, f \in T : model[e] = model[f] PROVE \E m : models = {m}
  <2>1. PICK e \in T : TRUE
    BY <1>6
  <2>2. models = {model[e]}
    BY <1>6
  <2> QED BY <2>2
<1> QED BY <1>3, <1>4, <1>5, <1>6

LEMMA DecisionIs ==
    ASSUME NEW T \in SUBSET Events, T # {}, NEW group, Sums(group, T)
    PROVE  DecidedBy(DecisionOf(group), T)
<1> DEFINE hit == \A e \in T : IsPriced(e)
           single == \A e, f \in T : model[e] = model[f]
           d == DecisionOf(group)
<1>1. group.models = {model[e] : e \in T}
  BY DEF Sums
<1>2. (Cardinality(group.models) = 1) <=> single
  BY <1>1, ModelsFinite
<1>3. group.allPriced <=> hit
  BY DEF Sums
<1>4. group.multiCall <=> \E e \in T : tokens[e].calls > 1
  BY DEF Sums
<1>5. group.models \subseteq Tiered <=> \A e \in T : model[e] \in Tiered
  BY <1>1
<1>6. group.usd = SumFunctionOnSet(Charges, T)
  BY DEF Sums
<1>7. d.kind = IF hit THEN IF single THEN "SingleHit" ELSE "MultiHit"
                      ELSE IF single THEN "SingleMiss" ELSE "MultiMiss"
  <2> HIDE DEF hit, single
  <2> QED BY <1>2, <1>3 DEF DecisionOf
<1>8. d.usd = IF hit \/ mode # "calculate" THEN SumFunctionOnSet(Charges, T) ELSE Null
  <2> HIDE DEF hit, single
  <2> QED BY <1>3, <1>6 DEF DecisionOf
<1>9. d.tieredAggregate <=> /\ hit /\ single /\ mode # "display"
                            /\ group.multiCall /\ group.models \subseteq Tiered
  <2> HIDE DEF hit, single
  <2> QED BY <1>2, <1>3 DEF DecisionOf
<1>10. d.kind = "SingleHit" <=> hit /\ single
  <2> HIDE DEF hit, single, d
  <2> QED BY <1>7
<1> HIDE DEF d
<1>11. d.tieredAggregate <=>
         /\ d.kind = "SingleHit" /\ mode # "display"
         /\ \E e \in T : tokens[e].calls > 1
         /\ \A e \in T : model[e] \in Tiered
  BY <1>4, <1>5, <1>9, <1>10
<1>12. DecidedBy(d, T)
  BY <1>7, <1>8, <1>11 DEF DecidedBy
<1> QED BY <1>12 DEF d

LEMMA DecideStep ==
    ASSUME RowsInv, GroupsInv, Decide
    PROVE  DecidedInv'
<1>1. /\ pending = {} /\ unpriced = {} /\ UNCHANGED <<request, input>>
      /\ pending' = pending /\ rows' = rows /\ unpriced' = unpriced
      /\ decisions' = [i \in DOMAIN rows |->
                         IF KeyOfRow(rows[i]) \in DOMAIN groups
                         THEN DecisionOf(groups[KeyOfRow(rows[i])])
                         ELSE Empty]
  BY DEF Decide, vars
<1>2. by' = by /\ mode' = mode /\ model' = model /\ tokens' = tokens /\ Charges' = Charges
  BY <1>1, SameRequest
<1>3. ASSUME NEW i \in DOMAIN decisions'
      PROVE  \/ by = "block" /\ decisions'[i] = Empty
             \/ DecidedBy(decisions'[i], rows[i].events)
  <2> DEFINE key == KeyOfRow(rows[i])
  <2>1. i \in DOMAIN rows
    BY <1>1
  <2>2. decisions'[i] = IF key \in DOMAIN groups THEN DecisionOf(groups[key]) ELSE Empty
    BY <1>1, <2>1
  <2>3. /\ rows[i].events # {} /\ rows[i].events \subseteq Events
        /\ by # "block" => key \in DOMAIN groups
        /\ key \in DOMAIN groups => Sums(groups[key], rows[i].events)
    BY <1>1, <2>1, RowMembers
  <2> HIDE DEF key
  <2>4. CASE key \in DOMAIN groups
    <3>1. DecidedBy(DecisionOf(groups[key]), rows[i].events)
      BY <2>3, <2>4, DecisionIs
    <3> QED BY <2>2, <2>4, <3>1
  <2>5. CASE key \notin DOMAIN groups
    BY <2>2, <2>3, <2>5
  <2> QED BY <2>4, <2>5
<1>4. RowPricedByItsEvents'
  <2>1. \A d, T : DecidedBy(d, T)' <=> DecidedBy(d, T)
    BY <1>2 DEF DecidedBy, IsPriced
  <2>2. ASSUME NEW i \in DOMAIN decisions'
        PROVE  (\/ by = "block" /\ decisions[i] = Empty
                \/ DecidedBy(decisions[i], rows[i].events))'
    <3>1. CASE by = "block" /\ decisions'[i] = Empty
      BY <1>2, <3>1 DEF Empty
    <3>2. CASE DecidedBy(decisions'[i], rows[i].events)
      <4>1. ASSUME NEW d, d = decisions'[i], NEW T, T = rows'[i].events PROVE DecidedBy(d, T)'
        BY <1>1, <2>1, <3>2, <4>1
      <4> QED BY <4>1
    <3> QED BY <1>3, <3>1, <3>2
  <2> QED BY <2>2 DEF RowPricedByItsEvents, DecidedBy, ChargesOf
<1>5. TierExposureFlagged'
  <2> SUFFICES ASSUME NEW i \in DOMAIN decisions'
               PROVE  (decisions[i].tieredAggregate <=>
                         /\ decisions[i].kind = "SingleHit" /\ mode # "display"
                         /\ \E e \in rows[i].events : tokens[e].calls > 1
                         /\ \A e \in rows[i].events : model[e] \in Tiered)'
    BY DEF TierExposureFlagged
  <2>1. CASE by = "block" /\ decisions'[i] = Empty
    BY <2>1 DEF Empty
  <2>2. CASE DecidedBy(decisions'[i], rows[i].events)
    BY <1>1, <1>2, <2>2 DEF DecidedBy
  <2> QED BY <1>3, <2>1, <2>2
<1> QED BY <1>1, <1>4, <1>5 DEF DecidedInv

\* Until the rows are decided there is nothing to say of them, and then they
\* stay.
LEMMA DecidedKept ==
    ASSUME DecidedInv, UNCHANGED <<request, input, decisions>>,
           decisions # <<>> => UNCHANGED <<pending, unpriced, rows>>
    PROVE  DecidedInv'
<1>1. by' = by /\ mode' = mode /\ model' = model /\ tokens' = tokens /\ Charges' = Charges
      /\ decisions' = decisions
  BY SameRequest
<1>2. CASE decisions = <<>>
  <2>1. decisions' = <<>> /\ DOMAIN decisions' = {}
    BY <1>1, <1>2
  <2> QED BY <2>1 DEF DecidedInv, RowPricedByItsEvents, TierExposureFlagged
<1>3. CASE decisions # <<>>
  <2>1. rows' = rows /\ pending' = pending /\ unpriced' = unpriced
    BY <1>3
  <2>2. RowPricedByItsEvents'
    BY <1>1, <2>1 DEF DecidedInv, RowPricedByItsEvents, ChargesOf, IsPriced, Empty
  <2>3. TierExposureFlagged'
    BY <1>1, <2>1 DEF DecidedInv, TierExposureFlagged
  <2> QED BY <1>1, <2>1, <2>2, <2>3 DEF DecidedInv
<1> QED BY <1>2, <1>3

-----------------------------------------------------------------------------
(***************************************************************************)
(* price_rollups: the price of a row's sums against the sum of its events' *)
(* prices.                                                                 *)
(***************************************************************************)

\* What the events of a row carry, in one sum, is what each of them carries.
LEMMA CarriedSums ==
    ASSUME RequestInv, NEW row, row.events \subseteq Events
    PROVE  /\ RecordedOf(row) = Null \/ RecordedOf(row) \in Nat
           /\ RecordedOf(row) = Null <=> \A e \in row.events : recorded[e] = Null
           /\ (\A e \in row.events :
                  Charge(e) = IF recorded[e] = Null THEN 0 ELSE recorded[e])
                => Reported(RecordedOf(row)) = ChargesOf(row)
<1> DEFINE T == row.events
           carrying == {e \in T : recorded[e] # Null}
<1>1. IsFiniteSet(T) /\ IsFiniteSet(carrying) /\ carrying \in SUBSET T
  BY PriceAssumption, FS_Subset
<1>2. \A e \in carrying : recorded[e] \in Nat
  BY PriceAssumption DEF RequestInv
<1>3. SumFunctionOnSet(recorded, carrying) \in Nat
  <2> HIDE DEF carrying
  <2> QED BY <1>1, <1>2, SumStep
<1>4. RecordedOf(row) = IF carrying = {} THEN Null ELSE SumFunctionOnSet(recorded, carrying)
  BY DEF RecordedOf
<1>5. Null \notin Nat
  BY BlockAssumption
<1>6. carrying = {} <=> \A e \in T : recorded[e] = Null
  OBVIOUS
<1>7. ASSUME \A e \in T : Charge(e) = IF recorded[e] = Null THEN 0 ELSE recorded[e]
      PROVE  Reported(RecordedOf(row)) = ChargesOf(row)
  <2>1. \A e \in T : Charges[e] \in Nat
    BY ChargeNat
  <2>2. \A e \in T \ carrying : Charges[e] = 0
    BY <1>7, ChargeNat
  <2>3. \A e \in carrying : recorded[e] = Charges[e]
    BY <1>7, ChargeNat
  <2>4. ChargesOf(row) = SumFunctionOnSet(Charges, T)
    BY DEF ChargesOf
  <2> HIDE DEF T, carrying
  <2>5. SumFunctionOnSet(Charges, T) = SumFunctionOnSet(Charges, carrying)
    BY <1>1, <2>1, <2>2, SumOfPart
  <2>6. SumFunctionOnSet(recorded, carrying) = SumFunctionOnSet(Charges, carrying)
    BY <1>1, <1>2, <2>3, SumOfSame
  <2>7. CASE carrying = {}
    <3>1. SumFunctionOnSet(Charges, {}) = 0
      BY ChargeSums
    <3> QED BY <1>4, <2>4, <2>5, <2>7, <3>1 DEF Reported
  <2>8. CASE carrying # {}
    BY <1>3, <1>4, <1>5, <2>4, <2>5, <2>6, <2>8 DEF Reported
  <2> QED BY <2>7, <2>8
<1> HIDE DEF carrying
<1> QED BY <1>3, <1>4, <1>5, <1>6, <1>7

\* The price of the sums is the sum of the prices where no tier applies, and
\* where the row has one event.
LEMMA CalculatedSums ==
    ASSUME RequestInv, NEW row, row.events \subseteq Events, row.events # {},
           Holds(row, row.events),
           SumFunctionOnSet(Writes, row.events) <= MaxCount,
           NEW m, \A e \in row.events : Charge(e) = Cost(m, tokens[e]),
           m \notin Tiered \/ Cardinality(row.events) <= 1
    PROVE  Cost(m, row) = ChargesOf(row)
<1> DEFINE T == row.events
<1>1. IsFiniteSet(T)
  BY PriceAssumption, FS_Subset
<1>2. /\ row.write = SumFunctionOnSet(Writes, T)
      /\ Reported(row.write1h) = SumFunctionOnSet(Hours, T)
      /\ Reported(row.write1h) <= row.write
  BY DEF Holds
<1>3. \A e \in T : /\ Writes[e] \in Nat /\ Hours[e] \in Nat /\ Hours[e] <= Writes[e]
                   /\ Writes[e] = tokens[e].write
                   /\ Hours[e] = Least(Reported(tokens[e].write1h), tokens[e].write)
  BY Counters DEF RequestInv
<1>4. \A e \in T : Charges[e] = Cost(m, tokens[e])
  BY ChargeNat
<1>5. /\ SumFunctionOnSet(Writes, T) \in Nat /\ SumFunctionOnSet(Hours, T) \in Nat
  BY CounterSums DEF RequestInv
<1>6. CASE m \notin Tiered
  <2>1. \A e \in T : Charges[e] = Writes[e] + Hours[e]
    BY <1>3, <1>4, <1>6 DEF Cost
  <2>2. \A e \in T : Writes[e] \in Nat /\ Hours[e] \in Nat /\ Charges[e] = Writes[e] + Hours[e]
    BY <1>3, <2>1
  <2>3. SumFunctionOnSet(Charges, T) = SumFunctionOnSet(Writes, T) + SumFunctionOnSet(Hours, T)
    <3>1. T \in SUBSET T
      OBVIOUS
    <3> HIDE DEF T
    <3> QED BY <1>1, <2>2, <3>1, SumOfTwo
  <2>4. Cost(m, row) = row.write + Reported(row.write1h)
    BY <1>2, <1>6 DEF Cost, Least
  <2> QED BY <1>2, <2>3, <2>4 DEF ChargesOf
<1>7. CASE m \in Tiered
  <2>1. Cardinality(T) = 1
    <3>1. Cardinality(T) \in Nat /\ Cardinality(T) # 0
      <4> HIDE DEF T
      <4>1. T # {}
        BY DEF T
      <4> QED BY <1>1, <4>1, FS_CardinalityType, FS_EmptySet
    <3> QED BY <1>7, <3>1
  <2>2. PICK e : T = {e}
    <3> HIDE DEF T
    <3> QED BY <1>1, <2>1, FS_Singleton
  <2>3. e \in Events /\ T = {} \cup {e} /\ e \in Events \ {} /\ e \in T
    BY <2>2
  <2>4. SumFunctionOnSet(Charges, T) = Charge(e)
    <3>1. /\ SumFunctionOnSet(Charges, {}) = 0
          /\ SumFunctionOnSet(Charges, {} \cup {e}) = SumFunctionOnSet(Charges, {}) + Charge(e)
      BY <2>3, ChargeSums
    <3>2. Charge(e) \in Nat
      BY <2>3, ChargeNat
    <3>3. SumFunctionOnSet(Charges, T) = SumFunctionOnSet(Charges, {} \cup {e})
      BY <2>3
    <3> QED BY <3>1, <3>2, <3>3
  <2>5. SumFunctionOnSet(Writes, T) = Writes[e] /\ SumFunctionOnSet(Hours, T) = Hours[e]
    <3>1. /\ SumFunctionOnSet(Writes, {}) = 0 /\ SumFunctionOnSet(Hours, {}) = 0
          /\ SumFunctionOnSet(Writes, {} \cup {e}) = SumFunctionOnSet(Writes, {}) + Writes[e]
          /\ SumFunctionOnSet(Hours, {} \cup {e}) = SumFunctionOnSet(Hours, {}) + Hours[e]
      BY <2>3, CounterSums DEF RequestInv
    <3>2. Writes[e] \in Nat /\ Hours[e] \in Nat
      BY <1>3, <2>3
    <3>3. /\ SumFunctionOnSet(Writes, T) = SumFunctionOnSet(Writes, {} \cup {e})
          /\ SumFunctionOnSet(Hours, T) = SumFunctionOnSet(Hours, {} \cup {e})
      BY <2>3
    <3> QED BY <3>1, <3>2, <3>3
  <2>6. row.write = tokens[e].write
        /\ Reported(row.write1h) = Least(Reported(tokens[e].write1h), tokens[e].write)
    BY <1>2, <1>3, <2>3, <2>5
  <2>7. Least(Reported(row.write1h), row.write)
          = Least(Reported(tokens[e].write1h), tokens[e].write)
    BY <1>2, <2>6 DEF Least
  <2>8. Cost(m, row) = Cost(m, tokens[e])
    BY <2>6, <2>7 DEF Cost
  <2> QED BY <2>3, <2>4, <2>8 DEF ChargesOf
<1> QED BY <1>6, <1>7

LEMMA RollupPriceIs ==
    ASSUME RequestInv, by = "model", NEW row, NEW M, M = MembersOf(row.key), M # {},
           Holds(row, M), SumFunctionOnSet(Writes, M) <= MaxCount
    PROVE  \/ ~RollupPrice(row).tieredAggregate =>
                Reported(RollupPrice(row).usd) = ChargesOf(row)
           \/ /\ mode = "auto"
              /\ \E e, f \in row.events : recorded[e] = Null /\ recorded[f] # Null
<1> DEFINE m == row.key.of
           carried == RecordedOf(row)
           price == RollupPrice(row)
<1>1. row.events = M /\ M \subseteq Events
  BY DEF Holds, MembersOf
<1>2. \A e \in M : model[e] = m
  BY DEF MembersOf, RollupKey, Key
<1>3. /\ carried = Null \/ carried \in Nat
      /\ carried = Null <=> \A e \in M : recorded[e] = Null
      /\ (\A e \in M : Charge(e) = IF recorded[e] = Null THEN 0 ELSE recorded[e])
           => Reported(carried) = ChargesOf(row)
  BY <1>1, CarriedSums
<1>4. ASSUME \A e \in M : Charge(e) = Cost(m, tokens[e]),
             m \notin Tiered \/ Cardinality(M) <= 1
      PROVE  Cost(m, row) = ChargesOf(row)
  BY <1>1, <1>4, CalculatedSums
<1>5. Cost(m, row) \in Nat
  <2>1. /\ row.write = SumFunctionOnSet(Writes, M)
        /\ Reported(row.write1h) = SumFunctionOnSet(Hours, M)
    BY DEF Holds
  <2>2. row.write \in Nat /\ Reported(row.write1h) \in Nat
    BY <1>1, <2>1, CounterSums DEF RequestInv
  <2> QED BY <2>2 DEF Cost, Least
<1>6. Cardinality(M) \in Nat
  <2>1. IsFiniteSet(M)
    BY <1>1, PriceAssumption, FS_Subset
  <2> QED BY <2>1, FS_CardinalityType
<1>7. \A n \in Nat : Reported(n) = n
  BY BlockAssumption DEF Reported
<1>8. mode \in {"calculate", "display", "auto"}
  BY DEF RequestInv, Modes
<1> HIDE DEF carried, price
<1>9. CASE mode = "display"
  <2>1. \A e \in M : Charge(e) = IF recorded[e] = Null THEN 0 ELSE recorded[e]
    BY <1>9 DEF Charge
  <2>2. price.usd = Reported(carried)
    BY <1>9 DEF price, RollupPrice, carried
  <2>3. Reported(carried) \in Nat
    BY <1>3, <1>7 DEF Reported
  <2>4. Reported(price.usd) = ChargesOf(row)
    BY <1>3, <1>7, <2>1, <2>2, <2>3
  <2> QED BY <2>4 DEF price
<1>10. CASE mode = "calculate"
  <2>1. CASE m \in Priced
    <3>1. \A e \in M : Charge(e) = Cost(m, tokens[e])
      BY <1>2, <1>10, <2>1 DEF Charge, IsPriced
    <3>2. price.usd = Cost(m, row)
      BY <1>10, <2>1 DEF price, RollupPrice
    <3>3. ~price.tieredAggregate => m \notin Tiered \/ Cardinality(M) <= 1
      BY <1>1, <1>6, <1>10, <2>1 DEF price, RollupPrice
    <3>4. ~price.tieredAggregate => Reported(price.usd) = ChargesOf(row)
      BY <1>4, <1>5, <1>7, <3>1, <3>2, <3>3
    <3> QED BY <3>4 DEF price
  <2>2. CASE m \notin Priced
    <3>1. \A e \in M : Charge(e) = 0
      BY <1>2, <1>10, <2>2 DEF Charge, IsPriced
    <3>2. price.usd = Null
      BY <1>10, <2>2 DEF price, RollupPrice
    <3>3. ChargesOf(row) = 0
      <4>1. IsFiniteSet(M) /\ \A e \in M : Charges[e] = 0
        BY <1>1, <3>1, PriceAssumption, FS_Subset, ChargeNat
      <4> QED BY <1>1, <4>1, SumOfZeros DEF ChargesOf
    <3>4. Reported(price.usd) = ChargesOf(row)
      BY <3>2, <3>3 DEF Reported
    <3> QED BY <3>4 DEF price
  <2> QED BY <2>1, <2>2
<1>11. CASE mode = "auto"
  <2> SUFFICES ASSUME \/ \A e \in M : recorded[e] = Null
                      \/ \A e \in M : recorded[e] # Null
               PROVE  ~price.tieredAggregate => Reported(price.usd) = ChargesOf(row)
    BY <1>1, <1>11 DEF price
  <2>1. CASE \A e \in M : recorded[e] # Null
    <3>1. \A e \in M : Charge(e) = IF recorded[e] = Null THEN 0 ELSE recorded[e]
      BY <1>11, <2>1 DEF Charge
    <3>2. carried # Null /\ carried \in Nat
      BY <1>3, <2>1
    <3>3. price.usd = carried
      BY <1>11, <3>2 DEF price, RollupPrice, carried
    <3> QED BY <1>3, <3>1, <3>2, <3>3
  <2>2. CASE \A e \in M : recorded[e] = Null
    <3>1. carried = Null
      BY <1>3, <2>2
    <3>2. CASE m \in Priced
      <4>1. \A e \in M : Charge(e) = Cost(m, tokens[e])
        BY <1>2, <1>11, <2>2, <3>2 DEF Charge, IsPriced
      <4>2. price.usd = Cost(m, row)
        BY <1>11, <3>1, <3>2 DEF price, RollupPrice, carried
      <4>3. ~price.tieredAggregate => m \notin Tiered \/ Cardinality(M) <= 1
        BY <1>1, <1>6, <1>11, <3>1, <3>2 DEF price, RollupPrice, carried
      <4> QED BY <1>4, <1>5, <1>7, <4>1, <4>2, <4>3
    <3>3. CASE m \notin Priced
      <4>1. \A e \in M : Charge(e) = IF recorded[e] = Null THEN 0 ELSE recorded[e]
        BY <1>2, <1>11, <2>2, <3>3 DEF Charge, IsPriced
      <4>2. price.usd = carried
        BY <1>11, <3>3 DEF price, RollupPrice, carried
      <4> QED BY <1>3, <4>1, <4>2
    <3> QED BY <3>2, <3>3
  <2> QED BY <2>1, <2>2
<1> QED BY <1>8, <1>9, <1>10, <1>11

LEMMA PriceRollupsStep ==
    ASSUME RequestInv, RowsInv, PriceRollups
    PROVE  RollupPricedInv'
<1>1. /\ by = "model" /\ pending = {} /\ UNCHANGED <<request, input>>
      /\ pending' = pending /\ rows' = rows
      /\ rollupPrices' = [i \in DOMAIN rows |-> RollupPrice(rows[i])]
  BY DEF PriceRollups, vars
<1>2. by' = by /\ mode' = mode /\ recorded' = recorded /\ Charges' = Charges /\ Writes' = Writes
  BY <1>1, SameRequest
<1>3. DOMAIN rows = {} \/ KeyedRows
  BY <1>1 DEF RowsInv
<1>4. ASSUME NEW i \in DOMAIN rows,
             SumFunctionOnSet(Writes, rows[i].events) <= MaxCount
      PROVE  \/ ~rollupPrices'[i].tieredAggregate =>
                  Reported(rollupPrices'[i].usd) = ChargesOf(rows[i])
             \/ /\ mode = "auto"
                /\ \E e, f \in rows[i].events : recorded[e] = Null /\ recorded[f] # Null
  <2>1. rollupPrices'[i] = RollupPrice(rows[i])
    BY <1>1
  <2>2. MembersOf(rows[i].key) # {} /\ Holds(rows[i], MembersOf(rows[i].key))
    BY <1>3 DEF KeyedRows
  <2>3. SumFunctionOnSet(Writes, MembersOf(rows[i].key)) <= MaxCount
    BY <1>4, <2>2 DEF Holds
  <2> QED BY <1>1, <2>1, <2>2, <2>3, RollupPriceIs
<1>5. DOMAIN rollupPrices' = DOMAIN rows
  BY <1>1
<1>6. ASSUME WritesFit', NEW i \in DOMAIN rollupPrices'
      PROVE  (\/ RollupPriceAgrees(i)
              \/ /\ mode = "auto"
                 /\ \E e, f \in rows[i].events : recorded[e] = Null /\ recorded[f] # Null)'
  <2>1. SumFunctionOnSet(Writes, rows[i].events) <= MaxCount
    BY <1>1, <1>2, <1>5, <1>6 DEF WritesFit
  <2>2. RollupPriceAgrees(i)' <=> (~rollupPrices'[i].tieredAggregate =>
                                    Reported(rollupPrices'[i].usd) = ChargesOf(rows[i]))
    BY <1>1, <1>2 DEF RollupPriceAgrees, ChargesOf, Reported
  <2> QED BY <1>1, <1>2, <1>4, <1>5, <2>1, <2>2
<1>7. by' = "model" /\ pending' = {}
  BY <1>1, <1>2
<1> QED BY <1>6, <1>7 DEF RollupPricedInv, RollupPricesAgreeUnlessPartlyRecorded

LEMMA RollupPricesKept ==
    ASSUME RollupPricedInv, UNCHANGED <<request, input, rollupPrices>>,
           rollupPrices # <<>> => UNCHANGED <<pending, rows>>
    PROVE  RollupPricedInv'
<1>1. by' = by /\ mode' = mode /\ recorded' = recorded /\ Charges' = Charges /\ Writes' = Writes
      /\ rollupPrices' = rollupPrices
  BY SameRequest
<1>2. CASE rollupPrices = <<>>
  <2>1. rollupPrices' = <<>> /\ DOMAIN rollupPrices' = {}
    BY <1>1, <1>2
  <2> QED BY <2>1 DEF RollupPricedInv, RollupPricesAgreeUnlessPartlyRecorded
<1>3. CASE rollupPrices # <<>>
  <2>1. rows' = rows /\ pending' = pending
    BY <1>3
  <2>2. WritesFit' <=> WritesFit
    BY <1>1, <2>1 DEF WritesFit
  <2>3. RollupPricesAgreeUnlessPartlyRecorded' <=> RollupPricesAgreeUnlessPartlyRecorded
    BY <1>1, <2>1 DEF RollupPricesAgreeUnlessPartlyRecorded, RollupPriceAgrees,
                      ChargesOf, Reported
  <2> QED BY <1>1, <2>1, <2>2, <2>3 DEF RollupPricedInv
<1> QED BY <1>2, <1>3

-----------------------------------------------------------------------------
(***************************************************************************)
(* The invariant of the pricing, and the properties it implies.            *)
(***************************************************************************)
LEMMA PriceInitially == PriceInit => PInv
<1> SUFFICES ASSUME PriceInit PROVE PInv
  OBVIOUS
<1>1. /\ Init /\ unpriced = Events /\ groups = NoGroups /\ decisions = <<>>
      /\ rollupPrices = <<>> /\ pending = Events /\ rows = <<>>
  BY DEF PriceInit, Init
<1>2. RequestInv
  BY <1>1 DEF PriceInit, Init, RequestInv
<1>3. RowsInv
  BY <1>1, Initially DEF RowsInv
<1>4. GroupsInv
  BY <1>1 DEF GroupsInv, NoGroups
<1>5. DOMAIN decisions = {} /\ DOMAIN rollupPrices = {}
  BY <1>1
<1>6. DecidedInv
  BY <1>1, <1>5 DEF DecidedInv, RowPricedByItsEvents, TierExposureFlagged
<1>7. RollupPricedInv
  BY <1>1, <1>5 DEF RollupPricedInv, RollupPricesAgreeUnlessPartlyRecorded
<1> QED BY <1>2, <1>3, <1>4, <1>6, <1>7 DEF PInv

LEMMA RequestKept ==
    ASSUME RequestInv, UNCHANGED <<request, input>>, unpriced' \subseteq unpriced
    PROVE  RequestInv'
BY DEF RequestInv, request, input, Modes

LEMMA PInvKept == PInv /\ [PriceNext]_allVars => PInv'
<1> SUFFICES ASSUME PInv, [PriceNext]_allVars PROVE PInv'
  OBVIOUS
<1> USE DEF PInv
<1>1. CASE RollupBlocks
  <2>1. /\ by = "block" /\ Next
        /\ UNCHANGED <<request, unpriced, groups, decisions, rollupPrices>>
    BY <1>1 DEF RollupBlocks
  <2>2. UNCHANGED <<request, input, unpriced, groups, decisions, rollupPrices>>
    BY <2>1 DEF Next, OpenBlock, JoinBlock, OpenInvalid, JoinInvalid
  <2>3. pending # {}
    BY <2>1 DEF Next, OpenBlock, JoinBlock, OpenInvalid, JoinInvalid, Reached
  <2>4. RequestInv'
    BY <2>2, RequestKept
  <2>5. RowsInv'
    BY <2>1, IInvKept DEF RowsInv, request
  <2>6. GroupsInv'
    BY <2>2, GroupsKept
  <2>7. DecidedInv'
    BY <2>2, <2>3, DecidedKept DEF DecidedInv
  <2>8. RollupPricedInv'
    BY <2>2, <2>3, RollupPricesKept DEF RollupPricedInv
  <2> QED BY <2>4, <2>5, <2>6, <2>7, <2>8
<1>2. CASE RollupKeyed
  <2>1. /\ pending # {}
        /\ UNCHANGED <<request, input, unpriced, groups, decisions, rollupPrices>>
    BY <1>2 DEF RollupKeyed
  <2>2. RequestInv'
    BY <2>1, RequestKept
  <2>3. RowsInv'
    BY <1>2, RollupKeyedStep
  <2>4. GroupsInv'
    BY <2>1, GroupsKept
  <2>5. DecidedInv'
    BY <2>1, DecidedKept DEF DecidedInv
  <2>6. RollupPricedInv'
    BY <2>1, RollupPricesKept DEF RollupPricedInv
  <2> QED BY <2>2, <2>3, <2>4, <2>5, <2>6
<1>3. ASSUME NEW e \in Events, PriceEvent(e) PROVE PInv'
  <2>1. /\ e \in unpriced /\ unpriced' = unpriced \ {e}
        /\ UNCHANGED <<vars, request, decisions, rollupPrices>>
    BY <1>3 DEF PriceEvent
  <2>2. UNCHANGED <<request, input, pending, rows>>
    BY <2>1 DEF vars
  <2>3. RequestInv'
    BY <2>1, <2>2, RequestKept
  <2>4. RowsInv'
    BY <2>1, RowsKept
  <2>5. GroupsInv'
    BY <1>3, PriceEventStep
  <2>6. DecidedInv'
    BY <2>1, <2>2, DecidedKept DEF DecidedInv
  <2>7. RollupPricedInv'
    BY <2>1, <2>2, RollupPricesKept
  <2> QED BY <2>3, <2>4, <2>5, <2>6, <2>7
<1>4. CASE Decide
  <2>1. UNCHANGED <<vars, request, unpriced, groups, rollupPrices>>
    BY <1>4 DEF Decide
  <2>2. UNCHANGED <<request, input, pending, rows, unpriced>>
    BY <2>1 DEF vars
  <2>3. RequestInv'
    BY <2>2, RequestKept
  <2>4. RowsInv'
    BY <2>1, RowsKept
  <2>5. GroupsInv'
    BY <2>1, <2>2, GroupsKept
  <2>6. DecidedInv'
    BY <1>4, DecideStep
  <2>7. RollupPricedInv'
    BY <2>1, <2>2, RollupPricesKept
  <2> QED BY <2>3, <2>4, <2>5, <2>6, <2>7
<1>5. CASE PriceRollups
  <2>1. UNCHANGED <<vars, request, unpriced, groups, decisions>>
    BY <1>5 DEF PriceRollups
  <2>2. UNCHANGED <<request, input, pending, rows, unpriced>>
    BY <2>1 DEF vars
  <2>3. RequestInv'
    BY <2>2, RequestKept
  <2>4. RowsInv'
    BY <2>1, RowsKept
  <2>5. GroupsInv'
    BY <2>1, <2>2, GroupsKept
  <2>6. DecidedInv'
    BY <2>1, <2>2, DecidedKept
  <2>7. RollupPricedInv'
    BY <1>5, PriceRollupsStep
  <2> QED BY <2>3, <2>4, <2>5, <2>6, <2>7
<1>6. CASE UNCHANGED allVars
  <2>1. UNCHANGED <<vars, request, unpriced, groups, decisions, rollupPrices>>
    BY <1>6 DEF allVars
  <2>2. UNCHANGED <<request, input, pending, rows, unpriced>>
    BY <2>1 DEF vars
  <2>3. RequestInv'
    BY <2>2, RequestKept
  <2>4. RowsInv'
    BY <2>1, RowsKept
  <2>5. GroupsInv'
    BY <2>1, <2>2, GroupsKept
  <2>6. DecidedInv'
    BY <2>1, <2>2, DecidedKept
  <2>7. RollupPricedInv'
    BY <2>1, <2>2, RollupPricesKept
  <2> QED BY <2>3, <2>4, <2>5, <2>6, <2>7
<1> QED BY <1>1, <1>2, <1>3, <1>4, <1>5, <1>6 DEF PriceNext

LEMMA PInvCorrect == PriceSpec => []PInv
BY PriceInitially, PInvKept, PTL DEF PriceSpec

\* A row's price is that of the events it counts, for every number of events,
\* every order of them, and every key they are rolled up by.
THEOREM RowsPricedByTheirEvents == PriceSpec => []RowPricedByItsEvents
<1>1. PInv => RowPricedByItsEvents
  BY DEF PInv, DecidedInv
<1> QED BY <1>1, PInvCorrect, PTL

\* An aggregate whose calls may each have been billed at another tier is
\* flagged, and nothing else is.
THEOREM TierExposureIsFlagged == PriceSpec => []TierExposureFlagged
<1>1. PInv => TierExposureFlagged
  BY DEF PInv, DecidedInv
<1> QED BY <1>1, PInvCorrect, PTL

\* The price of a row's sums is the sum of its events' prices, but for tiers
\* and costs that only some events carry, as long as its sums do not saturate:
\* a row whose writes pass u64::MAX is billed for fewer than it holds.
THEOREM RollupPricesAgreeWithEvents ==
    PriceSpec => [](WritesFit => RollupPricesAgreeUnlessPartlyRecorded)
<1>1. PInv => (WritesFit => RollupPricesAgreeUnlessPartlyRecorded)
  BY DEF PInv, RollupPricedInv
<1> QED BY <1>1, PInvCorrect, PTL
=============================================================================
