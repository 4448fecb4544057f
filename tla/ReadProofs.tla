----------------------------- MODULE ReadProofs -----------------------------
(***************************************************************************)
(* What a reading promises of an event: which days it is on, and what its  *)
(* token counts are.                                                       *)
(*                                                                         *)
(* Of DayBounds, for every zone, day length and set of events: the two     *)
(* ways to resolve a midnight agree, days follow each other, and reading a *)
(* range of days, neither end of which is straddled by a transition, keeps *)
(* the events that a rollup puts on those days.                            *)
(*                                                                         *)
(* Of TokenBuckets: "Token buckets are disjoint after normalization, so    *)
(* summing them gives total tokens" (coverage.mdx:30): whatever a call     *)
(* spends, and wherever its harness counts it, the reader's buckets are    *)
(* what was spent.                                                         *)
(***************************************************************************)
EXTENDS DayBounds, TokenBuckets, TLAPS

-----------------------------------------------------------------------------
LEMMA EarliestIs ==
    ASSUME NEW S, S \subseteq Int, NEW t \in S, \A u \in S : t <= u
    PROVE  Earliest(S) = t
<1>1. Earliest(S) \in S /\ \A u \in S : Earliest(S) <= u
    BY DEF Earliest
<1>2. Earliest(S) <= t /\ t <= Earliest(S)
    BY <1>1
<1>3. Earliest(S) \in Int /\ t \in Int
    BY <1>1
<1> QED
    BY <1>2, <1>3

LEMMA LatestIs ==
    ASSUME NEW S, S \subseteq Int, NEW t \in S, \A u \in S : u <= t
    PROVE  Latest(S) = t
<1>1. Latest(S) \in S /\ \A u \in S : u <= Latest(S)
    BY DEF Latest
<1>2. Latest(S) <= t /\ t <= Latest(S)
    BY <1>1
<1>3. Latest(S) \in Int /\ t \in Int
    BY <1>1
<1> QED
    BY <1>2, <1>3

\* A zone's fields, and how they relate to the length of a day.
LEMMA ZoneFields ==
    ASSUME zone \in Zones
    PROVE  /\ zone.before \in Int /\ zone.after \in Int /\ zone.moves \in Int
           /\ Day \in Nat \ {0}
           /\ -Day < zone.before /\ zone.before < Day
           /\ -Day < zone.after /\ zone.after < Day
           /\ zone.after - zone.before <= Day /\ zone.before - zone.after <= Day
<1>1. /\ zone.before \in Int /\ zone.after \in Int /\ zone.moves \in Int
      /\ -Day < zone.before /\ zone.before < Day
      /\ -Day < zone.after /\ zone.after < Day
      /\ zone.after - zone.before \in -Day..Day
    BY ZoneAssumption
<1>2. Day \in Nat \ {0}
    BY DayAssumption
<1> QED
    BY <1>1, <1>2

\* Where the day that begins at wall on the wall clock begins: by the clock
\* before the transition if that shows wall, else by the one after it, and by
\* the one before it if neither does.
Begins(wall) ==
    IF wall - zone.before < zone.moves \/ wall - zone.after < zone.moves
    THEN wall - zone.before ELSE wall - zone.after

LEMMA ShowingIs ==
    ASSUME zone \in Zones, NEW wall \in Int
    PROVE  /\ Showing(wall) \subseteq Int
           /\ Showing(wall) # {} => Earliest(Showing(wall)) = Begins(wall)
           /\ Showing(wall) = {} => /\ zone.moves <= wall - zone.before
                                    /\ wall - zone.after < zone.moves
<1> DEFINE b == zone.before
           a == zone.after
           m == zone.moves
<1>0. b \in Int /\ a \in Int /\ m \in Int
    BY ZoneFields
<1>1. \A t : t \in Showing(wall) <=> \/ t = wall - b /\ (t < m \/ a = b)
                                     \/ t = wall - a /\ (t >= m \/ a = b)
    <2>1. \A t \in Int : Local(t) = t + (IF t < m THEN b ELSE a)
        BY DEF Local, OffsetAt
    <2>2. \A t : t \in Showing(wall) <=> t \in {wall - b, wall - a} /\ Local(t) = wall
        BY DEF Showing
    <2>3. wall - b \in Int /\ wall - a \in Int
        BY <1>0
    <2> HIDE DEF b, a, m
    <2> QED
        BY <1>0, <2>1, <2>2, <2>3
<1>2. Begins(wall) = IF wall - b < m \/ wall - a < m THEN wall - b ELSE wall - a
    BY DEF Begins
<1> HIDE DEF b, a, m
<1>3. Showing(wall) \subseteq Int
    BY <1>0, <1>1
<1>4. ASSUME Showing(wall) = {} PROVE m <= wall - b /\ wall - a < m
    BY <1>0, <1>1, <1>4
<1>5. ASSUME Showing(wall) # {} PROVE Earliest(Showing(wall)) = Begins(wall)
    <2>1. Begins(wall) \in Showing(wall)
        BY <1>0, <1>1, <1>2, <1>5
    <2>2. \A u \in Showing(wall) : Begins(wall) <= u
        BY <1>0, <1>1, <1>2
    <2> QED
        BY <1>3, <2>1, <2>2, EarliestIs
<1> QED
    BY <1>3, <1>4, <1>5 DEF a, b, m

\* The zone's own rules.
LEMMA RustBegins ==
    ASSUME zone \in Zones, NEW wall \in Int
    PROVE  ZonedMidnightRust(wall) = Begins(wall)
<1>1. CASE Showing(wall) # {}
    BY <1>1, ShowingIs DEF ZonedMidnightRust
<1>2. CASE Showing(wall) = {}
    <2>1. wall - zone.after < zone.moves
        BY <1>2, ShowingIs
    <2> QED
        BY <1>2, <2>1 DEF ZonedMidnightRust, Begins
<1> QED
    BY <1>1, <1>2

\* The three samples see an offset whenever it matters.
LEMMA TsBegins ==
    ASSUME zone \in Zones, NEW wall \in Int
    PROVE  ZonedMidnightTs(wall) = Begins(wall)
<1> DEFINE b == zone.before
           a == zone.after
           m == zone.moves
           valid == {c \in Candidates(wall) : Local(c) = wall}
<1>0. /\ b \in Int /\ a \in Int /\ m \in Int /\ Day \in Int /\ 0 < Day
      /\ -Day < b /\ b < Day /\ -Day < a /\ a < Day
    BY ZoneFields
<1>1. \A c : c \in Candidates(wall) <=>
            \/ c = wall - (IF wall - Day < m THEN b ELSE a)
            \/ c = wall - (IF wall < m THEN b ELSE a)
            \/ c = wall - (IF wall + Day < m THEN b ELSE a)
    BY DEF Candidates, OffsetAt
<1>2. \A t : t \in Showing(wall) <=> t \in {wall - b, wall - a} /\ Local(t) = wall
    BY DEF Showing
<1>3. \A t \in Int : Local(t) = t + (IF t < m THEN b ELSE a)
    BY DEF Local, OffsetAt
<1>4. Begins(wall) = IF wall - b < m \/ wall - a < m THEN wall - b ELSE wall - a
    BY DEF Begins
<1>5. ZonedMidnightTs(wall) =
        IF valid # {} THEN Earliest(valid) ELSE Latest(Candidates(wall))
    BY DEF ZonedMidnightTs
<1>6. \A c : c \in valid <=> c \in Candidates(wall) /\ Local(c) = wall
    OBVIOUS
<1> HIDE DEF a, b, m, valid
<1>7. \A t : t \in Showing(wall) => t \in valid
    BY <1>0, <1>1, <1>2, <1>3, <1>6
<1>8. \A t : t \in valid => t \in Showing(wall)
    BY <1>0, <1>1, <1>2, <1>6
<1>9. valid = Showing(wall)
    BY <1>7, <1>8
<1>10. CASE Showing(wall) # {}
    BY <1>5, <1>9, <1>10, ShowingIs
<1>11. CASE Showing(wall) = {}
    <2>1. m <= wall - b /\ wall - a < m
        BY <1>11, ShowingIs DEF a, b, m
    <2>2. wall - b \in Candidates(wall)
        BY <1>0, <1>1, <2>1
    <2>3. Candidates(wall) \subseteq Int
        BY <1>0, <1>1
    <2>4. \A c \in Candidates(wall) : c <= wall - b
        BY <1>0, <1>1, <2>1
    <2>5. Latest(Candidates(wall)) = wall - b
        BY <2>2, <2>3, <2>4, LatestIs
    <2> QED
        BY <1>4, <1>5, <1>9, <1>11, <2>1, <2>5
<1> QED
    BY <1>10, <1>11

LEMMA MidnightBegins ==
    ASSUME zone \in Zones, NEW d \in Int
    PROVE  Midnight(d) = Begins(d * Day) /\ Midnight(d) \in Int
<1>1. d * Day \in Int
    BY ZoneFields
<1>2. ZonedMidnightRust(d * Day) = Begins(d * Day)
    BY <1>1, RustBegins
<1>3. ZonedMidnightTs(d * Day) = Begins(d * Day)
    BY <1>1, TsBegins
<1>4. Begins(d * Day) \in Int
    BY <1>1, ZoneFields DEF Begins
<1> QED
    BY <1>2, <1>3, <1>4 DEF Midnight

\* Later days begin no earlier.
LEMMA BeginsAscend ==
    ASSUME zone \in Zones, NEW wall \in Int
    PROVE  Begins(wall) <= Begins(wall + Day)
BY ZoneFields DEF Begins

\* Unless the midnight before it is straddled, the instants from the beginning of a
\* day on are those whose wall clock shows that day or a later one.
LEMMA FromMidnightOn ==
    ASSUME zone \in Zones, NEW d \in Int, ~Straddled(d), NEW t \in Int
    PROVE  t >= Begins(d * Day) <=> Local(t) >= d * Day
<1> DEFINE wall == d * Day
<1>1. wall \in Int
    BY ZoneFields
<1>2. /\ ~(zone.moves + zone.after < wall /\ wall < zone.moves + zone.before)
      /\ ~(zone.moves + zone.before < wall /\ wall < zone.moves + zone.after)
    BY DEF Straddled
<1> HIDE DEF wall
<1>3. t >= Begins(wall) <=> Local(t) >= wall
    BY <1>1, <1>2, ZoneFields DEF Begins, Local, OffsetAt
<1> QED
    BY <1>3 DEF wall

LEMMA Product ==
    ASSUME NEW a \in Int, NEW b \in Int, NEW n \in Nat \ {0}, a <= b
    PROVE  a * n <= b * n
OBVIOUS

\* Division, as the comparison it stands for.
LEMMA DivisionBounds ==
    ASSUME NEW n \in Int, NEW k \in Int, NEW D \in Nat \ {0}
    PROVE  n \div D >= k <=> n >= k * D
<1> DEFINE q == n \div D
<1>1. q \in Int
    OBVIOUS
<1>2. q * D <= n /\ n < (q + 1) * D
    OBVIOUS
<1> HIDE DEF q
<1>3. CASE k <= q
    <2>1. k * D <= q * D
        BY <1>1, <1>3, Product
    <2>2. k * D \in Int /\ q * D \in Int
        BY <1>1
    <2> QED
        BY <1>1, <1>2, <1>3, <2>1, <2>2 DEF q
<1>4. CASE k >= q + 1
    <2>1. (q + 1) * D <= k * D
        BY <1>1, <1>4, Product
    <2>2. k * D \in Int /\ (q + 1) * D \in Int
        BY <1>1
    <2> QED
        BY <1>1, <1>2, <1>4, <2>1, <2>2 DEF q
<1> QED
    BY <1>1, <1>3, <1>4

LEMMA LocalIsInt ==
    ASSUME zone \in Zones, NEW t \in Int
    PROVE  Local(t) \in Int
BY ZoneFields DEF Local, OffsetAt

\* The days of a rollup, as a range of instants.
LEMMA DaysAsInstants ==
    ASSUME zone \in Zones, NEW first \in Int, NEW last \in Int, NEW t \in Int,
           ~Straddled(first), ~Straddled(last + 1)
    PROVE  DayKey(t) \in first..last <=>
                t >= Midnight(first) /\ t < Midnight(last + 1)
<1>1. Local(t) \in Int /\ Day \in Nat \ {0}
    BY LocalIsInt, ZoneFields
<1>2. DayKey(t) \in Int
    BY <1>1 DEF DayKey
<1>3. DayKey(t) >= first <=> Local(t) >= first * Day
    BY <1>1, DivisionBounds DEF DayKey
<1>4. DayKey(t) >= last + 1 <=> Local(t) >= (last + 1) * Day
    BY <1>1, DivisionBounds DEF DayKey
<1>5. t >= Midnight(first) <=> Local(t) >= first * Day
    BY FromMidnightOn, MidnightBegins
<1>6. t >= Midnight(last + 1) <=> Local(t) >= (last + 1) * Day
    BY FromMidnightOn, MidnightBegins
<1>7. Midnight(last + 1) \in Int
    BY MidnightBegins
<1> QED
    BY <1>2, <1>3, <1>4, <1>5, <1>6, <1>7

-----------------------------------------------------------------------------
\* The types, as the proofs use them.
Typed ==
    /\ zone \in Zones
    /\ since \in Bounds /\ until \in Bounds
    /\ at \in [Events -> Instants \cup {Unparsed}]
    /\ unread \subseteq Events

\* What the filter has decided so far, which is what makes DayFilterAgrees
\* inductive: an event that was read is kept exactly if it is in the range.
Decided ==
    /\ kept \cap unread = {}
    /\ \A e \in Events \ unread : at[e] # Unparsed =>
            (e \in kept <=> InRange(at[e]) /\ ~(excludeSubagents /\ subagent[e]))

IInv == Typed /\ Decided

LEMMA IInvCorrect == Spec => []IInv
<1>1. Init => IInv
    BY DEF Init, IInv, Typed, Decided
<1>2. IInv /\ [Next]_vars => IInv'
    <2> SUFFICES ASSUME IInv, [Next]_vars PROVE IInv'
        OBVIOUS
    <2> USE DEF IInv
    <2>1. ASSUME request' = request
          PROVE  /\ zone' = zone /\ since' = since /\ until' = until /\ at' = at
                 /\ excludeSubagents' = excludeSubagents /\ subagent' = subagent
                 /\ \A t : InRange(t)' <=> InRange(t)
        BY <2>1 DEF request, InRange, SinceMs, UntilMs, Bound, Midnight,
                    ZonedMidnightRust, ZonedMidnightTs, Showing, Candidates,
                    Local, OffsetAt
    <2>2. CASE Reject
        <3>1. request' = request /\ unread' = unread /\ kept' = kept
            BY <2>2 DEF Reject
        <3> QED
            BY <2>1, <3>1 DEF Typed, Decided
    <2>3. ASSUME NEW e \in Events, DropUnparsed(e) PROVE IInv'
        <3>1. /\ request' = request /\ kept' = kept
              /\ unread' = unread \ {e} /\ at[e] = Unparsed
            BY <2>3 DEF DropUnparsed
        <3> QED
            BY <2>1, <3>1 DEF Typed, Decided
    <2>4. ASSUME NEW e \in Events, Filter(e) PROVE IInv'
        <3>1. /\ request' = request /\ unread' = unread \ {e} /\ e \in unread
              /\ kept' = IF InRange(at[e]) /\ ~(excludeSubagents /\ subagent[e])
                         THEN kept \cup {e} ELSE kept
            BY <2>4 DEF Filter
        <3>2. Typed'
            BY <2>1, <3>1 DEF Typed
        <3>3. (kept \cap unread)' = {}
            BY <3>1 DEF Decided
        <3>4. ASSUME NEW f \in Events, f \notin unread', at'[f] # Unparsed
              PROVE  f \in kept' <=> (InRange(at[f]) /\ ~(excludeSubagents /\ subagent[f]))'
            <4>1. f \in kept' <=> InRange(at[f]) /\ ~(excludeSubagents /\ subagent[f])
                BY <2>1, <3>1, <3>4 DEF Decided
            <4>2. InRange(at[f])' <=> InRange(at[f])
                BY <2>1, <3>1
            <4> QED
                BY <2>1, <3>1, <4>1, <4>2
        <3>5. Decided'
            BY <3>3, <3>4 DEF Decided
        <3> QED
            BY <3>2, <3>5
    <2>5. CASE UNCHANGED vars
        <3>1. request' = request /\ unread' = unread /\ kept' = kept
            BY <2>5 DEF vars
        <3> QED
            BY <2>1, <3>1 DEF Typed, Decided
    <2> QED
        BY <2>2, <2>3, <2>4, <2>5 DEF Next
<1> QED
    BY <1>1, <1>2, PTL DEF Spec

\* The TypeScript facade, which can only sample offsets, and the Rust core,
\* which has the zone's rules, resolve every date to the same instant: for any
\* transition of up to a day, wherever it falls.
THEOREM TwinsAlwaysAgree == Spec => []TwinsAgree
<1>1. IInv => TwinsAgree
    <2> SUFFICES ASSUME zone \in Zones, NEW d \in Days
                 PROVE  ZonedMidnightRust(d * Day) = ZonedMidnightTs(d * Day)
        BY DEF IInv, Typed, TwinsAgree
    <2>1. d * Day \in Int
        BY ZoneFields, DayAssumption
    <2> QED
        BY <2>1, RustBegins, TsBegins
<1> QED
    BY <1>1, IInvCorrect, PTL

LEMMA BoundOfDay ==
    ASSUME NEW d \in Int
    PROVE  /\ Bound(DayBound(d), FALSE) = Midnight(d)
           /\ Bound(DayBound(d), TRUE) = Midnight(d + 1)
BY DEF Bound, DayBound

\* Every instant belongs to one day of a reader that asks day by day: a day
\* ends where the next begins, and not before it begins itself.
THEOREM DaysAlwaysFollow == Spec => []DaysFollow
<1>1. IInv => DaysFollow
    <2> SUFFICES ASSUME zone \in Zones, NEW d \in Days, d + 1 \in Days
                 PROVE  /\ Bound(DayBound(d), TRUE) = Bound(DayBound(d + 1), FALSE)
                        /\ Bound(DayBound(d), FALSE) <= Bound(DayBound(d), TRUE)
        BY DEF IInv, Typed, DaysFollow
    <2>1. d \in Int /\ d + 1 \in Int /\ Day \in Nat \ {0}
        BY DayAssumption
    <2>2. d * Day \in Int /\ (d + 1) * Day = d * Day + Day
        BY <2>1
    <2>3. Midnight(d) <= Midnight(d + 1)
        BY <2>1, <2>2, BeginsAscend, MidnightBegins
    <2> QED
        BY <2>1, <2>3, BoundOfDay
<1> QED
    BY <1>1, IInvCorrect, PTL

\* Date filtering and day rollups agree on every range of days whose ends are
\* not straddled, in every zone.
THEOREM DayFiltersAgree == Spec => []DayFilterAgrees
<1>1. IInv => DayFilterAgrees
    <2> SUFFICES ASSUME IInv, since.kind = "day", until.kind = "day",
                        ~Straddled(since.of), ~Straddled(until.of + 1),
                        NEW e \in Events \ unread, at[e] # Unparsed
                 PROVE  e \in kept <=> /\ DayKey(at[e]) \in since.of..until.of
                                      /\ ~(excludeSubagents /\ subagent[e])
        BY DEF DayFilterAgrees
    <2>1. PICK first \in Days : since = DayBound(first)
        BY DEF IInv, Typed, Bounds, NoBound, Blank, Garbage, DayBound, InstantBound
    <2>2. PICK last \in Days : until = DayBound(last)
        BY DEF IInv, Typed, Bounds, NoBound, Blank, Garbage, DayBound, InstantBound
    <2>3. first \in Int /\ last \in Int /\ at[e] \in Int
        BY DayAssumption DEF IInv, Typed
    <2>4. since.of = first /\ until.of = last
        BY <2>1, <2>2 DEF DayBound
    <2>5. SinceMs = Midnight(first) /\ UntilMs = Midnight(last + 1)
        BY <2>1, <2>2, <2>3, BoundOfDay DEF SinceMs, UntilMs
    <2>6. SinceMs \in Int /\ UntilMs \in Int
        BY <2>3, <2>5, MidnightBegins DEF IInv, Typed
    <2>7. InRange(at[e]) <=> at[e] >= SinceMs /\ at[e] < UntilMs
        BY <2>6, DayAssumption DEF InRange
    <2>8. DayKey(at[e]) \in first..last <=>
                at[e] >= Midnight(first) /\ at[e] < Midnight(last + 1)
        BY <2>3, <2>4, DaysAsInstants DEF IInv, Typed
    <2>9. e \in kept <=> InRange(at[e]) /\ ~(excludeSubagents /\ subagent[e])
        BY DEF IInv, Decided
    <2> QED
        BY <2>4, <2>5, <2>7, <2>8, <2>9
<1> QED
    BY <1>1, IInvCorrect, PTL

-----------------------------------------------------------------------------
(***************************************************************************)
(* Token buckets.                                                          *)
(***************************************************************************)
\* A number taken away from a sum that holds it leaves the rest.
LEMMA Taken == \A a, b \in Nat : Minus(a + b, b) = a /\ Minus(a, b) \in Nat
  BY DEF Minus

LEMMA Cut ==
  \A a, b \in Nat : Lesser(a, b) \in Nat /\ Lesser(a, b) <= a /\ Lesser(a, b) <= b
                    /\ (a <= b => Lesser(a, b) = a)
  BY DEF Lesser

\* The one number of a count that is there.
LEMMA There == \A n \in Nat : Or0({n}) = n /\ {n} # {}
  BY DEF Or0

-----------------------------------------------------------------------------
(***************************************************************************)
(* Every reader gives back what was spent.                                 *)
(***************************************************************************)

\* Codex, ZCode, Grok's unified log and Reasonix take the cached tokens out of
\* the input and the reasoning out of the output, each once.
THEOREM InclusiveTakenApart ==
  \A s \in Spent : s.tool = 0 =>
      /\ Codex(InclusiveLog(s)) = Due(s) /\ Zcode(InclusiveLog(s)) = Due(s)
      /\ s.write = 0 => /\ GrokUnified(InclusiveLog(s)) = Due(s)
                        /\ Reasonix(ReasonixLog(s)) = {Due(s)}
<1> SUFFICES ASSUME NEW s \in Spent, s.tool = 0
             PROVE  /\ Codex(InclusiveLog(s)) = Due(s) /\ Zcode(InclusiveLog(s)) = Due(s)
                    /\ s.write = 0 => /\ GrokUnified(InclusiveLog(s)) = Due(s)
                                      /\ Reasonix(ReasonixLog(s)) = {Due(s)}
    OBVIOUS
<1> DEFINE l == InclusiveLog(s)
<1>1. /\ s.fresh \in Nat /\ s.read \in Nat /\ s.write \in Nat
      /\ s.answer \in Nat /\ s.thought \in Nat
  BY DEF Spent
<1>2. /\ l.input = s.fresh + s.read + s.write /\ l.output = s.answer + s.thought
      /\ l.read = s.read /\ l.write = s.write /\ l.reasoning = s.thought
  BY DEF InclusiveLog
<1>3. Lesser(l.read, l.input) = s.read /\ Lesser(l.reasoning, l.output) = s.thought
  BY <1>1, <1>2 DEF Lesser
<1>4. /\ Minus(l.input, s.read + s.write) = s.fresh
      /\ Minus(Minus(l.input, s.read), s.write) = s.fresh
      /\ Minus(l.output, s.thought) = s.answer /\ l.output - s.thought = s.answer
  BY <1>1, <1>2 DEF Minus
<1>5. Due(s) = Buckets(s.fresh, s.answer, s.read, s.write, s.thought)
  BY <1>1 DEF Due
<1> HIDE DEF l
<1>6. Codex(l) = Due(s)
  BY <1>2, <1>3, <1>4, <1>5 DEF Codex, CodexUsage, SplitReasoning, Buckets
<1>7. Zcode(l) = Due(s)
  BY <1>2, <1>4, <1>5 DEF Zcode
<1>8. ASSUME s.write = 0 PROVE GrokUnified(l) = Due(s)
  <2>1. l.input - s.read = s.fresh
    BY <1>1, <1>2, <1>8
  <2> QED BY <1>2, <1>3, <1>4, <1>5, <1>8, <2>1 DEF GrokUnified
<1>9. ASSUME s.write = 0 PROVE Reasonix(ReasonixLog(s)) = {Due(s)}
  <2> DEFINE r == ReasonixLog(s)
  <2>1. /\ r.output = s.answer + s.thought /\ r.read = s.read /\ r.miss = s.fresh
        /\ r.reasoning = s.thought
    BY DEF ReasonixLog
  <2>2. r.output - r.reasoning = s.answer /\ ~(r.reasoning > r.output)
    BY <1>1, <2>1
  <2> HIDE DEF r
  <2>3. Reasonix(r) = {Due(s)}
    BY <1>5, <1>9, <2>1, <2>2 DEF Reasonix
  <2> QED BY <2>3 DEF r
<1> QED BY <1>6, <1>7, <1>8, <1>9 DEF l

\* Cline and jcode: the whole prompt is logged, and the cached part is taken
\* out of it once, whether the provider's own input had it or not.
THEOREM PromptTakenApart ==
  \A s \in Spent, any \in Nat : s.tool = 0 /\ s.thought = 0 =>
      /\ ClineCli(PromptLog(s)) = Due(s)
      /\ LET own == [PromptLog(s) EXCEPT !.input = any]
         IN  Jcode({s.fresh + s.read + s.write}, own) = Due(s)
<1> SUFFICES ASSUME NEW s \in Spent, NEW any \in Nat, s.tool = 0, s.thought = 0
             PROVE  /\ ClineCli(PromptLog(s)) = Due(s)
                    /\ Jcode({s.fresh + s.read + s.write},
                             [PromptLog(s) EXCEPT !.input = any]) = Due(s)
    OBVIOUS
<1> DEFINE l == PromptLog(s)
           own == [l EXCEPT !.input = any]
           prompt == s.fresh + s.read + s.write
<1>1. /\ s.fresh \in Nat /\ s.read \in Nat /\ s.write \in Nat /\ s.answer \in Nat
  BY DEF Spent
<1>2. /\ l.input = prompt /\ l.output = s.answer /\ l.read = s.read /\ l.write = s.write
      /\ own.output = s.answer /\ own.read = s.read /\ own.write = s.write
  BY DEF PromptLog
<1>3. Minus(prompt, s.read + s.write) = s.fresh /\ Minus(Minus(prompt, s.read), s.write) = s.fresh
  BY <1>1 DEF Minus
<1>4. Or0({prompt}) = prompt /\ {prompt} # {}
  BY <1>1, There
<1>5. Due(s) = Buckets(s.fresh, s.answer, s.read, s.write, 0)
  BY <1>1 DEF Due
<1> HIDE DEF l, own, prompt
<1>6. ClineCli(l) = Due(s)
  BY <1>2, <1>3, <1>5 DEF ClineCli
<1>7. Jcode({prompt}, own) = Due(s)
  BY <1>2, <1>3, <1>4, <1>5 DEF Jcode
<1> QED BY <1>6, <1>7 DEF l, own, prompt

\* Gemini: the total tells whether the input holds the cached tokens, and where
\* it cannot tell there are none.
THEOREM GeminiEitherWay ==
  \A s \in Spent, inclusive \in BOOLEAN : s.write = 0 =>
      GeminiTokens(GeminiLog(s, inclusive)) = Due(s)
<1> SUFFICES ASSUME NEW s \in Spent, NEW inclusive \in BOOLEAN, s.write = 0
             PROVE  GeminiTokens(GeminiLog(s, inclusive)) = Due(s)
    OBVIOUS
<1> DEFINE l == GeminiLog(s, inclusive)
<1>1. /\ s.fresh \in Nat /\ s.read \in Nat /\ s.answer \in Nat /\ s.thought \in Nat
      /\ s.tool \in Nat
  BY DEF Spent
<1>2. /\ l.input = (IF inclusive THEN s.fresh + s.read ELSE s.fresh)
      /\ l.output = s.answer /\ l.read = s.read /\ l.reasoning = s.thought /\ l.tool = s.tool
      /\ l.total = {s.fresh + s.read + s.answer + s.thought + s.tool}
  BY DEF GeminiLog
<1>3. \A m, n \in Nat : {m} = {n} <=> m = n
  OBVIOUS
<1>4. Due(s) = Buckets(s.fresh + s.tool, s.answer, s.read, 0, s.thought)
  BY DEF Due
<1> HIDE DEF l
<1>5. (IF GeminiInclusive(l) THEN l.input - Lesser(l.read, l.input) ELSE l.input) = s.fresh
  <2>1. CASE inclusive
    <3>1. l.input = s.fresh + s.read
      BY <1>2, <2>1
    <3>2. GeminiInclusive(l)
      BY <1>1, <1>2, <3>1 DEF GeminiInclusive
    <3>3. l.input - Lesser(l.read, l.input) = s.fresh
      BY <1>1, <1>2, <3>1 DEF Lesser
    <3> QED BY <3>2, <3>3
  <2>2. CASE ~inclusive
    <3>1. l.input = s.fresh
      BY <1>2, <2>2
    <3>2. GeminiInclusive(l) <=> s.read = 0
      BY <1>1, <1>2, <1>3, <3>1 DEF GeminiInclusive
    <3>3. s.read = 0 => l.input - Lesser(l.read, l.input) = s.fresh
      BY <1>1, <1>2, <3>1 DEF Lesser
    <3> QED BY <3>1, <3>2, <3>3
  <2> QED BY <2>1, <2>2
<1>6. GeminiTokens(l) = Due(s)
  BY <1>2, <1>4, <1>5 DEF GeminiTokens
<1> QED BY <1>6 DEF l

\* Grok: the total tells whether the output holds the reasoning; where there is
\* none it does.
THEOREM GrokEitherWay ==
  \A s \in Spent, inside, totalled \in BOOLEAN :
      s.write = 0 /\ s.tool = 0 /\ (totalled \/ inside) =>
          GrokLegacy(GrokLog(s, inside, totalled)) = Due(s)
<1> SUFFICES ASSUME NEW s \in Spent, NEW inside \in BOOLEAN, NEW totalled \in BOOLEAN,
                    s.write = 0, s.tool = 0, totalled \/ inside
             PROVE  GrokLegacy(GrokLog(s, inside, totalled)) = Due(s)
    OBVIOUS
<1> DEFINE l == GrokLog(s, inside, totalled)
           within == l.total = {} \/ l.total = {l.input + l.output}
<1>1. s.fresh \in Nat /\ s.read \in Nat /\ s.answer \in Nat /\ s.thought \in Nat
  BY DEF Spent
<1>2. /\ l.input = s.fresh + s.read
      /\ l.output = (IF inside THEN s.answer + s.thought ELSE s.answer)
      /\ l.read = s.read /\ l.reasoning = s.thought
      /\ l.total = (IF totalled THEN {s.fresh + s.read + s.answer + s.thought} ELSE {})
  BY DEF GrokLog
<1>3. Minus(l.input, l.read) = s.fresh
  BY <1>1, <1>2, Taken
<1>4. Due(s) = Buckets(s.fresh, s.answer, s.read, 0, s.thought)
  BY <1>1 DEF Due
<1>5. \A m, n \in Nat : {m} # {} /\ ({m} = {n} <=> m = n)
  OBVIOUS
<1> HIDE DEF l
<1>6. (IF within THEN Minus(l.output, l.reasoning) ELSE l.output) = s.answer
  <2>1. CASE inside
    <3>1. l.output = s.answer + s.thought
      BY <1>2, <2>1
    <3>2. s.fresh + s.read + s.answer + s.thought = l.input + l.output
      BY <1>1, <1>2, <3>1
    <3>3. within
      BY <1>2, <3>2
    <3>4. Minus(l.output, l.reasoning) = s.answer
      BY <1>1, <1>2, <3>1, Taken
    <3> QED BY <3>3, <3>4
  <2>2. CASE ~inside
    <3>1. l.output = s.answer /\ l.total = {s.fresh + s.read + s.answer + s.thought}
      BY <1>2, <2>2
    <3>2. /\ s.fresh + s.read + s.answer + s.thought \in Nat /\ l.input + l.output \in Nat
          /\ s.fresh + s.read + s.answer + s.thought = l.input + l.output => s.thought = 0
      BY <1>1, <1>2, <3>1
    <3>3. within => s.thought = 0
      BY <1>5, <3>1, <3>2
    <3>4. s.thought = 0 => Minus(l.output, l.reasoning) = s.answer
      BY <1>1, <1>2, <3>1 DEF Minus
    <3> QED BY <3>1, <3>3, <3>4
  <2> QED BY <2>1, <2>2
<1>7. GrokLegacy(l) = Due(s)
  BY <1>2, <1>3, <1>4, <1>6 DEF GrokLegacy
<1> QED BY <1>7 DEF l

\* Goose: the reasoning is what is left of the total.
THEOREM GooseTakenApart == \A s \in Spent : s.tool = 0 => Goose(GooseLog(s)) = Due(s)
<1> SUFFICES ASSUME NEW s \in Spent, s.tool = 0 PROVE Goose(GooseLog(s)) = Due(s)
    OBVIOUS
<1> DEFINE l == GooseLog(s)
           all == s.fresh + s.read + s.write + s.answer + s.thought
<1>1. /\ s.fresh \in Nat /\ s.read \in Nat /\ s.write \in Nat
      /\ s.answer \in Nat /\ s.thought \in Nat
  BY DEF Spent
<1>2. /\ l.input = s.fresh + s.read + s.write /\ l.output = s.answer
      /\ l.read = s.read /\ l.write = s.write /\ l.total = {all}
  BY DEF GooseLog
<1>3. Or0(l.total) = all /\ l.total # {}
  BY <1>1, <1>2, There
<1>4. Minus(l.input, l.read + l.write) = s.fresh
  BY <1>1, <1>2 DEF Minus
<1>5. Minus(all, s.fresh + s.answer + s.read + s.write) = s.thought
  BY <1>1 DEF Minus
<1>6. Due(s) = Buckets(s.fresh, s.answer, s.read, s.write, s.thought)
  BY <1>1 DEF Due
<1> HIDE DEF l, all
<1>7. Goose(l) = Due(s)
  BY <1>2, <1>3, <1>4, <1>5, <1>6 DEF Goose
<1> QED BY <1>7 DEF l

-----------------------------------------------------------------------------
(***************************************************************************)
(* What is counted whatever the log says.                                  *)
(***************************************************************************)

\* "output + reasoning reconstructs the raw figure" (reading.mdx:201): of Codex
\* and of Grok's unified log, also where the reasoning is said to exceed it.
\* Of Grok's log the buckets add up to all that was logged.
THEOREM OutputReconstructed ==
  \A l \in [input : Nat, output : Nat, read : Nat, write : Nat, reasoning : Nat] :
      /\ Codex(l).output + Codex(l).reasoning = l.output
      /\ GrokUnified(l).output + GrokUnified(l).reasoning = l.output
      /\ Total(GrokUnified(l)) = l.input + l.output
<1> SUFFICES ASSUME NEW l \in [input : Nat, output : Nat, read : Nat, write : Nat,
                               reasoning : Nat]
             PROVE  /\ Codex(l).output + Codex(l).reasoning = l.output
                    /\ GrokUnified(l).output + GrokUnified(l).reasoning = l.output
                    /\ Total(GrokUnified(l)) = l.input + l.output
    OBVIOUS
<1> DEFINE reasoning == Lesser(l.reasoning, l.output)
           read == Lesser(l.read, l.input)
<1>1. l.input \in Nat /\ l.output \in Nat /\ l.read \in Nat /\ l.reasoning \in Nat
  OBVIOUS
<1>2. reasoning \in Nat /\ reasoning <= l.output /\ read \in Nat /\ read <= l.input
  BY <1>1, Cut
<1>3. Codex(l).output = l.output - reasoning /\ Codex(l).reasoning = reasoning
  BY DEF Codex, CodexUsage, SplitReasoning, Buckets
<1>4. LET b == GrokUnified(l)
      IN  /\ b.input = l.input - read /\ b.output = l.output - reasoning
          /\ b.cacheRead = read /\ b.cacheWrite = 0 /\ b.reasoning = reasoning
  BY DEF GrokUnified, Buckets
<1> HIDE DEF reasoning, read
<1> QED BY <1>1, <1>2, <1>3, <1>4 DEF Total

\* Kimi: every token of a total that covers the counts is in a bucket, though
\* reasoning is taken for output where no output was counted.  Only then does
\* OpenClaw's reader look at the total, and it keeps it too.
THEOREM TotalKept ==
  \A s \in Spent, answer \in Nat : s.tool = 0 /\ answer \in {0, s.answer} =>
      /\ Total(Kimi(OtherLog(s, answer))) = Total(Due(s))
      /\ answer = 0 => Total(Openclaw(OtherLog(s, answer))) = Total(Due(s))
<1> SUFFICES ASSUME NEW s \in Spent, NEW answer \in Nat, s.tool = 0, answer \in {0, s.answer}
             PROVE  /\ Total(Kimi(OtherLog(s, answer))) = Total(Due(s))
                    /\ answer = 0 => Total(Openclaw(OtherLog(s, answer))) = Total(Due(s))
    OBVIOUS
<1> DEFINE l == OtherLog(s, answer)
           rest == Minus(l.total, Counted(l))
<1>1. /\ s.fresh \in Nat /\ s.read \in Nat /\ s.write \in Nat
      /\ s.answer \in Nat /\ s.thought \in Nat
  BY DEF Spent
<1>2. /\ l.input = s.fresh /\ l.output = answer /\ l.read = s.read /\ l.write = s.write
      /\ l.total = s.fresh + s.read + s.write + s.answer + s.thought
  BY DEF OtherLog
<1>3. rest = l.total - (l.input + l.output + l.read + l.write) /\ rest \in Nat
  BY <1>1, <1>2 DEF Minus, Counted
<1>4. Total(Due(s)) = l.total
  BY <1>1, <1>2 DEF Due, Buckets, Total
<1> HIDE DEF l, rest
<1>5. /\ l.input \in Nat /\ l.output \in Nat /\ l.read \in Nat /\ l.write \in Nat
      /\ l.total \in Nat
  BY <1>1, <1>2
<1>6. rest \in Nat /\ l.input + l.output + l.read + l.write + rest = l.total
  BY <1>3, <1>5
<1>7. ASSUME l.output = 0
      PROVE  Total(Kimi(l)) = Total(Due(s)) /\ Total(Openclaw(l)) = Total(Due(s))
  <2>1. /\ Kimi(l) = Buckets(l.input, rest, l.read, l.write, 0)
        /\ Openclaw(l) = Buckets(l.input, rest, l.read, l.write, 0)
    BY <1>7 DEF Kimi, Openclaw, rest
  <2>2. Total(Buckets(l.input, rest, l.read, l.write, 0)) = l.input + rest + l.read + l.write + 0
    BY DEF Total, Buckets
  <2>3. l.input + rest + l.read + l.write + 0 = l.total
    BY <1>5, <1>6, <1>7
  <2> QED BY <1>4, <2>1, <2>2, <2>3
<1>8. ASSUME l.output # 0 PROVE Total(Kimi(l)) = Total(Due(s))
  <2>1. Kimi(l) = Buckets(l.input, l.output, l.read, l.write, rest)
    BY <1>8 DEF Kimi, rest
  <2>2. Total(Buckets(l.input, l.output, l.read, l.write, rest))
          = l.input + l.output + l.read + l.write + rest
    BY DEF Total, Buckets
  <2> QED BY <1>4, <1>6, <2>1, <2>2
<1> QED BY <1>2, <1>7, <1>8 DEF l
=============================================================================
