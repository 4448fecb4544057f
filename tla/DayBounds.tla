----------------------------- MODULE DayBounds -----------------------------
(***************************************************************************)
(* Reading a range of days: parse_bound, zoned_midnight and the filter     *)
(* loop of read_usage (skopli-wire's read.rs), and their TypeScript        *)
(* originals toTime, zonedMidnight and readUsage (read.ts), against the    *)
(* day_key of rollup.rs that the events are later grouped by.              *)
(*                                                                         *)
(* A zone has the two offsets before and after the one transition that is  *)
(* near the days asked for.  Rust resolves a midnight with the zone's own  *)
(* rules (the jiff library, external); TypeScript can only ask for the     *)
(* offset at an instant, and samples three.  One step is one iteration of  *)
(* the filter loop.                                                        *)
(***************************************************************************)
EXTENDS Integers

CONSTANTS
    Events,         \* the events the readers return
    Instants,       \* instants of events, and of bounds that are not days
    Days,           \* the days asked for; day d begins at d * Day in UTC
    Day,            \* DAY_MS
    Zones,
    Unparsed,       \* a timestamp or a bound that does not parse
    Null            \* no bound

NoBound == [kind |-> "none"]
DayBound(d) == [kind |-> "day", of |-> d]
InstantBound(t) == [kind |-> "instant", of |-> t]
Blank == [kind |-> "blank"]
Garbage == [kind |-> "garbage"]

Bounds == {NoBound, Blank, Garbage} \cup {DayBound(d) : d \in Days}
            \cup {InstantBound(t) : t \in Instants}

ASSUME DayAssumption ==
    /\ Instants \subseteq Int /\ Unparsed \notin Int /\ Null \notin Int \cup {Unparsed}
    /\ Days \subseteq Int /\ Day \in Nat \ {0}

\* No offset is as long as a day, and no clock is moved by more than one.
ASSUME ZoneAssumption ==
    \A z \in Zones : /\ z.before \in Int /\ z.after \in Int /\ z.moves \in Int
                     /\ -Day < z.before /\ z.before < Day
                     /\ -Day < z.after /\ z.after < Day
                     /\ z.after - z.before \in -Day..Day

VARIABLES
    impl,               \* "rust" or "ts"
    zone,
    since, until,       \* the bounds as given
    excludeSubagents,
    at, subagent,       \* the events
    unread,             \* events the filter has not reached
    kept,               \* events returned
    dropped,            \* events reported for their timestamp
    failed              \* the request was rejected

request == <<impl, zone, since, until, excludeSubagents, at, subagent>>
vars == <<request, unread, kept, dropped, failed>>

-----------------------------------------------------------------------------
OffsetAt(t) == IF t < zone.moves THEN zone.before ELSE zone.after
Local(t) == t + OffsetAt(t)

\* Instants at which the wall clock of the zone shows wall.
Showing(wall) == {t \in {wall - zone.before, wall - zone.after} : Local(t) = wall}

Earliest(instants) == CHOOSE t \in instants : \A u \in instants : t <= u
Latest(instants) == CHOOSE t \in instants : \A u \in instants : u <= t

\* Rust: the first of them, or, in a gap, the offset in force before it.
ZonedMidnightRust(wall) ==
    IF Showing(wall) # {} THEN Earliest(Showing(wall)) ELSE wall - zone.before

\* TypeScript: every offset seen a day before, then, and a day after.
Candidates(wall) == {wall - OffsetAt(t) : t \in {wall - Day, wall, wall + Day}}

\* Mutation: an ambiguous midnight takes its last occurrence.
ZonedMidnightLast(wall) == Latest(Candidates(wall))

ZonedMidnightTs(wall) ==
    LET valid == {c \in Candidates(wall) : Local(c) = wall}
    IN  IF valid # {} THEN Earliest(valid) ELSE Latest(Candidates(wall))

Midnight(d) ==
    IF impl = "rust" THEN ZonedMidnightRust(d * Day) ELSE ZonedMidnightTs(d * Day)

\* Mutation: a day ends a fixed time after it begins.
BoundFixedDay(bound, exclusiveEnd) ==
    CASE bound.kind = "day"     -> Midnight(bound.of) + (IF exclusiveEnd THEN Day ELSE 0)
      [] bound.kind = "instant" -> bound.of
      [] bound.kind = "garbage" -> Unparsed
      [] bound.kind = "blank"   -> IF impl = "rust" THEN Null ELSE Unparsed
      [] OTHER                  -> Null

\* A bound as an instant, Null, or Unparsed; an empty string is no bound to
\* parse_bound and no date to toTime.
Bound(bound, exclusiveEnd) ==
    CASE bound.kind = "day"     -> Midnight(IF exclusiveEnd THEN bound.of + 1 ELSE bound.of)
      [] bound.kind = "instant" -> bound.of
      [] bound.kind = "garbage" -> Unparsed
      [] bound.kind = "blank"   -> IF impl = "rust" THEN Null ELSE Unparsed
      [] OTHER                  -> Null

SinceMs == Bound(since, FALSE)
UntilMs == Bound(until, TRUE)

Rejects == SinceMs = Unparsed \/ UntilMs = Unparsed

\* Mutation: an event at the exclusive end is kept.
InRangeClosed(t) ==
    /\ SinceMs # Null => t >= SinceMs
    /\ UntilMs # Null => t <= UntilMs

InRange(t) ==
    /\ SinceMs # Null => t >= SinceMs
    /\ UntilMs # Null => t < UntilMs

Init ==
    /\ impl \in {"rust", "ts"}
    /\ zone \in Zones
    /\ since \in Bounds /\ until \in Bounds
    /\ excludeSubagents \in BOOLEAN
    /\ at \in [Events -> Instants \cup {Unparsed}]
    /\ subagent \in [Events -> BOOLEAN]
    /\ unread = Events /\ kept = {} /\ dropped = {} /\ failed = FALSE

Reject ==
    /\ Rejects /\ ~failed
    /\ failed' = TRUE
    /\ UNCHANGED <<request, unread, kept, dropped>>

DropUnparsed(e) ==
    /\ ~Rejects /\ e \in unread
    /\ at[e] = Unparsed
    /\ dropped' = dropped \cup {e}
    /\ unread' = unread \ {e}
    /\ UNCHANGED <<request, kept, failed>>

Filter(e) ==
    /\ ~Rejects /\ e \in unread
    /\ at[e] # Unparsed
    /\ kept' = IF InRange(at[e]) /\ ~(excludeSubagents /\ subagent[e])
               THEN kept \cup {e} ELSE kept
    /\ unread' = unread \ {e}
    /\ UNCHANGED <<request, dropped, failed>>

Next == Reject \/ \E e \in Events : DropUnparsed(e) \/ Filter(e)

Spec == Init /\ [][Next]_vars

-----------------------------------------------------------------------------
(***************************************************************************)
(* Properties.                                                             *)
(***************************************************************************)

\* The day a rollup puts the instant in.
DayKey(t) == Local(t) \div Day

\* The transition carries the clock across the midnight before day d, from one
\* side to the other.
Straddled(d) ==
    \/ zone.moves + zone.after < d * Day /\ d * Day < zone.moves + zone.before
    \/ zone.moves + zone.before < d * Day /\ d * Day < zone.moves + zone.after

\* A range of days keeps exactly the events whose day, as rollup computes it,
\* is in the range: date filtering and day rollups agree on where a calendar
\* day begins, through midnights that do not exist or happen twice and days
\* that are skipped or repeated, but for a midnight that is straddled: the day
\* then begins in two places, and the filter can know only one.
DayFilterAgrees ==
    (/\ since.kind = "day" /\ until.kind = "day" /\ since.of <= until.of
     /\ ~Straddled(since.of) /\ ~Straddled(until.of + 1)) =>
        \A e \in Events \ unread :
            at[e] # Unparsed =>
                (e \in kept <=> /\ DayKey(at[e]) \in since.of..until.of
                                /\ ~(excludeSubagents /\ subagent[e]))

\* Sampling three offsets finds the midnight that the zone's own rules give.
TwinsAgree ==
    \A d \in Days : ZonedMidnightRust(d * Day) = ZonedMidnightTs(d * Day)

\* Reading one day after the other reads every event once: a day ends where the
\* next one begins, however long it is, and not before it begins.
DaysFollow ==
    \A d \in Days : d + 1 \in Days =>
        /\ Bound(DayBound(d), TRUE) = Bound(DayBound(d + 1), FALSE)
        /\ Bound(DayBound(d), FALSE) <= Bound(DayBound(d), TRUE)

=============================================================================
