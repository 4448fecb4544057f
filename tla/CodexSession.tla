---------------------------- MODULE CodexSession ----------------------------
(***************************************************************************)
(* The Codex reader: read_codex and read_session_file of readers/codex.rs. *)
(* A session file is a list of lines, some of which report token usage as  *)
(* running totals, as the usage of the last call, or as both.  A session   *)
(* may repeat its totals, restart them from zero, and be forked or resumed *)
(* as another file that begins with a copy of the first one's lines, their *)
(* timestamps unchanged.  The reader turns usage lines into events and     *)
(* skips those whose timestamp and snapshot it has seen in another file.   *)
(*                                                                         *)
(* The actions Session... are Codex itself (external): they write the      *)
(* files one after the other, which loses no history, because a fork may   *)
(* copy any prefix of an earlier file.  The others are the reader, one     *)
(* line a step, over the files in any order, for a session that was        *)
(* archived is read after the forks that are not.                          *)
(***************************************************************************)
EXTENDS Integers, Sequences, FiniteSets

CONSTANTS
    NumFiles,       \* session files, numbered
    MaxLines,       \* bound on the lines of a file
    MaxWritten,     \* bound on the lines written, copies aside
    Kinds,          \* the token counters of a snapshot
    Amounts,        \* what one call may use of each
    Contexts,       \* what a turn_context names: a model, or Null
    Restarts,       \* whether totals may restart: a set of Booleans
    MaxMalformed,   \* bound on the lines that do not parse
    Null

Models == Contexts \ {Null}

Counts == [Kinds -> Nat]
Zero == [k \in Kinds |-> 0]
Plus(a, b) == [k \in Kinds |-> a[k] + b[k]]

Files == 1..NumFiles

ASSUME CodexAssumption ==
    /\ NumFiles \in Nat /\ MaxLines \in Nat /\ MaxWritten \in Nat
    /\ Amounts \subseteq Counts \ {Zero}
    /\ Restarts \subseteq BOOLEAN
    /\ MaxMalformed \in Nat
    /\ Null \notin Counts /\ Null \notin Files

VARIABLES
    lines,              \* the lines of each file
    withTotals,         \* this Codex reports running totals
    withLast,           \* this Codex reports the usage of the last call
    written,            \* lines written so far
    writing,            \* the file being written; none are left above NumFiles
    unread,             \* the files read_codex has not opened
    file, at,           \* the file being read, or Null, and the line
    model,              \* the model in force, or Null
    previous,           \* the totals last seen in the file, or Null
    afterUserInput,
    preContextEvents,
    pending,            \* the file's events, until its end is reached
    fileReplayKeys,
    seenReplayKeys,
    events,             \* what read_codex returns
    skipped, malformed, \* what is reported as skipped: the files, the lines
    warned              \* files reported as losing early events

history == <<lines, withTotals, withLast, written, writing>>
fileState == <<model, previous, afterUserInput, preContextEvents, pending, fileReplayKeys>>
result == <<seenReplayKeys, events, skipped, malformed, warned>>
vars == <<history, unread, file, at, fileState, result>>

-----------------------------------------------------------------------------
(***************************************************************************)
(* Codex.  A call is known by the place its usage was first written, which *)
(* also is the instant of that line.  visible tells a restart of the       *)
(* totals from a call that happened to add up to as much; spent is all     *)
(* that the session has used, restarts or not, with this call.             *)
(***************************************************************************)
Context(m) == [type |-> "turn_context", model |-> m]
User == [type |-> "user"]

Call == [id : Files \X Nat, amount : Counts, spent : Counts,
         answers : BOOLEAN, visible : BOOLEAN]
UsageLine == [type : {"usage"}, time : Files \X Nat, call : Call,
              totals : Counts \cup {Null}, last : Counts \cup {Null}]

UsageIn(s) == {i \in DOMAIN s : s[i].type = "usage"}
LastUsage(s) == CHOOSE i \in UsageIn(s) : \A j \in UsageIn(s) : j <= i

\* The totals the process that wrote s has reached.
Running(s) ==
    IF UsageIn(s) = {} \/ ~withTotals THEN Zero ELSE s[LastUsage(s)].totals

Spent(s) == IF UsageIn(s) = {} THEN Zero ELSE s[LastUsage(s)].call.spent

\* A user input that no call has followed.
Asked(s) ==
    \E i \in DOMAIN s : /\ s[i] = User
                        /\ \A j \in UsageIn(s) : j > i => s[j].time # s[j].call.id

Restarted(before, after) == \E k \in Kinds : after[k] < before[k]

Room == /\ writing \in Files /\ written < MaxWritten
        /\ Len(lines[writing]) < MaxLines

Write(line) ==
    /\ lines' = [lines EXCEPT ![writing] = Append(@, line)]
    /\ written' = written + 1
    /\ UNCHANGED <<withTotals, withLast, writing, unread, file, at, fileState, result>>

\* A context or a user message that only repeats the line before it changes
\* nothing for the reader, and is left out.
Says(line) == lines[writing] # <<>> /\ lines[writing][Len(lines[writing])] = line

SessionContext(m) ==
    /\ Room /\ ~Says(Context(m))
    /\ Write(Context(m))

SessionUser ==
    /\ Room /\ ~Says(User)
    /\ Write(User)

SessionCall(amount, restart) ==
    /\ Room
    /\ restart => withTotals
    /\ LET s == lines[writing]
           here == <<writing, Len(s) + 1>>
           after == IF restart THEN amount ELSE Plus(Running(s), amount)
       IN  /\ restart => UsageIn(s) # {}
           /\ Write(
                [type |-> "usage", time |-> here,
                 call |-> [id |-> here, amount |-> amount,
                           spent |-> Plus(Spent(s), amount), answers |-> Asked(s),
                           visible |-> restart => Restarted(Running(s), after)],
                 totals |-> IF withTotals THEN after ELSE Null,
                 last |-> IF withLast THEN amount ELSE Null])

\* The totals are written again, as after a rate-limit update.
SessionRepeat ==
    /\ Room /\ withTotals
    /\ LET s == lines[writing]
       IN  /\ UsageIn(s) # {}
           /\ Write([s[LastUsage(s)] EXCEPT !.time = <<writing, Len(s) + 1>>])

\* The file continues an earlier one; the copies need not say the last usage.
CopyOf(line, keepsLast) ==
    IF line.type = "usage" /\ withTotals /\ ~keepsLast
    THEN [line EXCEPT !.last = Null] ELSE line

SessionFork(g, n, keepsLast) ==
    /\ writing \in Files /\ g < writing
    /\ n \in 1..Len(lines[g])
    /\ \A i \in DOMAIN lines[writing] : lines[writing][i].type = "turn_context"
    /\ Len(lines[writing]) + n <= MaxLines
    /\ LET copied == [i \in 1..n |-> CopyOf(lines[g][i], keepsLast)]
       IN  lines' = [lines EXCEPT ![writing] = @ \o copied]
    /\ UNCHANGED <<withTotals, withLast, written, writing, unread, file, at, fileState, result>>

SessionEnd ==
    /\ writing \in Files
    /\ writing' = writing + 1
    /\ UNCHANGED <<lines, withTotals, withLast, written, unread, file, at, fileState, result>>

-----------------------------------------------------------------------------
Advanced(current, before) == \A k \in Kinds : current[k] >= before[k]
Delta(current, before) == [k \in Kinds |-> current[k] - before[k]]

Snapshot(line) == IF line.totals # Null THEN line.totals ELSE line.last

\* Mutation: the key is the session's own.
ReplayKeyOfSession(line) == <<file, line.time, Snapshot(line)>>

ReplayKey(line) == <<line.time, Snapshot(line)>>

IsReplay(line) == ReplayKey(line) \in seenReplayKeys

\* The totals say what they said before.
Stale(line) == line.totals # Null /\ line.totals = previous

\* What the totals add, which is all of them when they step back.
Derived(totals) ==
    IF previous = Null \/ ~Advanced(totals, previous) THEN totals
    ELSE Delta(totals, previous)

\* What a line reports, or Null.
Tokens(line) ==
    LET reported == IF line.last # Null THEN line.last ELSE Derived(line.totals)
    IN  IF Stale(line) \/ reported = Zero THEN Null ELSE reported

\* Mutation: a replayed line leaves no trace.
PreviousAfterUnlessReplay(line) ==
    IF line.totals = Null \/ IsReplay(line) THEN previous ELSE line.totals

PreviousAfter(line) == IF line.totals = Null THEN previous ELSE line.totals

\* Mutation: the turn waits for a line that is counted.
TurnPendingAfterCounted(line) == afterUserInput /\ (IsReplay(line) \/ Tokens(line) = Null)

\* Whatever the line came to, it ends the wait for the user's turn.
TurnPendingAfter(line) == FALSE

Line == lines[file][at]
Reading == file # Null /\ at <= Len(lines[file])

OpenFile(f) ==
    /\ writing > NumFiles /\ file = Null /\ f \in unread
    /\ unread' = unread \ {f}
    /\ file' = f /\ at' = 1
    /\ model' = Null /\ previous' = Null /\ afterUserInput' = FALSE
    /\ preContextEvents' = 0 /\ pending' = <<>> /\ fileReplayKeys' = {}
    /\ UNCHANGED <<history, result>>

\* The file cannot be read: it is reported, and the next one is tried.
OpenFails(f) ==
    /\ writing > NumFiles /\ file = Null /\ f \in unread
    /\ unread' = unread \ {f}
    /\ skipped' = skipped \cup {f}
    /\ UNCHANGED <<history, file, at, fileState, seenReplayKeys, events, malformed, warned>>

\* A line does not parse: it is reported, and the next one is taken.
ReadMalformed ==
    /\ Reading /\ Cardinality(malformed) < MaxMalformed
    /\ at' = at + 1
    /\ malformed' = malformed \cup {<<file, at>>}
    /\ UNCHANGED <<history, unread, file, fileState, seenReplayKeys, events, skipped, warned>>

ReadContext ==
    /\ Reading /\ Line.type = "turn_context"
    /\ model' = IF Line.model = Null THEN model ELSE Line.model
    /\ at' = at + 1
    /\ UNCHANGED <<history, unread, file, previous, afterUserInput,
                   preContextEvents, pending, fileReplayKeys, result>>

ReadUser ==
    /\ Reading /\ Line.type = "user"
    /\ afterUserInput' = TRUE
    /\ at' = at + 1
    /\ UNCHANGED <<history, unread, file, model, previous, preContextEvents,
                   pending, fileReplayKeys, result>>

Event(line) == [call |-> line.call, place |-> <<file, at>>, tokens |-> Tokens(line),
                turn |-> afterUserInput, model |-> model]

ReadUsage ==
    /\ Reading /\ Line.type = "usage"
    /\ LET counts == ~IsReplay(Line) /\ Tokens(Line) # Null
       IN  /\ preContextEvents' = IF counts /\ model = Null
                                  THEN preContextEvents + 1 ELSE preContextEvents
           /\ pending' = IF counts /\ model # Null
                         THEN Append(pending, Event(Line)) ELSE pending
    /\ fileReplayKeys' = fileReplayKeys \cup {ReplayKey(Line)}
    /\ previous' = PreviousAfter(Line)
    /\ afterUserInput' = TurnPendingAfter(Line)
    /\ at' = at + 1
    /\ UNCHANGED <<history, unread, file, model, result>>

Finished == file # Null /\ at > Len(lines[file])

\* Mutation: the keys of a file without a model are remembered.
EndWithoutModelKept ==
    /\ Finished /\ model = Null
    /\ skipped' = skipped \cup {file}
    /\ file' = Null
    /\ seenReplayKeys' = seenReplayKeys \cup fileReplayKeys
    /\ UNCHANGED <<history, unread, at, fileState, events, malformed, warned>>

\* A file that never names its model yields nothing, and nothing of it is
\* remembered, so that a later copy which does is counted.
EndWithoutModel ==
    /\ Finished /\ model = Null
    /\ skipped' = skipped \cup {file}
    /\ file' = Null
    /\ UNCHANGED <<history, unread, at, fileState, seenReplayKeys, events, malformed, warned>>

EndFile ==
    /\ Finished /\ model # Null
    /\ warned' = IF preContextEvents > 0 THEN warned \cup {file} ELSE warned
    /\ seenReplayKeys' = IF pending = <<>> THEN seenReplayKeys
                         ELSE seenReplayKeys \cup fileReplayKeys
    /\ events' = events \o pending
    /\ file' = Null
    /\ UNCHANGED <<history, unread, at, fileState, skipped, malformed>>

Init ==
    /\ lines = [f \in Files |-> <<>>]
    /\ withTotals \in BOOLEAN /\ withLast \in BOOLEAN /\ (withTotals \/ withLast)
    /\ written = 0
    /\ writing = 1
    /\ unread = Files
    /\ file = Null /\ at = 1
    /\ model = Null /\ previous = Null /\ afterUserInput = FALSE
    /\ preContextEvents = 0 /\ pending = <<>> /\ fileReplayKeys = {}
    /\ seenReplayKeys = {} /\ events = <<>> /\ skipped = {} /\ malformed = {} /\ warned = {}

Session ==
    \/ \E m \in Contexts : SessionContext(m)
    \/ SessionUser
    \/ \E amount \in Amounts, restart \in Restarts : SessionCall(amount, restart)
    \/ SessionRepeat
    \/ \E g \in Files, n \in 1..MaxLines, keepsLast \in BOOLEAN :
            SessionFork(g, n, keepsLast)
    \/ SessionEnd

Reader ==
    \/ \E f \in Files : OpenFile(f) \/ OpenFails(f)
    \/ ReadMalformed \/ ReadContext \/ ReadUser \/ ReadUsage
    \/ EndWithoutModel \/ EndFile

Next == Session \/ Reader

Spec == Init /\ [][Next]_vars

-----------------------------------------------------------------------------
(***************************************************************************)
(* Properties.                                                             *)
(***************************************************************************)
\* The usage lines of a file from the last one before i that parsed, it
\* excluded, to i: line i alone, if none in between was malformed.
Since(f, i) ==
    {j \in UsageIn(lines[f]) :
        /\ j <= i
        /\ \A k \in UsageIn(lines[f]) : j <= k /\ k < i => <<f, k>> \in malformed}

\* The line that first reported the call is malformed, or one directly before.
Garbled(f, id) ==
    \E i \in UsageIn(lines[f]) :
        /\ lines[f][i].time = id
        /\ \E j \in Since(f, i) : <<f, j>> \in malformed

\* The event is of a line that repeats its call's own, which is malformed.
OfRepeat(e) == lines[e.place[1]][e.place[2]].time # e.call.id

\* However often a session was forked, resumed or archived, and in whatever
\* order its files are read, no call becomes two events, unless one of them is
\* of repeated totals, because the call's own line in that file is malformed.
CallsCountedOnce ==
    \A i, j \in DOMAIN events :
        i # j /\ events[i].call.id = events[j].call.id
            => OfRepeat(events[i]) \/ OfRepeat(events[j])

ReadBefore(f, i) == {j \in UsageIn(lines[f]) : j < i /\ <<f, j>> \notin malformed}

\* No event charges more of any counter than the session used since a usage
\* line that was read before it: than its own call used, if the line before is
\* not malformed.  This also after copied lines, repeated totals and totals
\* that restarted.
NeverOvercounted ==
    \A i \in DOMAIN events : \A k \in Kinds :
        LET e == events[i]
            f == e.place[1]
        IN  /\ e.tokens[k] <= e.call.spent[k]
            /\ \A j \in ReadBefore(f, e.place[2]) :
                    e.tokens[k] <= e.call.spent[k] - lines[f][j].call.spent[k]

\* An event is a turn only if its call answered a user input when it was made,
\* or one did whose line just before is malformed, or it repeats a call whose
\* own line is; the input before a copied call is not taken for the one before
\* the next.
TurnsAreReal ==
    \A i \in DOMAIN events :
        events[i].turn =>
            \/ OfRepeat(events[i])
            \/ \E j \in Since(events[i].place[1], events[i].place[2]) :
                    lines[events[i].place[1]][j].call.answers

Holding(id) ==
    {f \in Files : \E i \in UsageIn(lines[f]) : lines[f][i].call.id = id}

\* Once all is read, a call in a file that was not skipped has its exact event,
\* unless a file that holds it was warned of losing events before its model was
\* known, or has the call's line or the usage line before it malformed, or the
\* totals restarted in a way that no reader could notice.
NoSilentLoss ==
    (unread = {} /\ file = Null) =>
        \A f \in Files \ skipped : \A i \in UsageIn(lines[f]) :
            LET call == lines[f][i].call
            IN  (call.visible /\ Holding(call.id) \cap warned = {}
                    /\ \A g \in Holding(call.id) : ~Garbled(g, call.id)) =>
                    \E e \in DOMAIN events : /\ events[e].call.id = call.id
                                             /\ events[e].tokens = call.amount
=============================================================================
