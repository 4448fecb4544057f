----------------------------- MODULE StoreLanes -----------------------------
(***************************************************************************)
(* The readers of the harnesses that keep usage in two stores: OpenCode    *)
(* (and MiMo Code), ZCode, Cline, Devin, the Copilot CLI, DeepSeek         *)
(* Harness, Grok, Reasonix, Hermes and jcode, in readers/{opencode,zcode,  *)
(* cline,vscode_ext,devin,copilot,deepseek,grok,reasonix,hermes,jcode}.rs. *)
(* Each reads the store it trusts first and the other second, and what it  *)
(* found in the first decides what counts in the second: for OpenCode and  *)
(* DeepSeek a message seen in both, for Reasonix that there is a first,    *)
(* for the others a session with an event, or a file, in the first.        *)
(*                                                                         *)
(* A session is a script of entries, prompts and calls, and a store gives  *)
(* each entry a cell: "none" (not there), "zero" (there, its usage still   *)
(* zero), "good", "bad" (a record the reader cannot use); in Copilot's     *)
(* OTel files also "anon" (a record that names no session), in Devin's     *)
(* database "unnamed" (a usage without a model), and in Grok's updates     *)
(* "total" and "fell" (below).  One operator for the code that reads one   *)
(* store of one harness: from the store to the events, the entries         *)
(* reported in skipped, and the sessions whose mirror is to be ignored.    *)
(***************************************************************************)
EXTENDS Scripts

CONSTANTS
    File(_),    \* the name of a session's file: not a session id
    NoTitle

CellKinds == {"none", "zero", "good", "anon", "bad", "unnamed", "total", "fell"}
Store == [Entries -> CellKinds]
Holding(store, cells) == {e \in Calls : store[e] \in cells}
Written(store) == {e \in Entries : store[e] # "none"}

\* The session an event is filed under, the calls it counts, whether it was
\* built from usage and not from zeros, and its turn flag.
Event(store, sess, calls, full, turn) ==
    [from |-> store, sess |-> sess, calls |-> calls, full |-> full, turn |-> turn]

Reading(events, reported) ==
    [events |-> events, reported |-> reported,
     covered |-> {ev.sess : ev \in events}]

EachCall(store, calls, turn(_)) ==
    {Event(store, e[1], {e}, TRUE, turn(e)) : e \in calls}

PendingNeverSpent(store, counted, e) ==
    \E p \in Prompts \cap Written(store) : Precedes(p, e)

\* pending_turn: set by a prompt, spent by the next call that is counted.
Pending(store, counted, e) ==
    \E p \in Prompts \cap Written(store) :
        /\ Precedes(p, e)
        /\ \A f \in counted : ~ (Precedes(p, f) /\ Precedes(f, e))

-----------------------------------------------------------------------------
ZcodeDbMarkingZeros(db, together) ==
    LET rows == Holding(db, {"good"})
    IN  [events |-> EachCall("db", rows, LAMBDA e : \A f \in rows : ~Precedes(f, e)),
         reported |-> Holding(db, {"bad"}),
         covered |-> {e[1] : e \in Holding(db, {"zero", "good"})}]

\* ZCode's database has a row per call, which names its turn and the instant
\* it started: only the earliest of a turn starts it, or several that started
\* together.
ZcodeDb(db, together) ==
    LET rows == Holding(db, {"good"})
        Started(e) == IF together THEN 0 ELSE e[2]
        Earliest(e) ==
            /\ Prompted(e) # {}
            /\ \A f \in rows : /\ SameSession(e, f) /\ Prompted(f) # {}
                               /\ PromptOf(f) = PromptOf(e)
                               => Started(e) <= Started(f)
    IN  Reading(EachCall("db", rows, Earliest), Holding(db, {"bad"}))

ZcodeJsonl(mirror, covered) ==
    LET lines(cells) == {e \in Holding(mirror, cells) : e[1] \notin covered}
        Turn(e) == Pending(mirror, lines({"good"}), e)
    IN  Reading(EachCall("mirror", lines({"good"}), Turn), lines({"bad"}))

\* An unusable entry of a task file is passed over without a word.
ClineExt(db) ==
    Reading(EachCall("db", Holding(db, {"good"}), LAMBDA e : FALSE), {})

ClineCli(mirror, covered) ==
    LET rows == {e \in Holding(mirror, {"good"}) : e[1] \notin covered}
        Turn(e) == Pending(mirror, rows, e)
    IN  Reading(EachCall("mirror", rows, Turn), {})

\* Copilot's session state, and its OTel files, one record a request.
CopilotState(db) ==
    Reading(EachCall("db", Holding(db, {"good"}), LAMBDA e : FALSE),
            Holding(db, {"bad"}))

CopilotOtel(mirror, owned) ==
    LET named == {e \in Holding(mirror, {"good"}) : e[1] \notin owned}
        anon == Holding(mirror, {"anon"})
        Anonymous(e) == Event("mirror", File(e[1]), {e}, TRUE, FALSE)
        unnamed == IF owned = {} THEN {Anonymous(e) : e \in anon} ELSE {}
    IN  Reading(EachCall("mirror", named, LAMBDA e : FALSE) \cup unnamed,
                Holding(mirror, {"bad"}) \cup (IF owned = {} THEN {} ELSE anon))

-----------------------------------------------------------------------------
\* DeepSeek Harness's session logs, and its database, where an event is known
\* by its session and its number, if it is numbered.
DeepseekLog(db) ==
    Reading(EachCall("db", Holding(db, {"good"}), LAMBDA e : TRUE), Holding(db, {"bad"}))

DeepseekDb(mirror, numbered, seen) ==
    LET rows == Holding(mirror, {"good"}) \ (IF numbered THEN seen ELSE {})
    IN  Reading(EachCall("mirror", rows, LAMBDA e : TRUE), Holding(mirror, {"bad"}))

\* Grok's unified log tells how often the model was called for a prompt, or
\* it does not and each call starts a turn.  It passes over what it cannot use.
GrokUnified(db, counting) ==
    LET FirstOf(e) == \A f \in Calls : Precedes(f, e) => PromptOf(f) # PromptOf(e)
    IN  Reading(EachCall("db", Holding(db, {"good"}), LAMBDA e : counting => FirstOf(e)), {})

\* Grok's session updates tell the running total of a session as a call goes
\* on, and then the usage of a turn since it was last told: "good".  A "total" had
\* no usage; where a call "fell", the total was lower than the last, the
\* context having been compacted.  A record with neither is passed over.
Told(mirror) == Holding(mirror, {"good", "total", "fell"})
UsageTold(mirror) == Holding(mirror, {"good", "fell"})
Chunks(mirror) == Prompts \cap Written(mirror)
Fallen(mirror) == {e \in Holding(mirror, {"fell"}) : \E f \in Told(mirror) : Precedes(f, e)}

UpTo(c, e) == c = e \/ Precedes(c, e)

\* The ActiveTurn of the one is still that of the other: a prompt opens a turn,
\* and a total that fell.
SameTurn(mirror, e, f) ==
    /\ UpTo(e, f)
    /\ \A p \in Chunks(mirror) : ~(Precedes(e, p) /\ Precedes(p, f))
    /\ \A g \in Fallen(mirror) : ~(Precedes(e, g) /\ UpTo(g, f))

\* It was a prompt that opened the turn, or usage that no line came before.
Marked(mirror, e) ==
    \/ \E p \in Chunks(mirror) :
          Precedes(p, e) /\ \A g \in Fallen(mirror) : ~(Precedes(p, g) /\ UpTo(g, e))
    \/ e \in UsageTold(mirror) /\ \A f \in Chunks(mirror) \cup Told(mirror) : ~Precedes(f, e)

\* A line of usage counts the calls since the last, or since the prompt; the
\* first of its turn starts it.
Since(mirror, e) ==
    {c \in Calls : /\ UpTo(c, e)
                   /\ \A f \in Chunks(mirror) \cup UsageTold(mirror) :
                        Precedes(f, e) => Precedes(f, c)}

Fresh(mirror, e) == \A f \in UsageTold(mirror) : Precedes(f, e) => ~SameTurn(mirror, f, e)

UsageEvents(mirror) ==
    {Event("mirror", e[1], Since(mirror, e), TRUE, Marked(mirror, e) /\ Fresh(mirror, e)) :
        e \in UsageTold(mirror)}

UnusedOrNot(mirror, e) == TRUE

\* flush: a turn without usage is taken, as it closes, for what the total rose
\* by, from the last that was told before the turn to the last in it.
Closing(mirror, e) == \A f \in Told(mirror) : SameTurn(mirror, e, f) => f = e
Unused(mirror, e) == \A f \in UsageTold(mirror) : ~SameTurn(mirror, f, e)
Risen(mirror, e) ==
    {c \in Calls : /\ UpTo(c, e)
                   /\ \A f \in Told(mirror) :
                        Precedes(f, e) /\ ~SameTurn(mirror, f, e) => Precedes(f, c)}

FallbackEvents(mirror) ==
    {Event("mirror", e[1], Risen(mirror, e), TRUE, Marked(mirror, e)) :
        e \in {f \in Told(mirror) : Closing(mirror, f) /\ Unused(mirror, f)}}

\* append_signals_reconciliation: what signals.json has of a session beyond
\* what its updates gave, in tokens, a call's being a unit of them.
Signalled(signals, s) == {e \in signals : e[1] = s}
Extra(signals, counted, s) ==
    Cardinality(Signalled(signals, s))
        - Cardinality({x \in counted \X Calls : x[1].sess = s /\ x[2] \in x[1].calls})
Missing(signals, counted, s) ==
    Signalled(signals, s) \ UNION {ev.calls : ev \in {v \in counted : v.sess = s}}

SignalsEvents(mirror, signals, counted) ==
    LET full(s) == Cardinality(Missing(signals, counted, s)) = Extra(signals, counted, s)
    IN  {Event("mirror", s, Missing(signals, counted, s), full(s), FALSE) :
            s \in {r \in {e[1] : e \in Written(mirror)} : Extra(signals, counted, r) > 0}}

GrokLegacy(mirror, signals, covered) ==
    LET counted == UsageEvents(mirror) \cup FallbackEvents(mirror)
        all == counted \cup SignalsEvents(mirror, signals, counted)
    IN  Reading({ev \in all : ev.sess \notin covered}, {})

\* Reasonix's ledger has a file a day and names no session.
ReasonixStats(db) ==
    Reading({Event("db", File(e[1]), {e}, db[e] = "good", TRUE) : e \in Holding(db, {"zero", "good"})},
            Holding(db, {"bad"}))

LedgerExists(db) == Written(db) # {}

\* Its sidecars have a total a session; one unusable field spoils it.
ReasonixSidecars(mirror, ledger) ==
    LET InFile(s, cells) == {e \in Holding(mirror, cells) : e[1] = s}
        Valid(s) == InFile(s, {"bad"}) = {} /\ InFile(s, {"good"}) # {}
    IN  IF ledger THEN Reading({}, {})
        ELSE Reading({Event("mirror", s, InFile(s, {"good"}), TRUE, TRUE) :
                        s \in {r \in Sessions : Valid(r)}},
                     {e \in Holding(mirror, {"good", "bad"}) : ~Valid(e[1])})

\* Hermes keeps a row per model, which it joins with the session's, for the
\* date, and the session's totals.  A row of zeros that had a cost is a row.
Undated(totals, s) == \E e \in Holding(totals, {"bad"}) : e[1] = s

HermesModels(db, totals) ==
    LET rows(s, cells) == {e \in Holding(db, cells) : e[1] = s}
        listed == {s \in Sessions : rows(s, {"zero", "good"}) # {}}
        dated == {s \in listed : ~Undated(totals, s)}
    IN  Reading({Event("db", s, rows(s, {"zero", "good"}), rows(s, {"good"}) # {}, FALSE) : s \in dated},
                UNION {rows(s, {"good"}) : s \in listed \ dated})

HermesTotals(mirror, covered) ==
    LET rows(s) == {e \in Holding(mirror, {"good"}) : e[1] = s}
        listed == {s \in Sessions \ covered : rows(s) # {} \/ Undated(mirror, s)}
        dated == {s \in listed : ~Undated(mirror, s)}
    IN  Reading({Event("mirror", s, rows(s), TRUE, FALSE) : s \in dated},
                {e \in Holding(mirror, {"good", "bad"}) : e[1] \in listed \ dated})

\* jcode goes through the snapshots; a session's journal, where there is one,
\* stands for the messages of its snapshot.  A snapshot that cannot be read is
\* passed over, with its journal.
Snapshot(mirror, s) ==
    /\ \E e \in Written(mirror) : e[1] = s
    /\ \A e \in Written(mirror) : e[1] = s => mirror[e] # "bad"

JcodeJournal(db, snapshots) ==
    LET rows == {e \in Holding(db, {"good"}) : Snapshot(snapshots, e[1])}
    IN  [Reading(EachCall("db", rows, LAMBDA e : TRUE), {})
            EXCEPT !.covered = {e[1] : e \in Written(db)}]

JcodeSnapshot(snapshots, journaled) ==
    LET rows == {e \in Holding(snapshots, {"good"}) :
                    Snapshot(snapshots, e[1]) /\ e[1] \notin journaled}
    IN  Reading(EachCall("mirror", rows, LAMBDA e : TRUE), {})

-----------------------------------------------------------------------------
\* A row of zeros and a row that names no model are passed over.
DevinCli(db) ==
    Reading(EachCall("db", Holding(db, {"good"}), LAMBDA e : TRUE),
            Holding(db, {"bad"}))

\* The session a Desktop file is taken for: the one session with its title,
\* if there is exactly one, or else the file's own name.
Resolved(s, title, dbTitles) ==
    LET same == {r \in Sessions : dbTitles[r] = title}
    IN  IF title # NoTitle /\ Cardinality(same) = 1
        THEN CHOOSE r \in same : TRUE
        ELSE File(s)

\* A file of per-message metrics gives an event a line; one of running
\* usage_updates gives one event, dated by the first line that has a date.
DevinDesktop(mirror, perLine, resolved, covered) ==
    LET InFile(s, cells) == {e \in Holding(mirror, cells) : e[1] = s}
        LineEvents(s) ==
            {Event("mirror", resolved[s], {e}, TRUE, TRUE) : e \in InFile(s, {"good"})}
        FileEvents(s) ==
            IF InFile(s, {"good"}) = {} THEN {}
            ELSE {Event("mirror", resolved[s], InFile(s, {"good", "bad"}), TRUE, FALSE)}
        Events(s) == IF perLine THEN LineEvents(s) ELSE FileEvents(s)
        Unusable(s) == IF perLine \/ InFile(s, {"good"}) = {} THEN InFile(s, {"bad"}) ELSE {}
    IN  Reading({ev \in UNION {Events(s) : s \in Sessions} : ev.sess \notin covered},
                UNION {Unusable(s) : s \in Sessions})

-----------------------------------------------------------------------------
\* The previous parsed message of the session is a prompt.
AfterPrompt(parsed, e) ==
    \E p \in Prompts \cap parsed :
        Precedes(p, e) /\ ~ \E f \in parsed : Precedes(p, f) /\ Precedes(f, e)

Parsed(store) == {e \in Entries : store[e] \in {"zero", "good"}}

\* Both tables of an OpenCode database, merged and ordered.  A message in
\* both is counted from the first table.
OpencodeDb(message, sessionMessage) ==
    LET parsed == Parsed(message) \cup Parsed(sessionMessage)
        First(e) == IF e \in Parsed(message) THEN message[e] ELSE sessionMessage[e]
    IN  Reading({Event("db", e[1], {e}, First(e) = "good", AfterPrompt(parsed, e)) :
                    e \in parsed \cap Calls},
                Holding(message, {"bad"}) \cup Holding(sessionMessage, {"bad"}))

OpencodeJson(mirror, seen) ==
    Reading({Event("mirror", e[1], {e}, mirror[e] = "good", AfterPrompt(Parsed(mirror), e)) :
                e \in (Parsed(mirror) \cap Calls) \ seen},
            Holding(mirror, {"bad"}))
=============================================================================
