--------------------------- MODULE MirroredStores ---------------------------
(***************************************************************************)
(* One reading of a harness that keeps its usage in two stores, while the  *)
(* harness goes on writing, finishing and migrating records: the read_*    *)
(* functions that compose the operators of StoreLanes.  The reader takes a *)
(* step for every query or store it reads, in the code's order; between    *)
(* them the harness may take any.                                          *)
(*                                                                         *)
(* The actions on the stores are the harness (external).  db is the store  *)
(* the reader trusts: a database, Cline's extension store, Copilot's       *)
(* session state.  OpenCode's database has two tables, messages and        *)
(* sessionMessages, which a row may move between.  A query may fail: the   *)
(* database is locked, or has not the table that is asked for.             *)
(***************************************************************************)
EXTENDS StoreLanes

CONSTANTS
    Harnesses,      \* the harnesses looked at: one of them is on the machine
    Given(_),       \* bound: the entries that a harness is given to write
    Titles,         \* what Devin may call a session
    MaxBad          \* bound on the unusable records ever written

ASSUME StoresAssumption ==
    /\ Harnesses \subseteq {"opencode", "zcode", "cline", "devin", "copilot",
                             "deepseek", "grok", "reasonix", "hermes", "jcode"}
    /\ \A s \in Sessions : Script[s] \in Seq({"prompt", "call"}) /\ File(s) \notin Sessions
    /\ \A h \in Harnesses : Given(h) \subseteq Entries
    /\ NoTitle \notin Titles
    /\ MaxBad \in Nat

VARIABLES
    harness,
    quirk,              \* ZCode: calls of a prompt start together; Devin: a line a
                        \* message; DeepSeek: events are not numbered; Grok: calls are not
    db, sessionMessages, mirror,
    dbTitle, fileTitle, \* Devin's titles of a session
    signals,            \* Grok's signals.json: the calls that it counts
    bad,                \* unusable records written so far
    phase,              \* what the reader does next
    recorded,           \* calls a store had in full when the reading began
    inDb,               \* ... those the trusted store had
    messages, titles,   \* what was read ahead: OpenCode's first table, Devin's sessions
    covered,            \* what the first store leaves for the second
    resolved,           \* the session each Desktop file was taken for
    dropped,            \* calls whose records went with a query that failed, of
                        \* which skipped says nothing
    events, reported    \* the result

stores == <<db, sessionMessages, mirror, dbTitle, fileTitle, signals, bad>>
reader == <<phase, recorded, inDb, messages, titles, covered, resolved, dropped, events, reported>>
vars == <<harness, quirk, stores, reader>>

Empty == [e \in Entries |-> "none"]
Untitled == [s \in Sessions |-> NoTitle]
Itself == [s \in Sessions |-> s]

Init ==
    /\ harness \in Harnesses
    /\ quirk \in (IF harness \in {"zcode", "devin", "deepseek", "grok"} THEN BOOLEAN ELSE {FALSE})
    /\ db = Empty /\ sessionMessages = Empty /\ mirror = Empty
    /\ dbTitle = Untitled /\ fileTitle = Untitled
    /\ signals = {}
    /\ bad = 0
    /\ phase = "idle"
    /\ recorded = {} /\ inDb = {}
    /\ messages = Empty /\ titles = Untitled
    /\ covered = {} /\ resolved = Itself
    /\ dropped = {} /\ events = {} /\ reported = {}

-----------------------------------------------------------------------------
(***************************************************************************)
(* The harness.                                                            *)
(***************************************************************************)
\* A row exists before its usage is known.
InProgress == harness \in {"opencode", "zcode", "cline", "devin", "hermes"}
Migrates == harness \in {"opencode", "zcode"}

Trusted(e) == IF db[e] # "none" THEN db[e] ELSE sessionMessages[e]
Known(e) == db[e] # "none" \/ sessionMessages[e] # "none" \/ mirror[e] # "none"

DbCells ==
    {"good"} \cup (IF harness \in {"hermes", "jcode"} THEN {} ELSE {"bad"})
             \cup (IF InProgress \/ harness = "reasonix" THEN {"zero"} ELSE {})
             \cup (IF harness = "devin" THEN {"unnamed"} ELSE {})
MirrorCells ==
    {"good", "bad"} \cup (CASE harness = "opencode" -> {"zero"}
                            [] harness = "copilot" -> {"anon"}
                            [] harness = "grok" -> {"total", "fell"}
                            [] OTHER -> {})
CellsFor(e, cells) == IF Kind(e) = "prompt" THEN {"good"} ELSE cells

\* The entries of a session come in their order.
IsNext(e) ==
    /\ e \in Given(harness) /\ ~Known(e)
    /\ \A f \in Given(harness) : Precedes(f, e) => Known(f)

\* A version writes one of OpenCode's tables, when it has moved all to it.
NotMovedTo(table, s) == \A e \in Entries : e[1] = s => table[e] = "none"

\* A version that writes the database has migrated the session first; one that
\* writes the mirror goes on with what the mirror has of it.
Migrated(s) == \A e \in Entries : e[1] = s /\ mirror[e] # "none" => Trusted(e) # "none"
GoesOn(e) == \A f \in Entries : Precedes(f, e) => mirror[f] # "none"

\* Grok's mirror is a log that is only appended to.
Appends(e) == \A f \in Entries : Precedes(e, f) => mirror[f] = "none"

Writing(cells) ==
    /\ bad' = bad + (IF cells \cap {"bad", "unnamed"} # {} THEN 1 ELSE 0)
    /\ bad' <= MaxBad
    /\ UNCHANGED <<harness, quirk, dbTitle, fileTitle, signals, reader>>

WriteMirror(e) ==
    /\ IsNext(e)
    /\ Migrates => GoesOn(e)
    /\ harness = "grok" => Appends(e)
    /\ \E c \in CellsFor(e, MirrorCells) :
        /\ mirror' = [mirror EXCEPT ![e] = c]
        /\ Writing({c})
    /\ UNCHANGED <<db, sessionMessages>>

WriteDb(e) ==
    /\ IsNext(e)
    /\ Migrates => Migrated(e[1])
    /\ \E c \in CellsFor(e, DbCells) :
        /\ \/ /\ NotMovedTo(sessionMessages, e[1])
              /\ db' = [db EXCEPT ![e] = c]
              /\ UNCHANGED sessionMessages
           \/ /\ harness = "opencode" /\ NotMovedTo(db, e[1])
              /\ sessionMessages' = [sessionMessages EXCEPT ![e] = c]
              /\ UNCHANGED db
        /\ Writing({c})
    /\ UNCHANGED mirror

\* The other store gets its record of an entry, the usage or an unusable
\* record, and may have the usage first; OpenCode's tables have it first.
CopyToMirror(e) ==
    /\ mirror[e] = "none" /\ Trusted(e) # "none"
    /\ harness = "opencode" => Trusted(e) # "zero"
    /\ Migrates => GoesOn(e)
    /\ harness = "grok" => Appends(e)
    /\ \E c \in CellsFor(e, MirrorCells \ {"zero"}) :
        /\ mirror' = [mirror EXCEPT ![e] = c]
        /\ Writing({c})
    /\ UNCHANGED <<db, sessionMessages>>

\* A migration copies the entries in their order; it leaves the mirror.
Migrate(e) ==
    /\ Migrates
    /\ mirror[e] # "none" /\ Trusted(e) = "none"
    /\ NotMovedTo(sessionMessages, e[1])
    /\ \A f \in Entries : Precedes(f, e) => Trusted(f) # "none"
    /\ \E c \in {mirror[e], "bad"} :
        /\ Kind(e) = "prompt" => c = "good"
        /\ db' = [db EXCEPT ![e] = c]
        /\ Writing({c})
    /\ UNCHANGED <<sessionMessages, mirror>>

MoveRow(e) ==
    /\ harness = "opencode"
    /\ db[e] # "none"
    /\ \A f \in Entries : Precedes(f, e) => db[f] = "none"
    /\ sessionMessages' = [sessionMessages EXCEPT ![e] = db[e]]
    /\ db' = [db EXCEPT ![e] = "none"]
    /\ Writing({})
    /\ UNCHANGED mirror

\* The call ends; where both have its record, OpenCode's database is told
\* before the mirror.
Finish(e) ==
    /\ \/ /\ db[e] = "zero"
          /\ db' = [db EXCEPT ![e] = "good"]
          /\ UNCHANGED <<sessionMessages, mirror>>
       \/ /\ sessionMessages[e] = "zero"
          /\ sessionMessages' = [sessionMessages EXCEPT ![e] = "good"]
          /\ UNCHANGED <<db, mirror>>
       \/ /\ mirror[e] = "zero" /\ Trusted(e) # "zero"
          /\ mirror' = [mirror EXCEPT ![e] = "good"]
          /\ UNCHANGED <<db, sessionMessages>>
    /\ Writing({})

\* A session is titled or renamed in the one store and in the other, if it is
\* in both, later.
Rename(s, t) ==
    /\ harness = "devin" /\ \E e \in Given(harness) : e[1] = s
    /\ \/ /\ dbTitle[s] # t
          /\ dbTitle' = [dbTitle EXCEPT ![s] = t]
          /\ UNCHANGED fileTitle
       \/ /\ fileTitle[s] # t
          /\ fileTitle' = [fileTitle EXCEPT ![s] = t]
          /\ UNCHANGED dbTitle
    /\ UNCHANGED <<harness, quirk, db, sessionMessages, mirror, signals, bad, reader>>

\* signals.json is written anew: it counts what the session has used, of a
\* call under way too.
Signal(s) ==
    /\ harness = "grok"
    /\ \E e \in Calls :
        /\ e[1] = s /\ e \notin signals /\ (Known(e) \/ IsNext(e))
        /\ signals' = signals \cup {f \in Calls : UpTo(f, e) /\ (Known(f) \/ f = e)}
    /\ UNCHANGED <<harness, quirk, db, sessionMessages, mirror, dbTitle, fileTitle, bad, reader>>

-----------------------------------------------------------------------------
(***************************************************************************)
(* The reader.                                                             *)
(***************************************************************************)
\* What a reader can know of: some pass over unusable records.  A running
\* total is a substitute, and promises nothing.
Usable == CASE harness \in {"cline", "jcode"} -> {"good"}
            [] harness = "grok" -> {"good", "fell"}
            [] OTHER -> {"good", "anon", "bad", "unnamed"}

Begin ==
    /\ phase \in {"idle", "done"}
    /\ phase' = IF harness \in {"opencode", "devin", "jcode"} THEN "ahead" ELSE "db"
    /\ recorded' = UNION {Holding(x, Usable) : x \in {db, sessionMessages, mirror}}
    /\ inDb' = Holding(db, {"good"}) \cup Holding(sessionMessages, {"good"})
    /\ messages' = Empty /\ titles' = Untitled
    /\ covered' = {} /\ resolved' = Itself
    /\ dropped' = {} /\ events' = {} /\ reported' = {}
    /\ UNCHANGED <<harness, quirk, stores>>

\* What is read before the trusted store is: OpenCode's first table, Devin's
\* sessions, jcode's snapshots.
ReadAhead ==
    /\ phase = "ahead"
    /\ phase' = "db"
    /\ messages' = CASE harness = "opencode" -> db
                      [] harness = "jcode" -> mirror
                      [] OTHER -> Empty
    /\ titles' = dbTitle
    /\ UNCHANGED <<harness, quirk, stores, recorded, inDb, covered, resolved, dropped, events, reported>>

\* OpenCode's first table cannot be read: its second may still be.
MissAhead ==
    /\ phase = "ahead" /\ harness = "opencode"
    /\ phase' = "half"
    /\ dropped' = Holding(db, Usable)
    /\ UNCHANGED <<harness, quirk, stores, recorded, inDb, messages, titles, covered, resolved,
                   events, reported>>

DbReading(second) ==
    CASE harness = "opencode" -> OpencodeDb(messages, second)
      [] harness = "zcode" -> ZcodeDb(db, quirk)
      [] harness = "cline" -> ClineExt(db)
      [] harness = "devin" -> DevinCli(db)
      [] harness = "copilot" -> CopilotState(db)
      [] harness = "deepseek" -> DeepseekLog(db)
      [] harness = "grok" -> GrokUnified(db, ~quirk)
      [] harness = "reasonix" -> ReasonixStats(db)
      [] harness = "hermes" -> HermesModels(db, mirror)
      [] harness = "jcode" -> JcodeJournal(db, messages)

\* covered_sessions, seen_sessions, owned, unified_sessions; for OpenCode and
\* DeepSeek the ids in seen, and all there is once Reasonix has a ledger.
Covers(reading) ==
    CASE harness \in {"opencode", "deepseek"} -> UNION {ev.calls : ev \in reading.events}
      [] harness = "reasonix" -> IF LedgerExists(db) THEN Sessions ELSE {}
      [] OTHER -> reading.covered

ReadDb ==
    /\ phase \in {"db", "half"}
    /\ phase' = "mirror"
    /\ LET reading == DbReading(sessionMessages)
       IN  /\ events' = reading.events
           /\ reported' = reading.reported
           /\ covered' = Covers(reading)
    /\ UNCHANGED <<harness, quirk, stores, recorded, inDb, messages, titles, resolved, dropped>>

\* A database that cannot be read is reported, but for OpenCode's second table
\* where the first could be, and for the models of Hermes.
Queried == IF harness = "opencode" THEN sessionMessages ELSE db
Unheard == harness = "hermes" \/ (harness = "opencode" /\ phase = "db")
DbMissed == IF harness = "opencode" THEN DbReading(Empty) ELSE Reading({}, {})

MissDb ==
    /\ phase \in {"db", "half"} /\ harness \in {"opencode", "zcode", "devin", "hermes"}
    /\ phase' = "mirror"
    /\ events' = DbMissed.events
    /\ covered' = Covers(DbMissed)
    /\ titles' = Untitled
    /\ IF Unheard
       THEN /\ dropped' = dropped \cup Holding(Queried, Usable)
            /\ reported' = DbMissed.reported
       ELSE /\ dropped' = {}
            /\ reported' = DbMissed.reported \cup dropped \cup Holding(Queried, Usable)
    /\ UNCHANGED <<harness, quirk, stores, recorded, inDb, messages, resolved>>

MirrorReading(files) ==
    CASE harness = "opencode" -> OpencodeJson(mirror, covered)
      [] harness = "zcode" -> ZcodeJsonl(mirror, covered)
      [] harness = "cline" -> ClineCli(mirror, covered)
      [] harness = "devin" -> DevinDesktop(mirror, quirk, files, covered)
      [] harness = "copilot" -> CopilotOtel(mirror, covered)
      [] harness = "deepseek" -> DeepseekDb(mirror, ~quirk, covered)
      [] harness = "grok" -> GrokLegacy(mirror, signals, covered)
      [] harness = "reasonix" -> ReasonixSidecars(mirror, covered # {})
      [] harness = "hermes" -> HermesTotals(mirror, covered)
      [] harness = "jcode" -> JcodeSnapshot(messages, covered)

FilesAre ==
    IF harness = "devin" THEN [s \in Sessions |-> Resolved(s, fileTitle[s], titles)]
                         ELSE Itself

ReadMirror ==
    /\ phase = "mirror"
    /\ phase' = "done"
    /\ resolved' = FilesAre
    /\ LET reading == MirrorReading(FilesAre)
       IN  /\ events' = events \cup reading.events
           /\ reported' = reported \cup reading.reported
    /\ UNCHANGED <<harness, quirk, stores, recorded, inDb, messages, titles, covered, dropped>>

\* DeepSeek's database is reported, the totals of Hermes are not.
MissMirror ==
    /\ phase = "mirror" /\ harness \in {"deepseek", "hermes"}
    /\ phase' = "done"
    /\ IF harness = "deepseek"
       THEN reported' = reported \cup Holding(mirror, Usable) /\ UNCHANGED dropped
       ELSE dropped' = dropped \cup Holding(mirror, Usable) /\ UNCHANGED reported
    /\ UNCHANGED <<harness, quirk, stores, recorded, inDb, messages, titles, covered, resolved, events>>

Next ==
    \/ \E e \in Entries :
        \/ WriteMirror(e) \/ WriteDb(e) \/ CopyToMirror(e)
        \/ Migrate(e) \/ MoveRow(e) \/ Finish(e)
    \/ \E s \in Sessions, t \in Titles : Rename(s, t)
    \/ \E s \in Sessions : Signal(s)
    \/ Begin \/ ReadAhead \/ ReadDb \/ ReadMirror
    \/ MissAhead \/ MissDb \/ MissMirror

Spec == Init /\ [][Next]_vars

-----------------------------------------------------------------------------
(***************************************************************************)
(* Properties.                                                             *)
(***************************************************************************)
CountsOf(e) == {ev \in events : e \in ev.calls}

\* Desktop's title led from the session's file to the session.
NamedRight(s) == resolved[s] = s

\* A Grok call told by a running total that then fell, before the usage of its
\* turn was told: the one is flushed, and the other has it again.
Compacted(e) ==
    /\ harness = "grok"
    /\ \E g \in Fallen(mirror) :
        Precedes(e, g) /\ \A p \in Chunks(mirror) : ~(Precedes(e, p) /\ Precedes(p, g))

\* The mirror is not double counted: however a migration, a rename or a call
\* that ends falls between the queries, whichever fail, and whatever running
\* totals and signals stand in for, no call is in two events of a reading.
\* (Except a Devin call whose Desktop file was not recognised, a DeepSeek call
\* that its database does not number, and a Grok call before a compaction in
\* its turn.)
CountedOnce ==
    \A e \in Calls :
        \/ Cardinality(CountsOf(e)) <= 1
        \/ ~NamedRight(e[1])
        \/ harness = "deepseek" /\ quirk
        \/ Compacted(e)

\* A call that the trusted store did not have, whose record in the mirror was
\* ignored: its session has an event from the trusted store, Reasonix has a
\* ledger, the jcode session has a journal.
Superseded(e) ==
    /\ e \notin inDb
    /\ CASE harness \in {"opencode", "deepseek"} -> FALSE
         [] harness = "reasonix" -> covered # {}
         [] harness = "jcode" -> e[1] \in covered
         [] OTHER -> \E ev \in events : ev.from = "db" /\ ev.sess = e[1]

\* jcode finds its sessions by their snapshots.
Unlisted(s) == harness = "jcode" /\ ~Snapshot(messages, s)

\* The usage that Devin's database has for a call names no model.
Unnamed(e) == harness = "devin" /\ db[e] = "unnamed"

Accounted(e) ==
    \/ \E ev \in CountsOf(e) : ev.full
    \/ e \in reported
    \/ Superseded(e)
    \/ Unlisted(e[1])
    \/ ~NamedRight(e[1])
    \/ Unnamed(e)

\* A call that either store had in full before the reading began is in an
\* event with its usage or reported in skipped, unless its record in the
\* mirror was superseded: a record of zeros or an unusable record supersedes
\* nothing, and nothing supersedes the trusted store's record.  Lost without a
\* word are only Devin's usage without a model and the records of a query of
\* OpenCode or Hermes that failed.
NoSilentLoss == phase = "done" => \A e \in recorded : Accounted(e) \/ e \in dropped

\* The prompt an event is of is that of the last call it counts.
StartedBy(p) ==
    {ev \in events : ev.turn /\ \E e \in ev.calls : /\ Prompted(e) # {} /\ PromptOf(e) = p
                                                    /\ \A f \in ev.calls : ~Precedes(e, f)}

Damaged(s) ==
    \E e \in Calls : e[1] = s /\ "bad" \in {db[e], sessionMessages[e], mirror[e]}

\* Devin, DeepSeek, Reasonix and jcode call whatever they count a turn, and
\* so does Grok where its log numbers no calls.
EachIsATurn ==
    \/ harness \in {"devin", "deepseek", "reasonix", "jcode"}
    \/ harness = "grok" /\ quirk

\* A prompt starts at most one turn, whichever stores its calls are read
\* from.  ZCode's calls that start in one millisecond are excepted, and
\* OpenCode's where a record was unusable.
OneTurnAPrompt ==
    \A p \in Prompts :
        \/ EachIsATurn
        \/ harness = "zcode" /\ quirk
        \/ harness = "opencode" /\ Damaged(p[1])
        \/ Cardinality(StartedBy(p)) <= 1
=============================================================================
