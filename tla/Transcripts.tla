---------------------------- MODULE Transcripts ----------------------------
(***************************************************************************)
(* One reading of a harness that keeps a transcript, or a row of totals, a *)
(* session, while the harness goes on: it logs prompts and calls, streams  *)
(* a call's usage in two lines, replays lines, copies a file to another    *)
(* root or into a resumed session, rotates it away, restarts its totals,   *)
(* and leaves lines unusable, without id or without date.  The reader      *)
(* lists the files and then reads one a step, in their order, by the       *)
(* operators of TranscriptReaders.                                         *)
(*                                                                         *)
(* The actions on the files are the harness (external): each is one that   *)
(* the code of its reader, or a comment there, provides for.               *)
(***************************************************************************)
EXTENDS Scripts, TranscriptReaders

CONSTANTS
    Harnesses,      \* the harnesses looked at: one of them is on the machine
    Given(_),       \* bound: the entries that a harness is given to log
    Files,          \* the places of files, in the order they are listed
    MaxOdd(_)       \* bound: a harness's odd lines, replays and unreadable files

Transcribed == {"claude", "qwen", "gemini", "pi", "openclaw", "commandcode", "junie",
                "kimi", "amp", "codebuff", "augment", "kilo", "kiro", "deepseek", "copilot"}
Recorded == {"opencodereview", "trae", "cherrystudio", "fx-sidecar"}
Snapshots == {"goose", "zed", "mux", "droid"}

ASSUME TranscriptsAssumption ==
    /\ Harnesses \subseteq Transcribed \cup Recorded \cup Snapshots \cup {"fx"}
    /\ Sessions \subseteq Nat \ {0}
    /\ \A s \in Sessions : Script[s] \in Seq({"prompt", "call"})
    /\ \A h \in Harnesses : Given(h) \subseteq (IF h \in Snapshots \cup {"copilot"} THEN Calls
                                                                             ELSE Entries)
    /\ Files = 1..Cardinality(Files)
    /\ \A h \in Harnesses : MaxOdd(h) \in Nat

VARIABLES
    harness,
    quirk,              \* all calls have one model and the same usage; DeepSeek: its
                        \* logs are compressed; Copilot: a log has its own trace
    session,            \* the session a file is of, 0 where there is no file
    files,              \* the lines of each
    age,                \* droid: <<f, g>> where f was written after g
    odd,
    todo,               \* the files listed and not yet read: the first is next
    held,               \* the calls each had for the reader when it was listed
    final,              \* the calls that had their final usage in one, then
    carried,            \* qwen: the sessions with a prompt not yet answered;
                        \* DeepSeek: those read; Copilot: the records read
    events, reported,
    passed,             \* the files passed over without a word
    done

world == <<harness, quirk, session, files, age, odd>>
reader == <<todo, held, final, carried, events, reported, passed, done>>
vars == <<world, reader>>

Init ==
    /\ harness \in Harnesses
    /\ quirk \in (IF harness \in {"openclaw", "junie", "amp", "kiro", "deepseek", "copilot"}
                 THEN BOOLEAN ELSE {FALSE})
    /\ session = [f \in Files |-> 0]
    /\ files = [f \in Files |-> <<>>]
    /\ age = {}
    /\ odd = 0
    /\ todo = {}
    /\ held = [f \in Files |-> {}] /\ final = {}
    /\ carried = {}
    /\ events = {} /\ reported = {} /\ passed = {}
    /\ done = FALSE

-----------------------------------------------------------------------------
(***************************************************************************)
(* The harness.                                                            *)
(***************************************************************************)
Streams == {"claude", "commandcode", "kimi", "copilot"}
Rewrites == {"commandcode", "kimi"}      \* ... under the call's id
Copies == {"claude", "pi", "openclaw", "kimi", "amp", "codebuff", "augment", "kiro",
           "goose", "zed", "mux", "droid", "deepseek"}
Rotates == {"openclaw"}
SpansFiles == {"qwen", "openclaw"}
Replays == {"junie", "fx"}
KeepsLedger == {"amp", "kimi"}
CallKinds ==
    CASE harness \in KeepsLedger -> {"call", "record"}
      [] harness = "copilot" -> {"chat", "inference"}
      [] OTHER -> {"call"}

\* The cells a line of a call may have besides "good", and what it may lack.
OddCells(h) ==
    CASE h \in {"claude", "qwen", "gemini"} -> {"zero", "none", "bad", "torn"}
      [] h \in {"pi", "opencodereview"} -> {"zero", "bad", "torn"}
      [] h \in {"openclaw", "junie", "kimi"} -> {"none", "torn"}
      [] h \in {"commandcode", "fx"} -> {"bad", "torn"}
      [] h \in {"amp", "zed"} -> {"none", "bad"}
      [] h = "deepseek" -> {"bad", "torn"}
      [] h = "copilot" -> {"bad"}
      [] h \in {"kilo", "trae", "cherrystudio", "fx-sidecar", "goose", "droid"} -> {"zero", "bad"}
      [] OTHER -> {"none"}
MayLackId == {"copilot", "pi", "commandcode", "kimi", "amp", "codebuff", "augment", "kiro"}
MayLackDate == {"deepseek", "openclaw", "commandcode", "junie", "kilo", "kiro"}
Torn == {h \in Harnesses : "torn" \in OddCells(h)}

Lines(f) == {files[f][i] : i \in DOMAIN files[f]}
Written == UNION {Lines(f) : f \in Files}
Logged(e) == \E l \in Written : l.entry = e \/ e \in l.calls
LastOf(f) == files[f][Len(files[f])]

\* The entries of a session come in their order: a file goes on from the one
\* before, or it is new, for a new session or where a session spans files.
Follows(e, f) ==
    /\ ~Logged(e)
    /\ LET before == {d \in Given(harness) : Precedes(d, e)}
       IN  /\ \A d \in before : Logged(d)
           /\ \/ session[f] = e[1] /\ \E l \in Lines(f) : \A d \in before : d[2] <= l.entry[2]
              \/ session[f] = 0 /\ (before = {} \/ harness \in SpansFiles)
    /\ harness = "deepseek" => \A g \in Files : g < f => session[g] # e[1]

Oddities(l) ==
    Cardinality({x \in {"cell", "id", "date"} :
                    \/ x = "cell" /\ l.cell # "good"
                    \/ x = "id" /\ ~l.named
                    \/ x = "date" /\ ~l.dated})

Costs(n) == odd' = odd + n /\ odd' <= MaxOdd(harness)

\* The running total that the next one adds to.
LastTotal(f) ==
    {files[f][i].calls : i \in {j \in DOMAIN files[f] :
        /\ files[f][j].kind = "call"
        /\ \A k \in DOMAIN files[f] : k > j => files[f][k].kind # "call"}}

\* What the harness may write of an entry.
LinesOf(e, f) ==
    [entry : {e},
     kind : IF Kind(e) = "prompt" THEN {IF harness = "fx" THEN "commit" ELSE "prompt"}
            ELSE CallKinds,
     calls : IF Kind(e) = "prompt" THEN {{}}
             ELSE IF harness \in Snapshots \/ harness = "fx"
             THEN {{e} \cup total : total \in LastTotal(f)}
                    \cup (IF files[f] = <<>> \/ harness = "fx" THEN {{e}} ELSE {})
             ELSE IF harness = "codebuff" THEN CodebuffUsages(e, {l.entry : l \in {k \in Lines(f) : k.kind = "call"}})
             ELSE {{e}},
     cell : {"good"} \cup (IF Kind(e) = "call" THEN OddCells(harness)
                           ELSE IF harness \in Torn THEN {"torn"} ELSE {}),
     full : IF Kind(e) = "call" /\ harness \in Streams THEN BOOLEAN ELSE {TRUE},
     named : IF Kind(e) = "call" /\ harness \in MayLackId THEN BOOLEAN ELSE {TRUE},
     dated : IF Kind(e) = "call" /\ harness \in MayLackDate THEN BOOLEAN ELSE {TRUE},
     spanned : IF harness = "copilot" THEN BOOLEAN ELSE {TRUE},
     row : {0} \cup (IF harness = "junie" /\ files[f] # <<>> THEN {LastOf(f).row + 1} ELSE {})]

\* A row that goes on from the last one in the record of it, which was written
\* there first and is JSON or is not.
Joins(l, f) ==
    /\ l.kind = "call" /\ LastOf(f).kind = "call" /\ l.dated = LastOf(f).dated
    /\ l.cell = "torn" <=> LastOf(f).cell = "torn"
    /\ \A i \in DOMAIN files[f] : files[f][i] = LastOf(f) => i = Len(files[f])

\* Copilot's span, a log in the span's context, and a log that is not.
MaySpan(l) == l.kind = "chat" \/ (l.kind = "inference" /\ ~quirk)

\* A record of usage is written when the call is over, and no total goes back
\* to none.
LinesFor(e, f) ==
    {l \in LinesOf(e, f) :
        /\ l.kind = "record" => l.full /\ l.cell # "bad"
        /\ l.kind \in {"inference", "turn"} => l.full
        /\ harness = "copilot" => /\ l.spanned => MaySpan(l)
                                  /\ l.kind = "chat" => l.spanned
                                  /\ quirk \/ l.named
        /\ harness \in Snapshots /\ files[f] # <<>> => l.cell \in {"good", "bad"}
        /\ harness = "codebuff" /\ l.cell = "none" => l.calls = {e}
        /\ l.row # 0 => Joins(l, f)}

Newer(f, g) == <<f, g>> \in age

Touched(f) ==
    age' = IF harness = "droid"
           THEN {p \in age : f \notin {p[1], p[2]}} \cup ({f} \X (Files \ {f})) ELSE age

Rewritten(f, lines) ==
    /\ files' = [files EXCEPT ![f] = lines]
    /\ Touched(f)
    /\ UNCHANGED <<harness, quirk, reader>>

\* A running total is restarted where it leaves out what the last one had.
Restarts(f, l) ==
    harness = "fx" /\ l.kind = "call" /\ \E total \in LastTotal(f) : ~(total \subseteq l.calls)

Borrows(l) == harness = "codebuff" /\ l.calls # {l.entry}

Log(f, e) ==
    /\ e \in {d \in Given(harness) : Follows(d, f)}
    /\ \E l \in LinesFor(e, f) :
        /\ Rewritten(f, IF harness \in Snapshots THEN <<l>> ELSE Append(files[f], l))
        /\ Costs(Oddities(l) + (IF Restarts(f, l) \/ Borrows(l) THEN 1 ELSE 0))
    /\ session' = [session EXCEPT ![f] = e[1]]

\* The call that the last line is about ends, and its usage is logged again.
Finish(f) ==
    /\ files[f] # <<>> /\ LastOf(f).kind \in {"call", "chat"} /\ ~LastOf(f).full
    /\ harness \in Rewrites => LastOf(f).named
    /\ Rewritten(f, Append(files[f], [LastOf(f) EXCEPT !.full = TRUE, !.cell = "good"]))
    /\ UNCHANGED <<session, odd>>

\* Amp logs a message's usage in its ledger too.
Ledger(f) ==
    /\ harness = "amp"
    /\ \E i \in DOMAIN files[f] :
        LET l == files[f][i]
        IN  /\ l.kind = "call"
            /\ \A k \in Lines(f) : ~(k.kind = "record" /\ k.calls = l.calls)
            /\ \E named \in BOOLEAN :
                /\ Rewritten(f, Append(files[f], [l EXCEPT !.kind = "record", !.cell = "good",
                                                           !.named = named]))
                /\ Costs(IF named THEN 0 ELSE 1)
    /\ UNCHANGED session

\* No record of the call is of a call in progress.
Over(e) == \A f \in Files : \A l \in Lines(f) : l.entry = e => l.full \/ [l EXCEPT !.full = TRUE] \in Lines(f)

\* Copilot's exporter writes another record of a call that is over, or the span
\* of its prompt, with all of the prompt's calls.
Telemetry(f) ==
    /\ harness = "copilot" /\ session[f] # 0 /\ Costs(1)
    /\ \E l \in Lines(f), kind \in {"inference", "turn", "agent"} :
        LET of == IF kind = "agent" THEN {e \in Given(harness) : PromptOf(e) = PromptOf(l.entry)}
                                    ELSE {l.entry}
        IN  /\ of \subseteq {e \in Given(harness) : Logged(e) /\ Over(e)}
            /\ \A k \in Written : ~(k.kind = kind /\ k.calls = of)
            /\ \E cell \in {"good", "bad"}, spanned \in BOOLEAN :
                LET record == [l EXCEPT !.kind = kind, !.calls = of, !.cell = cell,
                                        !.spanned = spanned, !.named = l.named /\ kind # "agent"]
                IN  /\ ~spanned \/ MaySpan(record)
                    /\ Rewritten(f, Append(files[f], record))
    /\ UNCHANGED session

\* Junie repeats a record, row by row.
Replay(f) ==
    /\ harness \in Replays
    /\ \E i \in DOMAIN files[f] :
        /\ files[f][i].kind = "call"
        /\ harness = "fx" => \A j \in DOMAIN files[f] : j > i => files[f][j].kind # "call"
        /\ files[f][i].row # 0 => LastOf(f) = files[f][i - 1]
        /\ Rewritten(f, Append(files[f], files[f][i]))
    /\ Costs(1)
    /\ UNCHANGED session

\* A file is copied, or moved away: to another root, into the file of a
\* resumed session, from the newest generation to one that is listed before
\* it, to an archive, which is listed after it.
Copy(f, g) ==
    /\ session[f] # 0 /\ session[g] = 0
    /\ harness = "deepseek" => g < f /\ \A h \in Files : session[h] = session[f] => f <= h
    /\ harness = "droid" => \A h \in Files : session[h] = session[f] => ~Newer(h, f)
    /\ \/ harness \in Copies
          /\ files' = [files EXCEPT ![g] = files[f]]
          /\ session' = [session EXCEPT ![g] = session[f]]
       \/ harness \in Rotates /\ f < g
          /\ files' = [files EXCEPT ![g] = files[f], ![f] = <<>>]
          /\ session' = [session EXCEPT ![g] = session[f], ![f] = 0]
    /\ Touched(g)
    /\ UNCHANGED <<harness, quirk, odd, reader>>

-----------------------------------------------------------------------------
(***************************************************************************)
(* The reader.                                                             *)
(***************************************************************************)
\* What a reader can know of in a file: usage, usable or not, and lines that
\* are not JSON.
Knowable(f) == UNION {l.calls : l \in {k \in Lines(f) : k.cell \in {"good", "bad", "torn"}}}

Begin ==
    /\ todo = {}
    /\ todo' = {f \in Files : session[f] # 0}
    /\ held' = [f \in Files |-> Knowable(f)]
    /\ final' = UNION {l.calls : l \in {k \in Written : k.full /\ k.cell = "good"}}
    /\ carried' = {} /\ events' = {} /\ reported' = {} /\ passed' = {}
    /\ done' = FALSE
    /\ UNCHANGED world

Trace(l) ==
    IF quirk /\ l.kind \in {"inference", "turn"} THEN <<l.kind, l.entry>>
                                                ELSE <<"prompt", PromptOf(l.entry)>>

ReadingOf(f) ==
    LET s == session[f]
        ls == files[f]
    IN  CASE harness = "claude" -> Claude(f, s, ls, events)
          [] harness = "qwen" -> Qwen(f, s, ls, events, s \in carried)
          [] harness = "gemini" -> Gemini(f, s, ls, events)
          [] harness = "pi" -> Pi(f, s, ls, events)
          [] harness = "openclaw" -> Openclaw(f, s, ls, events, quirk)
          [] harness = "commandcode" -> Commandcode(f, s, ls, events)
          [] harness = "opencodereview" -> Opencodereview(f, s, ls, events)
          [] harness = "trae" -> Trae(f, s, ls, events)
          [] harness = "cherrystudio" -> Cherrystudio(f, s, ls, events)
          [] harness = "junie" -> Junie(f, s, ls, events, quirk)
          [] harness = "kimi" -> Kimi(f, s, ls, events)
          [] harness = "amp" -> Amp(f, s, ls, events, quirk)
          [] harness = "codebuff" -> Codebuff(f, s, ls, events)
          [] harness = "augment" -> Augment(f, s, ls, events)
          [] harness = "kilo" -> Kilo(f, s, ls, events)
          [] harness = "kiro" -> Kiro(f, s, ls, events, quirk)
          [] harness = "deepseek" -> Deepseek(f, s, ls, events, s \in carried, quirk)
          [] harness = "copilot" -> [events |-> {}, reported |-> {}]
          [] harness = "goose" -> Goose(f, s, ls, events)
          [] harness = "zed" -> Zed(f, s, ls, events)
          [] harness = "mux" -> Mux(f, s, ls, events)
          [] harness = "droid" -> Droid(f, s, ls, events, {g \in Files : Newer(g, f)})
          [] harness = "fx-sidecar" -> FxSidecar(f, s, ls, events)
          [] harness = "fx" -> Fx(f, s, ls, events)

Past(f) ==
    /\ f \in todo /\ \A g \in todo : f <= g
    /\ todo' = todo \ {f}
    /\ done' = (todo = {f} /\ harness # "copilot")
    /\ UNCHANGED <<harness, quirk, session, files, age, held, final>>

Read(f) ==
    /\ Past(f)
    /\ session[f] # 0
    /\ events' = ReadingOf(f).events
    /\ reported' = reported \cup ReadingOf(f).reported
    /\ carried' = CASE harness = "qwen" ->
                          IF QwenOwes(files[f], session[f] \in carried)
                          THEN carried \cup {session[f]} ELSE carried \ {session[f]}
                     [] harness = "deepseek" -> carried \cup {session[f]}
                     [] harness = "copilot" -> carried \cup Lines(f)
                     [] OTHER -> carried
    /\ UNCHANGED <<odd, passed>>

\* The stores that may be passed over without a word: Cherry Studio takes a
\* failing look for its table for there being none, Zed a failing step for the
\* end of the rows, and the others JSON of another shape for no messages.
PassesOver == {"cherrystudio", "zed", "gemini", "codebuff", "augment", "kiro", "mux"}

\* The file is gone since it was listed, or it cannot be read or parsed: it is
\* reported as a whole, or it is passed over.
Unreadable(f) ==
    /\ Past(f)
    /\ Costs(IF session[f] = 0 THEN 0 ELSE 1)
    /\ \/ reported' = reported \cup held[f] /\ UNCHANGED passed
       \/ harness \in PassesOver /\ passed' = passed \cup {f} /\ UNCHANGED reported
    /\ UNCHANGED <<carried, events>>

\* Copilot's records are chosen from when all are read.
Select ==
    /\ harness = "copilot" /\ todo = {} /\ ~done /\ carried # {}
    /\ \E reading \in {Otel(carried, [l \in carried |-> Trace(l)])} :
        /\ events' = reading.events
        /\ reported' = reported \cup reading.reported
    /\ done' = TRUE
    /\ UNCHANGED <<world, todo, held, final, carried, passed>>

\* What the harness does when a reading is over, it might as well have done
\* before that reading began, as far as the next one goes.
HarnessStep ==
    /\ ~done
    /\ \E f \in Files :
        \/ \E e \in Entries : Log(f, e)
        \/ Finish(f) \/ Ledger(f) \/ Telemetry(f) \/ Replay(f)
        \/ \E g \in Files : Copy(f, g)

Next ==
    \/ HarnessStep
    \/ \E f \in Files : Read(f) \/ Unreadable(f)
    \/ Begin \/ Select

Spec == Init /\ [][Next]_vars

-----------------------------------------------------------------------------
(***************************************************************************)
(* Properties.                                                             *)
(***************************************************************************)
CountsOf(e) == {ev \in events : e \in ev.calls}

\* What a reader knows a call by: without it, a copy is another call, or calls
\* that are alike one.
KnownBy(l) ==
    CASE harness \in {"openclaw", "junie"} -> l.dated
      [] harness = "kiro" -> l.named \/ (l.dated /\ ~quirk)
      [] harness = "kimi" -> l.named /\ l.kind = "call"
      [] harness = "copilot" -> l.named \/ ~quirk
      [] OTHER -> l.named

\* A message of codebuff's has it of another call.
Borrowed(e) == \E l \in Written : Borrows(l) /\ e \in l.calls \ {l.entry}

\* An entry of amp's ledger may go with any message that looks like its own.
Known(e) ==
    ~Borrowed(e) /\ \A l \in Written : e \in l.calls \/ harness = "amp" => KnownBy(l)

\* A call is in one event of a reading at most, however its usage is streamed,
\* replayed or logged twice, and its file copied or moved before, while and
\* after it is read: if its lines bear what its reader knows them by.
CountedOnce ==
    \A e \in Calls : Known(e) => Cardinality(CountsOf(e)) <= 1

\* A store before this one had the session.
Hidden(f) ==
    harness \in {"goose", "zed", "mux"}
        /\ \E ev \in events : ev.session = session[f] /\ ev.file < f

\* A total of fx that restarted, unseen where it is no less than the one before.
Restarted(f) == harness = "fx" /\ \E k, l \in Lines(f) :
                    /\ k.kind = "call" /\ l.kind = "call"
                    /\ ~(k.calls \subseteq l.calls \/ l.calls \subseteq k.calls)

\* A rotation moved it, after the files were listed, to where it was not then.
Moved(e) ==
    harness \in Rotates /\ \E g \in Files : e \notin held[g] /\ \E l \in Lines(g) : e \in l.calls

\* What broke off of a compressed log is warned of only.
CutOff(f) ==
    harness = "deepseek" /\ quirk /\ \E l \in Lines(f) : l.cell = "torn"

\* A record stands for its trace, and the call has no record that good in it.
Outranked(e) ==
    harness = "copilot" /\ \E l \in carried :
        /\ l.cell = "good" /\ PromptOf(l.entry) = PromptOf(e)
        /\ \A k \in OtelCandidates(carried) : e \in k.calls => OtelSource(l) < OtelSource(k)

\* A message of amp takes the ledger's entry of a call that has no message, if
\* their model and tokens are the same.
Mistaken == harness = "amp" /\ quirk

\* A call that a file had usage of when it was listed, usable or not, is in an
\* event or is reported in skipped, unless the file was passed over.
NoSilentLoss ==
    done => \A f \in Files : \A e \in held[f] :
                \/ CountsOf(e) # {} \/ e \in reported \/ f \in passed
                \/ ~Known(e) \/ Hidden(f) \/ Restarted(f) \/ Moved(e) \/ Mistaken
                \/ CutOff(f) \/ Outranked(e)

\* What the docs say of skipped: all that could not be read is in it.
UnreadableIsSkipped ==
    done => \A f \in Files : \A e \in held[f] :
                Known(e) /\ ~Hidden(f) => CountsOf(e) # {} \/ e \in reported

\* A call that had its final usage when the files were listed is counted with
\* it and not with what was streamed before.  (Claude's reader counts the line
\* it meets first.)
FinalUsage ==
    done /\ harness # "claude" =>
        \A e \in final :
            CountsOf(e) # {} /\ e \notin reported /\ Known(e)
                => \E ev \in CountsOf(e) : ev.full

\* The readers that look for the prompt before a call.
MarksTurns == {"claude", "qwen", "gemini", "pi", "junie", "amp", "kilo", "fx"}
Answers(e, p) == p \in Prompted(e) /\ PromptOf(e) = p
StartedBy(p) == {ev \in events : ev.turn /\ \E e \in ev.calls : Answers(e, p)}

\* Claude's lines that are no JSON show nothing of a turn that has begun, fx's
\* total after one it could not use holds calls of turns before, and Qwen's
\* files of a session are taken to be listed in the order they were written in.
TurnsBlurred ==
    \/ harness = "claude" /\ \E l \in Written : l.cell = "torn"
    \/ harness = "fx" /\ \E l \in Written : l.kind = "call" /\ l.cell # "good"
    \/ harness = "qwen" /\ \E f, g \in Files : f < g /\ \E k \in Lines(f), l \in Lines(g) :
                                                          Precedes(l.entry, k.entry)

\* A prompt starts one turn at most, unless the lines were blurred.
OneTurnAPrompt ==
    harness \in MarksTurns /\ ~TurnsBlurred =>
        \A p \in Prompts :
            (\A e \in Calls : Answers(e, p) => Known(e)) => Cardinality(StartedBy(p)) <= 1

\* ... its first call counted.
FirstCallStarts ==
    harness \in MarksTurns \ {"amp", "fx"} /\ odd = 0 /\ ~TurnsBlurred =>
        \A ev \in events : ev.turn =>
            \A e \in ev.calls : \A d \in Calls :
                Prompted(d) = Prompted(e) /\ Precedes(d, e) => CountsOf(d) = {}
=============================================================================
