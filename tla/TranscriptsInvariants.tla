----------------------- MODULE TranscriptsInvariants -----------------------
(***************************************************************************)
(* What holds of Transcripts after every step, and what it is said with:   *)
(* the files' types and order (WorldInv), what the events owe to the files *)
(* they are of, and, one for each of the theorems of TranscriptsProofs, an *)
(* inductive invariant: CountingInv that no call is counted twice,         *)
(* TurnsInv that no prompt starts two turns, LossInv that nothing is lost  *)
(* silently, UsageInv that what was over is counted with its final usage.  *)
(***************************************************************************)
EXTENDS Transcripts

Kinds == {"prompt", "commit", "call", "record", "chat", "inference", "turn", "agent"}
Cells == {"good", "zero", "none", "bad", "torn"}

Line == [entry : Entries, kind : Kinds, calls : SUBSET Calls, cell : Cells,
         full : BOOLEAN, named : BOOLEAN, dated : BOOLEAN, spanned : BOOLEAN, row : Nat]

KindsOf(h) ==
    CASE h \in KeepsLedger -> {"prompt", "call", "record"}
      [] h = "copilot" -> {"chat", "inference", "turn", "agent"}
      [] OTHER -> {"prompt", "commit", "call"}

Marks == {"prompt", "commit"}
Totalled == Snapshots \cup {"fx", "codebuff"}

\* What holds of a line of a file of session s.
Fits(l, s) ==
    /\ l.entry \in Given(harness) /\ l.entry[1] = s
    /\ l.kind \in KindsOf(harness)
    /\ l.kind \in Marks <=> Kind(l.entry) = "prompt"
    /\ l.kind \in Marks => l.calls = {}
    /\ harness \notin Totalled /\ l.kind \notin Marks \cup {"agent"} => l.calls = {l.entry}
    /\ harness # "copilot" => \A e \in l.calls : e[1] = s
    /\ harness \notin Streams => l.full
    /\ harness \notin MayLackId => l.named
    /\ harness \notin MayLackDate => l.dated
    /\ l.kind \notin Marks => l.cell \in {"good"} \cup OddCells(harness)
    /\ l.kind = "record" => l.cell # "bad"
    /\ l.kind = "chat" => l.spanned
    /\ l.kind = "turn" => ~l.spanned
    /\ l.kind = "agent" => /\ ~l.named
                           /\ l.calls = {e \in Given(harness) : PromptOf(e) = PromptOf(l.entry)}

\* The harnesses that write of an entry once, the copies left aside.
WriteOnce == (Transcribed \cup Recorded \cup {"fx"}) \ (Streams \cup {"amp"})

TypeInv ==
    /\ harness \in Harnesses /\ quirk \in BOOLEAN
    /\ session \in [Files -> Sessions \cup {0}]
    /\ files \in [Files -> Seq(Line)]
    /\ \A f \in Files : session[f] = 0 => files[f] = <<>>
    /\ \A f \in Files : \A i \in DOMAIN files[f] : Fits(files[f][i], session[f])

UniqueInv ==
    \A f, g \in Files : \A i \in DOMAIN files[f], j \in DOMAIN files[g] :
        files[f][i].entry = files[g][j].entry =>
            /\ harness \in WriteOnce => files[f][i] = files[g][j]
            /\ harness \in WriteOnce \ Replays => i = j
            /\ harness \notin Copies \cup Rotates => f = g
            /\ files[f][i].kind = "inference" /\ files[g][j].kind = "inference"
                    => files[f][i].spanned = files[g][j].spanned

WorldInv == TypeInv /\ UniqueInv

\* A step of the harness adds a line to a file or copies one.
Adds(f, l) ==
    /\ files' = [files EXCEPT ![f] = IF harness \in Snapshots THEN <<l>> ELSE Append(files[f], l)]
    /\ session' = [session EXCEPT ![f] = l.entry[1]]
    /\ session[f] \in {0, l.entry[1]}
    /\ Fits(l, l.entry[1])
    /\ \/ ~Logged(l.entry)
       \/ /\ \E k \in Lines(f) : k.entry = l.entry /\ (harness \in WriteOnce => harness \in Replays /\ k = l)
          /\ l.kind = "inference" => \A k \in Written : k.kind = "inference" => k.calls # l.calls

\* A file is copied to a place where there was none, and may be gone from its own.
Moves(f, g) ==
    /\ session[f] # 0 /\ session[g] = 0
    /\ harness \in Copies \cup Rotates
    /\ \/ /\ files' = [files EXCEPT ![g] = files[f]]
          /\ session' = [session EXCEPT ![g] = session[f]]
       \/ /\ harness \in Rotates
          /\ files' = [files EXCEPT ![g] = files[f], ![f] = <<>>]
          /\ session' = [session EXCEPT ![g] = session[f], ![f] = 0]

-----------------------------------------------------------------------------
(***************************************************************************)
(* The steps.                                                              *)
(***************************************************************************)
NewAt(f) == IF harness \in Snapshots THEN 1 ELSE Len(files[f]) + 1

ReaderStep == Begin \/ Select \/ \E f \in Files : Read(f) \/ Unreadable(f)

-----------------------------------------------------------------------------
(***************************************************************************)
(* What a reader makes of a file, in one form for all readers but those of *)
(* fx and Copilot: for some of its rows R an event each, under the key the *)
(* reader has for the row, in place of some events X.                      *)
(***************************************************************************)
Placed == {"qwen", "gemini", "opencodereview", "trae", "cherrystudio", "deepseek", "fx-sidecar"}
Keyed == (Transcribed \cup Recorded) \ {"copilot"}

KeyAt(f, s, i, l) ==
    CASE harness = "claude" -> IF l.named THEN Id(l) ELSE Place(f, i)
      [] harness = "codebuff" -> IF l.named THEN <<"message", l.entry>> ELSE Place(f, i)
      [] harness \in Placed -> Place(f, i)
      [] harness = "pi" -> <<"message", s, Id(l), Usage(l, FALSE), l.cell>>
      [] harness \in {"openclaw", "junie"} -> UsageKey(f, s, l, quirk)
      [] harness = "commandcode" -> IF l.named THEN <<"in", f, Id(l)>> ELSE Place(f, i)
      [] harness = "kimi" -> IF l.named /\ l.kind = "call" THEN <<"slot", s, Id(l)>> ELSE Place(f, i)
      [] harness = "amp" -> AmpName(s, l)
      [] harness = "augment" -> IF l.named THEN <<"request", s, Id(l)>> ELSE <<"turn", s, i>>
      [] harness = "kilo" -> Id(l)
      [] harness = "kiro" -> IF l.named THEN <<"turn", s, i>>
                             ELSE <<"print", i, Instant(f, l), Usage(l, quirk)>>
      [] harness \in Snapshots -> <<"session", s>>

RowKey(f, i) == KeyAt(f, session[f], i, files[f][i])
RowEvent(f, i, turn) == Event(f, session[f], files[f][i], RowKey(f, i), turn)

CallRows(f) ==
    {i \in DOMAIN files[f] : /\ files[f][i].kind \in {"call", "record"}
                             /\ files[f][i].cell \in {"good", "zero"}}

Forms(f, X, R, T) ==
    /\ ReadingOf(f).events = (events \ X) \cup {RowEvent(f, i, T[i]) : i \in R}
    /\ R \subseteq CallRows(f)
    /\ \A i \in R : RowKey(f, i) \notin Keys(events \ X)
    /\ \A i, j \in R : RowKey(f, i) = RowKey(f, j) => i = j
    /\ harness = "deepseek" /\ R # {} => session[f] \notin carried

ReadForm(f) == \E X, R, T : Forms(f, X, R, T)

\* Amp's ledger goes by ids only if all lines have one.
AllNamed == harness = "amp" => \A l \in Written : l.named

FromLine(ev) ==
    \E i \in Nat, l \in Written :
        /\ ev.key = KeyAt(ev.file, ev.session, i, l)
        /\ ev.calls = l.calls /\ l.entry[1] = ev.session
        /\ l.kind \in {"call", "record"}
        /\ harness \notin Rotates => i \in DOMAIN files[ev.file] /\ files[ev.file][i] = l

\* The file is new to the reader.
Unread(f) ==
    /\ files[f] \in Seq(Line)
    /\ \A ev \in events : ev.file # f /\ (harness \in Keyed => FromLine(ev))

-----------------------------------------------------------------------------
(***************************************************************************)
(* The events of these readers have a key each, and one call has one key.  *)
(***************************************************************************)
\* What is true of an event, and of two.
Accounted(ev) ==
    /\ ev.file \in Files \ todo
    /\ harness \in Keyed => FromLine(ev)
    /\ harness \in Snapshots => ev.key = <<"session", ev.session>> /\ \A e \in ev.calls : e[1] = ev.session
    /\ harness = "deepseek" => ev.session \in carried

Apart(ev, dv) ==
    /\ ev.key = dv.key => ev = dv
    /\ harness = "deepseek" => (ev.session = dv.session => ev.file = dv.file)

KeyedInv ==
    harness \in Keyed \cup Snapshots /\ AllNamed =>
        /\ \A ev \in events : Accounted(ev)
        /\ \A ev, dv \in events : Apart(ev, dv)

-----------------------------------------------------------------------------
(***************************************************************************)
(* fx: the deltas of a log's running totals have no call in common.        *)
(***************************************************************************)
CallLines(ls) == {i \in DOMAIN ls : ls[i].kind = "call"}

\* A later total goes on from an earlier one or is of later calls alone.
Continues(s, t) ==
    /\ s \subseteq t \/ s \cap t = {}
    /\ \A d \in s, e \in t \ s : d[2] < e[2]

Totals(ls) ==
    /\ \A i \in CallLines(ls) : /\ ls[i].calls \subseteq Given(harness) /\ ls[i].calls # {}
                                /\ IsFiniteSet(ls[i].calls)
    /\ \A i, j \in CallLines(ls) : i < j => Continues(ls[i].calls, ls[j].calls)
    /\ \A i, j, k \in CallLines(ls) :
            i < k /\ k < j /\ ls[i].calls \subseteq ls[j].calls => ls[i].calls \subseteq ls[k].calls

LastCall(ls, m) == m \in CallLines(ls) /\ \A k \in CallLines(ls) : k <= m

\* What a total must be to come after those of ls.
ComesAfter(ls, t) ==
    /\ t \subseteq Given(harness) /\ t # {} /\ IsFiniteSet(t)
    /\ \A i \in CallLines(ls) : Continues(ls[i].calls, t)
    /\ \A i, k \in CallLines(ls) : i < k /\ ls[i].calls \subseteq t => ls[i].calls \subseteq ls[k].calls

\* The log of a session is one file, its entries come in their order, and its
\* totals as the deltas need them.
LogInv ==
    harness = "fx" =>
        /\ \A f, g \in Files : session[f] = session[g] /\ session[f] # 0 => f = g
        /\ \A f \in Files : session[f] # 0 => files[f] # <<>>
        /\ \A d, e \in Given(harness) : Precedes(d, e) /\ Logged(e) => Logged(d)
        /\ \A f \in Files : Totals(files[f])

\* The events of a file have no call in common.
FxInv ==
    harness = "fx" =>
        /\ \A ev \in events : /\ ev.file \in Files \ todo
                              /\ ev.session # 0 /\ session[ev.file] = ev.session
                              /\ \A e \in ev.calls : e[1] = ev.session
        /\ \A ev, dv \in events : ev.file = dv.file => ev = dv \/ ev.calls \cap dv.calls = {}

-----------------------------------------------------------------------------
(***************************************************************************)
(* Copilot: of the records that a call is in, those that count are of one  *)
(* source, trace and span, and are merged.                                 *)
(***************************************************************************)
OtelInv ==
    harness = "copilot" =>
        /\ carried \subseteq Written
        /\ ~done => events = {}
        /\ done => todo = {}
        /\ \A e \in Calls : Known(e) => \A ev, dv \in CountsOf(e) : ev = dv

-----------------------------------------------------------------------------
(***************************************************************************)
(* What holds of the files and of the calls counted.                       *)
(***************************************************************************)
CountingInv ==
    /\ WorldInv
    /\ todo \subseteq Files
    /\ KeyedInv
    /\ LogInv /\ FxInv
    /\ OtelInv

-----------------------------------------------------------------------------
(***************************************************************************)
(* Turns: the entries of a file come in their order, and a file that goes  *)
(* on from a copy has all the calls before.                                *)
(***************************************************************************)
\* The readers that look for a prompt in the file itself, in which a session is
\* whole, and those that look for it at all in what was said.
Whole == {"claude", "gemini", "pi", "junie", "amp", "kilo"}
Tellers == Whole \cup {"qwen"}

\* A line of an entry that is not in any file, and one of an entry that is.
Fresh(f, l) ==
    /\ ~Logged(l.entry)
    /\ \A d \in Given(harness) : Precedes(d, l.entry) => Logged(d)
    /\ \/ \E k \in Lines(f) : \A d \in Given(harness) : Precedes(d, l.entry) => d[2] <= k.entry[2]
       \/ harness \in SpansFiles
       \/ \A d \in Given(harness) : ~Precedes(d, l.entry)
    /\ l.kind = "prompt" => l.dated
    /\ odd' = 0 => l.cell = "good" /\ l.dated

Again(f, l) ==
    \E k \in Lines(f) :
        /\ k.entry = l.entry
        /\ \/ harness = "amp" /\ l.kind = "record"
           \/ harness \in Replays /\ l = k /\ l.kind = "call" /\ odd' # 0
           \/ /\ harness = "claude" /\ k = LastOf(f) /\ k.kind = "call" /\ l.kind = "call"
              /\ l.cell = "good"

Repeats(f, j) ==
    \/ files[f][j].kind = "record"
    \/ harness \in Replays /\ files[f][j].kind = "call" /\ \E i \in DOMAIN files[f] : i < j /\ files[f][i] = files[f][j]

OrderInv ==
    harness \in Tellers =>
        /\ \A d, e \in Given(harness) : Precedes(d, e) /\ Logged(e) => Logged(d)
        /\ \A f \in Files : \A i, j \in DOMAIN files[f] :
                i < j /\ ~Repeats(f, j) => files[f][i].entry[2] <= files[f][j].entry[2]
        /\ harness \in Whole =>
                \A f, g \in Files : \A k \in Lines(f), l \in Lines(g) :
                    SameSession(k.entry, l.entry) /\ k.kind = "call" /\ k.entry[2] <= l.entry[2] =>
                        \E m \in Lines(g) : m.entry = k.entry /\ m.kind = "call"
        /\ harness # "claude" =>
                \A k, l \in Written : k.kind = "call" /\ l.kind = "call" /\ k.entry = l.entry => k = l
        /\ \A l \in Written : l.kind = "prompt" => l.dated

\* Without an odd line all lines are good.
EvenInv ==
    /\ harness \in MarksTurns => odd \in Nat
    /\ harness \in Tellers \ {"amp"} /\ odd = 0 => \A l \in Written : l.cell = "good" /\ l.dated

-----------------------------------------------------------------------------
(***************************************************************************)
(* Turns: what the readers of whole sessions make of a prompt.             *)
(***************************************************************************)
\* The lines that use up a prompt, whichever reader it is.
Row(l) ==
    /\ l.kind = "call"
    /\ l.cell \in CASE harness = "claude" -> Cells \ {"torn"}
                    [] harness = "junie" -> {"good"}
                    [] OTHER -> {"good", "zero"}

\* An event of a row of file f that a prompt before it starts a turn with, no
\* row between them being the first of its call.
Told(f, ev) ==
    \E i, q \in DOMAIN files[f] :
        /\ ev.calls = files[f][i].calls
        /\ Row(files[f][i]) /\ ~Repeats(f, i) /\ (harness = "kilo" => files[f][i].dated)
        /\ files[f][q].kind = "prompt" /\ q < i
        /\ \A j \in DOMAIN files[f] : q < j /\ j < i /\ Row(files[f][j]) /\ files[f][j].dated =>
                \E k \in DOMAIN files[f] :
                    k < q /\ files[f][k].entry = files[f][j].entry /\ files[f][k].kind = "call"

\* An event of a call that a prompt before it starts a turn with: no row of a
\* call comes between them.
Started(ev) ==
    \E l \in Written, p \in Prompts :
        /\ ev.calls = {l.entry}
        /\ Row(l) /\ (harness = "kilo" => l.dated)
        /\ Precedes(p, l.entry)
        /\ \A k \in Written : Row(k) /\ k.dated /\ Precedes(p, k.entry) => ~Precedes(k.entry, l.entry)

TurnInv == harness \in Whole /\ ~TurnsBlurred => \A ev \in events : ev.turn => Started(ev)

-----------------------------------------------------------------------------
(***************************************************************************)
(* Turns: Qwen's, whose prompts may be in a file before.                   *)
(***************************************************************************)
\* The event of a call that a prompt before it starts a turn with: no call
\* counted is between them.
Asked(ev) ==
    \E e \in Given(harness), p \in Prompts :
        /\ ev.calls = {e} /\ Precedes(p, e)
        /\ \A dv \in events : \A d \in dv.calls : Precedes(p, d) => ~Precedes(d, e)

\* A prompt in a file that is read, and no call counted after it.
Owed(s) ==
    \E g \in Files : \E l \in Lines(g) :
        /\ l.kind = "prompt" /\ l.entry[1] = s
        /\ \A f \in todo : g < f
        /\ \A dv \in events : \A d \in dv.calls : ~Precedes(l.entry, d)

QwenInv ==
    harness = "qwen" =>
        /\ \A ev \in events, f \in todo : ev.file < f
        /\ ~TurnsBlurred => /\ \A ev \in events : ev.turn => Asked(ev)
                            /\ \A s \in carried : Owed(s)

-----------------------------------------------------------------------------
(***************************************************************************)
(* Turns: fx's, which a commit ends.  Between two commits are the calls of *)
(* one prompt, and no delta of a total has calls of both sides.            *)
(***************************************************************************)
CommitLines(ls) == {c \in DOMAIN ls : ls[c].kind = "commit"}

\* The calls before a commit in the log are those before it in the session.
Parted(given, ls, c) ==
    /\ \A i \in CallLines(ls) : i < c => \A e \in ls[i].calls : e[2] < ls[c].entry[2]
    /\ \A d \in given : Kind(d) = "call" /\ Precedes(d, ls[c].entry) =>
            \E i \in CallLines(ls) : i < c /\ d \in ls[i].calls

CommitInv ==
    harness = "fx" =>
        /\ \A f \in Files : \A i \in CallLines(files[f]) : files[f][i].entry \in files[f][i].calls
        /\ \A f \in Files : \A c \in CommitLines(files[f]) : Parted(Given(harness), files[f], c)

\* A prompt is between the calls of any two turns of a session.
Between(ev, dv) ==
    \E q \in Prompts : \A e \in ev.calls, d \in dv.calls :
        /\ e \in Calls /\ d \in Calls
        /\ (Precedes(e, q) /\ Precedes(q, d)) \/ (Precedes(d, q) /\ Precedes(q, e))

FxTurnInv ==
    harness = "fx" /\ ~TurnsBlurred =>
        \A ev, dv \in events :
            ev.turn /\ dv.turn /\ ev.file = dv.file => ev = dv \/ Between(ev, dv)

-----------------------------------------------------------------------------
(***************************************************************************)
(* Turns: what follows from how each was started.                          *)
(***************************************************************************)
TurnsInv ==
    /\ CountingInv
    /\ OrderInv /\ EvenInv
    /\ TurnInv
    /\ QwenInv
    /\ CommitInv /\ FxTurnInv

-----------------------------------------------------------------------------
(***************************************************************************)
(* What was in a file when it was listed.                                  *)
(***************************************************************************)
\* A row of totals is one line, its calls all that the session had.
SnapInv ==
    harness \in Snapshots =>
        \A f \in Files : Len(files[f]) <= 1 /\ (session[f] # 0 => files[f] # <<>>)

\* Where files are not moved away, they keep what they were listed with.
HeldInv ==
    /\ todo \subseteq Files
    /\ held \in [Files -> SUBSET Calls]
    /\ done => todo = {}
    /\ harness \notin Rotates =>
            /\ \A f \in Files : held[f] \subseteq Knowable(f)
            /\ \A f \in todo : session[f] # 0

\* Kiro and DeepSeek: the files of a session agree as far as both go, and of
\* DeepSeek's the one that is listed first goes furthest.
Agreeing == {"kiro", "deepseek"}

AgreeInv ==
    harness \in Agreeing =>
        /\ \A f \in Files : \A i, j \in DOMAIN files[f] :
                i < j => Precedes(files[f][i].entry, files[f][j].entry)
        /\ \A d, e \in Given(harness) : Precedes(d, e) /\ Logged(e) => Logged(d)
        /\ \A f, g \in Files : session[f] = session[g] =>
                \A i \in DOMAIN files[f] \cap DOMAIN files[g] : files[f][i] = files[g][i]
        /\ harness = "deepseek" =>
                \A f, g \in Files : f < g /\ session[f] = session[g] /\ session[f] # 0
                    => DOMAIN files[g] \subseteq DOMAIN files[f]

-----------------------------------------------------------------------------
(***************************************************************************)
(* What a reader makes of the lines of a file: a line with usage, usable   *)
(* or not, is in an event, one under its own key at least, or is reported. *)
(***************************************************************************)
Booked(f) ==
    \A i \in DOMAIN files[f] :
        files[f][i].kind \in {"call", "record"} /\ files[f][i].cell \in {"good", "bad", "torn"} =>
            \/ RowKey(f, i) \in Keys(ReadingOf(f).events)
            \/ files[f][i].calls \subseteq ReadingOf(f).reported

\* The lines that its reader reports in skipped, those that are no JSON with them.
Reports(f, unusable) ==
    ReadingOf(f).reported =
        CallsOf(files[f], unusable \cup {i \in DOMAIN files[f] : files[f][i].cell = "torn"})

\* The entries of the ledger that a thread's messages take one after the other.
Takes(g, N, ls, rows, ledger, alike) ==
    g = [n \in 0..N |-> IF n = 0 THEN {}
                        ELSE g[n - 1] \cup
                             (IF n \in rows THEN AmpMatch(ls, n, ledger \ g[n - 1], alike) ELSE {})]

-----------------------------------------------------------------------------
(***************************************************************************)
(* Rotations: what is not where it was when the files were listed is where *)
(* it was not then, in a file listed after all that have lost it.          *)
(***************************************************************************)
InPlace(e) == \A g \in Files : e \in held[g] <=> e \in Knowable(g)

Displaced(e) ==
    \E g \in Files : /\ e \in Knowable(g) /\ e \notin held[g]
                     /\ \A h \in Files : e \in held[h] /\ e \notin Knowable(h) => h < g

MoveInv ==
    harness \in Rotates => \A f \in Files : \A e \in held[f] : InPlace(e) \/ Displaced(e)

-----------------------------------------------------------------------------
(***************************************************************************)
(* What was in the files read so far is in an event, reported or excused.  *)
(***************************************************************************)
Settled(f, e) ==
    \/ CountsOf(e) # {} \/ e \in reported \/ f \in passed
    \/ ~Known(e) \/ Mistaken \/ Hidden(f) \/ Restarted(f) \/ CutOff(f)
    \/ harness \in Rotates /\ Displaced(e)

BookedInv ==
    harness # "copilot" => \A f \in Files \ todo : \A e \in held[f] : Settled(f, e)

-----------------------------------------------------------------------------
(***************************************************************************)
(* Goose, Zed and Mux: what is in no event yet is in a store that is still *)
(* to be read, after all that gave one.                                    *)
(***************************************************************************)
Stores == {"goose", "zed", "mux"}

BelowInv == harness \in Stores => \A ev \in events : \A f \in todo : ev.file < f

StoreKnown(f) == <<"session", session[f]>> \in Keys(events)
StoreRows(f) ==
    {i \in Rows(files[f], {"good"}) : ~StoreKnown(f) /\ \A j \in Rows(files[f], {"good"}) : ~(j < i)}
StoreEvent(f, i) == Event(f, session[f], files[f][i], <<"session", session[f]>>, FALSE)

-----------------------------------------------------------------------------
(***************************************************************************)
(* DeepSeek: what an older log of a session has is in the newest one, or   *)
(* past where that one breaks off.                                         *)
(***************************************************************************)
DeepInv ==
    harness = "deepseek" =>
        \A f \in todo : session[f] \in carried =>
            \A e \in held[f] : CountsOf(e) # {} \/ e \in reported \/ CutOff(f)

-----------------------------------------------------------------------------
(***************************************************************************)
(* Droid: of the files of a session the one written last has all the calls *)
(* of the others.                                                          *)
(***************************************************************************)
Upto(e) == {d \in Given("droid") : d[1] = e[1] /\ d[2] <= e[2]}
Total(f) == UNION {l.calls : l \in Lines(f)}

DroidInv ==
    harness = "droid" =>
        /\ \A f \in Files : \A l \in Lines(f) : l.calls = Upto(l.entry)
        /\ \A f, g \in Files : f # g /\ session[f] = session[g] /\ session[f] # 0
                => Newer(f, g) \/ Newer(g, f)
        /\ \A f, g \in Files : session[f] = session[g] /\ session[f] # 0 /\ Newer(f, g)
                => Total(g) \subseteq Total(f)

\* The events that a file of Droid's takes the place of.
Older(f) == {ev \in events : ev.session = session[f] /\ ~Newer(ev.file, f)}

\* What an event of Droid leaves out no file had when it was listed.
DroidEvents ==
    harness = "droid" =>
        \A ev \in events :
            /\ ev.file \in Files /\ ev.session # 0 /\ session[ev.file] = ev.session
            /\ ev.key = <<"session", ev.session>>
            /\ ev.calls \subseteq Total(ev.file)
            /\ \A f \in todo : session[f] = ev.session =>
                    \A e \in held[f] : e \in ev.calls \/ e \notin Total(ev.file)

-----------------------------------------------------------------------------
(***************************************************************************)
(* Copilot: of the records that a call is in, the best is chosen, or is    *)
(* outranked by one that no record of the call is as good as.              *)
(***************************************************************************)
RecordsInv ==
    harness = "copilot" =>
        /\ ~done => \A f \in Files \ todo : \A e \in held[f] :
                        e \in reported \/ \E l \in OtelCandidates(carried) : e \in l.calls
        /\ done => \A f \in Files : \A e \in held[f] :
                        CountsOf(e) # {} \/ e \in reported \/ Outranked(e)

-----------------------------------------------------------------------------
(***************************************************************************)
(* Nothing is lost silently.                                               *)
(***************************************************************************)
LossInv ==
    /\ CountingInv
    /\ SnapInv /\ HeldInv
    /\ AgreeInv /\ MoveInv
    /\ BelowInv /\ DeepInv
    /\ DroidInv /\ DroidEvents
    /\ RecordsInv
    /\ BookedInv

-----------------------------------------------------------------------------
(***************************************************************************)
(* A call that had its final usage when the files were listed is counted   *)
(* with it.                                                                *)
(***************************************************************************)
Finished(l, e) == l.full /\ l.cell = "good" /\ e \in l.calls

\* Its line is still somewhere, but for rows that are rewritten.
FinalLines == harness \notin Snapshots => \A e \in final : \E l \in Written : Finished(l, e)

\* CommandCode's line that follows another of its call is the final one.
RewriteInv ==
    harness = "commandcode" => \A f \in Files : \A i, j \in DOMAIN files[f] :
        i < j /\ files[f][i].entry = files[f][j].entry =>
            files[f][j].full /\ files[f][j].dated = files[f][i].dated

\* An event of such a call has its final usage.
FullEvents ==
    harness \notin {"claude", "kimi", "droid"} =>
        \A ev \in events : \A e \in ev.calls \cap final : ev.full \/ ~Known(e)

-----------------------------------------------------------------------------
(***************************************************************************)
(* Kimi: of the updates of a call the largest stays, whatever is read      *)
(* later.                                                                  *)
(***************************************************************************)
\* The final update of a call is in an event, or in a file still to be read.
KimiFinal ==
    harness = "kimi" => \A e \in final :
        \/ e \in reported \/ ~Known(e) \/ \E ev \in CountsOf(e) : ev.full
        \/ \E f \in todo : e \in held[f] /\ \E i \in DOMAIN files[f] : Finished(files[f][i], e)

-----------------------------------------------------------------------------
(***************************************************************************)
(* Droid: of the files of a session one with its total is kept.            *)
(***************************************************************************)
\* As no total goes back to zeros, a file of zeros has not the last call of a
\* file of its session that is not of zeros.
DroidCells ==
    harness = "droid" => \A f, g \in Files :
        session[f] = session[g] /\ session[f] # 0 /\ files[g][1].cell = "zero" /\ files[f][1].cell # "zero"
            => files[f][1].entry \notin Total(g)

\* Of Droid's files one with its total is kept, or is still to be read and
\* will be.
DroidFinal ==
    harness = "droid" => \A e \in final :
        \/ e \in reported
        \/ \E ev \in CountsOf(e) : ev.full /\ files[ev.file][1].cell # "zero"
        \/ \E f \in todo : /\ e \in held[f] /\ files[f][1].cell # "zero"
                           /\ \A ev \in events : ev.session = session[f] /\ ~ev.full
                                                    => files[ev.file][1].cell = "zero"

-----------------------------------------------------------------------------
(***************************************************************************)
(* Copilot: a record of a call that is over has the call's own span        *)
(* beside it, which is read with it and chosen before it.                  *)
(***************************************************************************)
\* The finished span of a record's call.  A record of Copilot's made from one of
\* a call in progress has it beside it, and so has the span that was written
\* then, once anything final is written of the call.
Twin(l, lines) ==
    \E t \in lines : /\ t.kind = "chat" /\ t.entry = l.entry /\ t.full /\ t.cell = "good"
                     /\ l.named => t.named

TwinInv ==
    harness = "copilot" => \A f \in Files : \A l \in Lines(f) :
        /\ \A k \in Lines(f) : k.kind = "chat" /\ l.kind = "chat" /\ k.entry = l.entry
                => k.named = l.named
        /\ ~l.full /\ (l.kind # "chat" \/ \E n \in Written : n.full /\ l.entry \in n.calls)
                => Twin(l, Lines(f))

CarriedInv ==
    harness = "copilot" =>
        \A l \in carried : ~l.full /\ (l.kind # "chat" \/ l.entry \in final) => Twin(l, carried)

-----------------------------------------------------------------------------
(***************************************************************************)
(* A call with final usage when the files were listed is counted with it.  *)
(***************************************************************************)
UsageInv ==
    /\ LossInv
    /\ FinalLines /\ RewriteInv
    /\ FullEvents /\ KimiFinal
    /\ DroidCells /\ DroidFinal
    /\ TwinInv /\ CarriedInv
=============================================================================
