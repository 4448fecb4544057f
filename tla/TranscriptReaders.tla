------------------------- MODULE TranscriptReaders -------------------------
(***************************************************************************)
(* The readers of the harnesses that leave a transcript or a row of totals *)
(* per session, in readers/{claude,codebuddy,qwen,gemini,pi,openclaw,      *)
(* commandcode,opencodereview,junie,kimi,amp,codebuff,augment,kilo,kiro,   *)
(* trae,cherrystudio,goose,zed,mux,droid,fx,deepseek,copilot}.rs.           *)
(*                                                                         *)
(* A file (or a table) is a sequence of lines, and a line a record:        *)
(*   kind   "prompt", "call" (the usage of a call), "record" (an entry of  *)
(*          amp's ledger, kimi's usage.record), "commit" (fx's end of a    *)
(*          turn), and what Copilot's OTel exporter writes of a call;      *)
(*   calls  the calls whose usage it holds: one, all that a running total  *)
(*          includes, or those of CodebuffUsages;                          *)
(*   cell   "good", "zero" (usage of zeros), "none" (no usage),            *)
(*          "bad" (usage the reader cannot use), "torn" (not even JSON);   *)
(*   full   whether the usage is final, not that of a call in progress;    *)
(*   named, dated  whether it bears an id and a date of its own;           *)
(*   spanned  whether an OTel log bears the id of its call's span;         *)
(*   row    its place in its record, where a line of a file has several.   *)
(* Each operator is the code that reads one file of one harness: from the  *)
(* file's number f, its session, its lines ls and the events so far, to    *)
(* the events after it and the calls it reports in skipped.                *)
(***************************************************************************)
EXTENDS Integers, Sequences, FiniteSets

Holding(ls, kind, cells) ==
    {i \in DOMAIN ls : ls[i].kind = kind /\ ls[i].cell \in cells}
Rows(ls, cells) == Holding(ls, "call", cells)
PromptLines(ls) == Holding(ls, "prompt", {"good"})
Seen(ls, kind) == Holding(ls, kind, {"good", "zero", "none", "bad"})
CallsOf(ls, lines) == UNION {ls[i].calls : i \in lines}

Event(f, session, l, key, turn) ==
    [file |-> f, session |-> session, calls |-> l.calls,
     full |-> l.full /\ l.cell = "good", turn |-> turn, key |-> key]

Keys(events) == {ev.key : ev \in events}

\* read_jsonl_lines reports a line that is no JSON, whatever its reader does.
Reading(events, ls, unusable) ==
    [events |-> events,
     reported |-> CallsOf(ls, unusable \cup {i \in DOMAIN ls : ls[i].cell = "torn"})]

\* The identities a reader gives a line: its id, its place, its instant (the
\* file's own when it has no date) and its usage, which calls may share.
Id(l) == <<"id", l.calls>>
Place(f, i) == <<"place", f, i>>
InstantOfFile(f, l) == <<f, {}>>
Instant(f, l) == IF l.dated THEN <<0, l.calls>> ELSE <<f, {}>>
Usage(l, alike) == <<IF alike THEN {} ELSE l.calls, l.full>>

\* Of the lines with one key the first counts, unless an event has the key.
First(rows, Key(_), past) ==
    {i \in rows : /\ Key(i) \notin Keys(past)
                  /\ \A j \in rows : j < i => Key(j) # Key(i)}

\* A prompt before line i that no line of spent has used up.
AfterPrompt(ls, i, spent) ==
    \E p \in PromptLines(ls) : p < i /\ \A j \in spent : ~(p < j /\ j < i)

Counted(f, session, ls, rows, Key(_), Turn(_)) ==
    {Event(f, session, ls[i], Key(i), Turn(i)) : i \in rows}

Always(i) == TRUE
Never(i) == FALSE

-----------------------------------------------------------------------------
(***************************************************************************)
(* Transcripts.                                                            *)
(***************************************************************************)
\* For each reader: the rows, the lines whose usage its parser takes; where it
\* needs words, the key of a row; and what it does with a file.

\* Claude Code and CodeBuddy: a message is counted where it is met first, its
\* id deciding, and any assistant line, counted or not, uses up the prompt.
ClaudeRows(ls) == Rows(ls, {"good", "zero"})

Claude(f, session, ls, past) ==
    LET Key(i) == IF ls[i].named THEN Id(ls[i]) ELSE Place(f, i)
        Turn(i) == AfterPrompt(ls, i, Seen(ls, "call"))
    IN  Reading(past \cup Counted(f, session, ls, First(ClaudeRows(ls), Key, past), Key, Turn),
                ls, Rows(ls, {"bad"}))

\* Qwen goes through the messages of a session over all its files: a prompt
\* that one file leaves owed starts a turn in the next.
QwenRows(ls) == Rows(ls, {"good"})

QwenOwesAnswered(ls, owed) == PromptLines(ls) # {} \/ owed

QwenOwes(ls, owed) ==
    AfterPrompt(ls, Len(ls) + 1, QwenRows(ls)) \/ (owed /\ QwenRows(ls) = {})

Qwen(f, session, ls, past, owed) ==
    LET Key(i) == Place(f, i)
        Turn(i) == \/ AfterPrompt(ls, i, QwenRows(ls))
                   \/ owed /\ \A j \in QwenRows(ls) : j >= i
    IN  Reading(past \cup Counted(f, session, ls, QwenRows(ls), Key, Turn),
                ls, Rows(ls, {"bad"}))

GeminiRows(ls) == Rows(ls, {"good", "zero"})
GeminiTurnLast(ls, i) ==
    /\ \E p \in PromptLines(ls) : p < i
    /\ \A j \in GeminiRows(ls) : j > i => \E p \in PromptLines(ls) : i < p /\ p < j
GeminiTurn(ls, i) == AfterPrompt(ls, i, GeminiRows(ls))

Gemini(f, session, ls, past) ==
    LET Key(i) == Place(f, i)
        Turn(i) == GeminiTurn(ls, i)
    IN  Reading(past \cup Counted(f, session, ls, GeminiRows(ls), Key, Turn),
                ls, Rows(ls, {"bad"}))

\* pi, omp, Prime Agent, gajae-code and Kimchi.
Pi(f, session, ls, past) ==
    LET rows == {i \in Rows(ls, {"good", "zero"}) : ls[i].named}
        Key(i) == <<"message", session, Id(ls[i]), Usage(ls[i], FALSE), ls[i].cell>>
        Turn(i) == AfterPrompt(ls, i, Seen(ls, "call"))
    IN  Reading(past \cup Counted(f, session, ls, First(rows, Key, past), Key, Turn),
                ls, Seen(ls, "call") \ rows)

\* OpenClaw and Junie know no id: session, instant, usage and, Junie, the row
\* in its record identify a call.
OpenclawRows(ls) == Rows(ls, {"good"})
UsageKey(f, session, l, alike) == <<"usage", session, Instant(f, l), Usage(l, alike), l.row>>

Openclaw(f, session, ls, past, alike) ==
    LET Key(i) == UsageKey(f, session, ls[i], alike)
    IN  Reading(past \cup Counted(f, session, ls, First(OpenclawRows(ls), Key, past), Key, Always),
                ls, {})

\* A repeated id is a rewrite, and the last line of the file with it counts.
CommandcodeRows(ls) == {i \in Rows(ls, {"good", "zero"}) : ls[i].dated}

Commandcode(f, session, ls, past) ==
    LET rows == CommandcodeRows(ls)
        Key(i) == IF ls[i].named THEN <<"in", f, Id(ls[i])>> ELSE Place(f, i)
        last == {i \in rows : \A j \in rows : j > i => Key(j) # Key(i)}
    IN  Reading(past \cup Counted(f, session, ls, last, Key, Always),
                ls, Rows(ls, {"good", "zero", "bad"}) \ rows)

\* OpenCodeReview, Trae and Cherry Studio identify a record by its place.
EachRecord(f, session, ls, past, rows, Turn(_)) ==
    LET Key(i) == Place(f, i)
    IN  Reading(past \cup Counted(f, session, ls, rows, Key, Turn), ls, Rows(ls, {"bad"}))

OpencodereviewRows(ls) == Rows(ls, {"good"})
Opencodereview(f, session, ls, past) ==
    EachRecord(f, session, ls, past, OpencodereviewRows(ls), Always)

TraeRows(ls) == Rows(ls, {"good"})
Trae(f, session, ls, past) == EachRecord(f, session, ls, past, TraeRows(ls), Always)

Cherrystudio(f, session, ls, past) ==
    EachRecord(f, session, ls, past, Rows(ls, {"good"}), Never)

\* A record of Junie's has a row for each model used, an event each, and the
\* first new one starts the turn.  A record whose rows were all seen before
\* leaves the prompt to the next one; one without usage, or with a row that is
\* counted, uses it up.
JunieRows(ls) == Rows(ls, {"good"})
JunieRecord(ls, i) == {j \in DOMAIN ls : j - ls[j].row = i - ls[i].row}

JunieSpent(ls, counted) ==
    counted \cup {i \in Seen(ls, "call") : JunieRecord(ls, i) \cap JunieRows(ls) = {}}

Junie(f, session, ls, past, alike) ==
    LET Key(i) == UsageKey(f, session, ls[i], alike)
        counted == First(JunieRows(ls), Key, past)
        Turn(i) == AfterPrompt(ls, i, JunieSpent(ls, counted))
    IN  Reading(past \cup Counted(f, session, ls, counted, Key, Turn), ls, {})

\* Kimi's usage.record lines, and updates without an id, count each; the
\* updates with one id count once, in the largest: the totals decide, and among
\* equal ones their dates, which no event here tells.
KimiRows(ls) == Rows(ls, {"good"}) \cup Holding(ls, "record", {"good"})

KimiSlot(f, session, ls, i) ==
    IF ls[i].named /\ ls[i].kind = "call" THEN <<"slot", session, Id(ls[i])>> ELSE Place(f, i)

KimiReplacesLarger(candidate, existing) == existing.full \/ ~candidate.full
KimiReplaces(candidate, existing) == candidate.full \/ ~existing.full

Kimi(f, session, ls, past) ==
    LET Slot(i) == KimiSlot(f, session, ls, i)
        best == {i \in KimiRows(ls) : \A j \in KimiRows(ls) \ {i} :
                    Slot(j) = Slot(i) => IF j < i THEN KimiReplaces(ls[i], ls[j])
                                                  ELSE ~KimiReplaces(ls[j], ls[i])}
        kept == {i \in best : \A ev \in past : ev.key = Slot(i) => KimiReplaces(ls[i], ev)}
        beaten == {ev \in past : \E i \in kept : ev.key = Slot(i)}
    IN  Reading((past \ beaten) \cup Counted(f, session, ls, kept, Slot, Always), ls, {})

\* The entry of amp's ledger that a message takes among those still free: the
\* one with its id, or else the first with its model and tokens.
AmpMatch(ls, i, free, alike) ==
    LET own == {r \in free : ls[r].named /\ ls[i].named /\ ls[r].calls = ls[i].calls}
        like == {r \in free : alike \/ ls[r].calls = ls[i].calls}
        Least(rs) == {r \in rs : \A q \in rs : r <= q}
    IN  IF own # {} THEN Least(own) ELSE Least(like)

\* A thread's messages each take an entry of its ledger; what no message took
\* counts as well.  A message without id has that of its entry, if it took one.
AmpRows(ls, kind) == Holding(ls, kind, {"good", "zero"})
AmpName(session, l) == <<"message", session, Id(l)>>
AmpLedgerKey(f, session, ls, r) == IF ls[r].named THEN AmpName(session, ls[r]) ELSE Place(f, r)

Amp(f, session, ls, past, alike) ==
    LET rows == AmpRows(ls, "call")
        ledger == AmpRows(ls, "record")
        LedgerKey(r) == AmpLedgerKey(f, session, ls, r)
        taken[n \in 0..Len(ls)] ==
            IF n = 0 THEN {}
            ELSE taken[n - 1] \cup
                 (IF n \in rows THEN AmpMatch(ls, n, ledger \ taken[n - 1], alike) ELSE {})
        Key(i) == CASE ls[i].named -> AmpName(session, ls[i])
                    [] ~ls[i].named /\ taken[i] # taken[i - 1] ->
                            LedgerKey(CHOOSE r \in taken[i] \ taken[i - 1] : TRUE)
                    [] OTHER -> <<"ledger", session>>
        Turn(i) == AfterPrompt(ls, i, Rows(ls, {"good", "zero", "bad"}))
        messages == past \cup Counted(f, session, ls, First(rows, Key, past), Key, Turn)
        left == First(ledger \ taken[Len(ls)], LedgerKey, messages)
    IN  Reading(messages \cup Counted(f, session, ls, left, LedgerKey, Never),
                ls, Rows(ls, {"bad"}))

\* The calls whose usage a message of codebuff's may be taken to have: what is
\* zero or missing of its own is filled from the entries of its run state, the
\* newest that has some deciding, its own entry or one of a call before it.
CodebuffUsages(entry, before) == SUBSET ({entry} \cup before) \ {{}}

\* Codebuff's chats: a message without id is known by its place in its chat.
CodebuffRows(ls) == Rows(ls, {"good"})
CodebuffKey(f, ls, i) == IF ls[i].named THEN <<"message", ls[i].entry>> ELSE Place(f, i)

Codebuff(f, session, ls, past) ==
    LET Key(i) == CodebuffKey(f, ls, i)
        kept == First(CodebuffRows(ls), Key, past)
    IN  Reading(past \cup Counted(f, session, ls, kept, Key, Always), ls, {})

\* Augment's completed turns, known by their request or by their position.
AugmentRows(ls) == Rows(ls, {"good"})
AugmentKey(session, ls, i) ==
    IF ls[i].named THEN <<"request", session, Id(ls[i])>> ELSE <<"turn", session, i>>

Augment(f, session, ls, past) ==
    LET Key(i) == AugmentKey(session, ls, i)
        kept == First(AugmentRows(ls), Key, past)
    IN  Reading(past \cup Counted(f, session, ls, kept, Key, Always), ls, {})

\* Kilo orders the messages of a session by their dates: none is before all.
KiloRows(ls) == Rows(ls, {"good", "zero"})
KiloBefore(ls, i, j) == IF ls[i].dated = ls[j].dated THEN i < j ELSE ls[j].dated

Kilo(f, session, ls, past) ==
    LET rows == KiloRows(ls)
        Key(i) == Id(ls[i])
        kept == {i \in rows : /\ Key(i) \notin Keys(past)
                              /\ \A j \in rows : KiloBefore(ls, j, i) => Key(j) # Key(i)}
        Turn(i) == \E p \in PromptLines(ls) :
                        /\ KiloBefore(ls, p, i)
                        /\ \A j \in rows : ~(KiloBefore(ls, p, j) /\ KiloBefore(ls, j, i))
    IN  Reading(past \cup Counted(f, session, ls, kept, Key, Turn),
                ls, Rows(ls, {"bad"}))

\* A table of Kiro: a turn is known by its conversation and its position, or
\* without the conversation's id by all that was said, and when, in the project.
KiroKey(f, session, ls, i, alike) ==
    IF ls[i].named THEN <<"turn", session, i>>
    ELSE <<"print", i, Instant(f, ls[i]), Usage(ls[i], alike)>>

KiroConversation(f, session, ls, past, alike) ==
    LET Key(i) == KiroKey(f, session, ls, i, alike)
    IN  Counted(f, session, ls, First(Rows(ls, {"good"}), Key, past), Key, Always)

Kiro(f, session, ls, past, alike) ==
    Reading(past \cup KiroConversation(f, session, ls, past, alike), ls, {})

\* DeepSeek's logs of a session are copies, the newest listed first: none is
\* read after one that could be.  A compressed log that breaks off is read up
\* to there, with a warning and no entry in skipped.
DeepseekLines(ls, compressed) ==
    {i \in DOMAIN ls : compressed => \A j \in 1..i : ls[j].cell # "torn"}

Deepseek(f, session, ls, past, done, compressed) ==
    LET read == IF done THEN {} ELSE DeepseekLines(ls, compressed)
        rows == {i \in read \cap Rows(ls, {"good"}) : ls[i].dated}
        unusable == {i \in read \cap Rows(ls, {"good", "bad", "torn"}) : i \notin rows}
        Key(i) == Place(f, i)
    IN  [events |-> past \cup Counted(f, session, ls, rows, Key, Always),
         reported |-> CallsOf(ls, unusable)]

-----------------------------------------------------------------------------
(***************************************************************************)
(* Copilot's OTel records.                                                 *)
(***************************************************************************)
\* A call has a span, a log of the inference and one of the agent's turn, and
\* a prompt has a span of all its calls; the first of these is the best.  A
\* record that names no model is "bad".
OtelSource(l) ==
    CASE l.kind = "chat" -> 0 [] l.kind = "inference" -> 1 [] l.kind = "turn" -> 2 [] l.kind = "agent" -> 3

OtelCandidates(lines) == {l \in lines : l.cell \in {"good", "bad"}}

OtelOutrankedByEqual(l, modelled, trace) ==
    \E k \in modelled : /\ OtelSource(k) <= OtelSource(l) /\ k.calls # l.calls
                        /\ trace[k] = trace[l]

\* A better record that names its model stands for all of its trace and of its
\* response.
OtelOutranked(l, modelled, trace) ==
    \E k \in modelled :
        /\ OtelSource(k) < OtelSource(l)
        /\ \/ k.named /\ l.named /\ k.calls = l.calls
           \/ trace[k] = trace[l]

\* The trace and the span.
OtelId(l, trace) ==
    <<trace, IF l.kind = "agent" THEN "agent" ELSE IF l.spanned THEN "span" ELSE l.kind, l.calls>>

OtelBest(group) == {l \in group : \A k \in group : OtelSource(l) <= OtelSource(k)}

\* Of the records with one id the best count, merged: the largest usage, and
\* the model that any of them names.
Otel(lines, trace) ==
    LET usable == OtelCandidates(lines)
        modelled == {l \in usable : l.cell = "good"}
        kept == {l \in usable : ~OtelOutranked(l, modelled, trace)}
        OwnId(l) == OtelId(l, trace[l])
        merged == {OtelBest({l \in kept : OwnId(l) = id}) : id \in {OwnId(l) : l \in kept}}
        counted == {group \in merged : group \cap modelled # {}}
        EventOf(group) ==
            LET l == CHOOSE k \in group : TRUE
            IN  [file |-> 0, session |-> 0, calls |-> l.calls,
                 full |-> \E k \in group : k.full, turn |-> FALSE, key |-> OwnId(l)]
    IN  [events |-> {EventOf(group) : group \in counted},
         reported |-> UNION {l.calls : l \in UNION (merged \ counted)
                                              \cup {k \in lines : k.cell = "torn"}}]

-----------------------------------------------------------------------------
(***************************************************************************)
(* Totals.                                                                 *)
(***************************************************************************)
\* Goose, Zed and Mux: a session that a store gave an event is not looked at
\* in the next.  Mux has totals for each model of a session, and identifies
\* them by both: a session of Mux is here one of one model, and its line that
\* model's totals, as nothing in the reader relates those of two.
FirstTotal(f, session, ls, past, rows) ==
    LET Key(i) == <<"session", session>>
        known == <<"session", session>> \in Keys(past)
    IN  Reading(past \cup Counted(f, session, ls, First(rows, Key, past), Key, Never),
                ls, IF known THEN {} ELSE Rows(ls, {"bad"}))

Goose(f, session, ls, past) == FirstTotal(f, session, ls, past, Rows(ls, {"good"}))
ZedRows(ls) == Rows(ls, {"good"})
Zed(f, session, ls, past) == FirstTotal(f, session, ls, past, ZedRows(ls))
Mux(f, session, ls, past) == FirstTotal(f, session, ls, past, Rows(ls, {"good"}))

\* Droid keeps, of the files of a session, the one written last: newer are
\* the files written after this one.
Droid(f, session, ls, past, newer) ==
    LET Key(i) == <<"session", session>>
        older == {ev \in past : ev.key = <<"session", session>> /\ ev.file \notin newer}
        kept == First(Rows(ls, {"good", "zero"}), Key, past \ older)
    IN  Reading((IF kept = {} THEN past ELSE past \ older)
                    \cup Counted(f, session, ls, kept, Key, Never),
                ls, Rows(ls, {"bad"}))

\* An entry of fx's sidecar that is not valid makes all of it so.
FxValid(ls) == Rows(ls, {"bad"}) = {}

FxSidecar(f, session, ls, past) ==
    LET Key(i) == Place(f, i)
        kept == IF FxValid(ls) THEN Rows(ls, {"good", "zero"}) ELSE {}
    IN  Reading(past \cup Counted(f, session, ls, kept, Key, Never),
                ls, IF FxValid(ls) THEN {} ELSE Seen(ls, "call"))

\* The last n calls of a session's set.
Latest(calls, n) == {e \in calls : Cardinality({d \in calls : d[2] > e[2]}) < n}

\* What a running total adds to the usable one before it, each call a unit: all
\* of it if it is less.
FxUsage(ls) == Rows(ls, {"good"})

FxDelta(ls, i) ==
    LET before == {j \in FxUsage(ls) : j < i}
        previous == IF before = {} THEN 0
                    ELSE Cardinality(ls[CHOOSE j \in before : \A k \in before : k <= j].calls)
        total == Cardinality(ls[i].calls)
    IN  Latest(ls[i].calls, IF total < previous THEN total ELSE total - previous)

\* fx's log: the last event before a turn is committed is the turn's.
Fx(f, session, ls, past) ==
    LET rows == {i \in FxUsage(ls) : FxDelta(ls, i) # {}}
        Commits(c) == ls[c].kind = "commit" /\ ls[c].cell # "torn"
        Turn(i) == \E c \in DOMAIN ls : /\ Commits(c) /\ i < c
                                        /\ \A j \in rows : j <= i \/ c < j
        AddedBy(i) == [ls[i] EXCEPT !.calls = FxDelta(ls, i)]
    IN  Reading(past \cup {Event(f, session, AddedBy(i), Place(f, i), Turn(i)) : i \in rows},
                ls, Rows(ls, {"bad"}))
=============================================================================
