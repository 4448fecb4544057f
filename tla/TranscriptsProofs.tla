-------------------------- MODULE TranscriptsProofs --------------------------
(***************************************************************************)
(* Proofs about Transcripts: whatever a harness writes, copies and rotates *)
(* between the steps of a reading, no reader counts a call that it knows   *)
(* twice, no prompt starts two turns, no call that a listed file had is    *)
(* lost silently, and one that was over then is counted with its final     *)
(* usage, for any sessions, any number of files and all the harnesses.     *)
(*                                                                         *)
(* What the harness does is put into two forms (Adds, Moves), for which    *)
(* the files' invariant is proved; what a reader makes of a file into one  *)
(* (Forms), for which the events' is.  The running totals of fx and the    *)
(* records of Copilot have invariants of their own.  That a turn is of one *)
(* prompt rests on the order of the lines, and of the entries behind them. *)
(* That nothing is lost: what a reader passes of a file is booked, under   *)
(* its line's key or as skipped, and stays so (LossInv).                   *)
(* That final usage is counted: its line stays, and whatever else was      *)
(* written of the call is not read as its usage, or gives way (UsageInv).  *)
(***************************************************************************)
EXTENDS TranscriptsInvariants, FiniteSetTheorems, WellFoundedInduction, TLAPS

LEMMA Which == harness \in Harnesses =>
    harness \in Transcribed \cup Recorded \cup Snapshots \cup {"fx"}
BY TranscriptsAssumption

LEMMA EntryTypes ==
    /\ Entries = UNION {{s} \X DOMAIN Script[s] : s \in Sessions}
    /\ \A e \in Entries : /\ e[1] \in Sessions /\ e[2] \in Nat \ {0} /\ e = <<e[1], e[2]>>
                          /\ Kind(e) \in {"prompt", "call"}
    /\ 0 \notin Sessions /\ Sessions \subseteq Nat
    /\ Calls \subseteq Entries
<1>1. \A e \in Entries : \E s \in Sessions : e \in {s} \X DOMAIN Script[s]
  BY DEF Entries
<1>2. ASSUME NEW e \in Entries
      PROVE  e[1] \in Sessions /\ e[2] \in Nat \ {0} /\ e = <<e[1], e[2]>> /\ Kind(e) \in {"prompt", "call"}
  <2>1. PICK s \in Sessions : e \in {s} \X DOMAIN Script[s]
    BY <1>1
  <2>2. Script[s] \in Seq({"prompt", "call"})
    BY TranscriptsAssumption
  <2>3. e[1] = s /\ e[2] \in DOMAIN Script[s] /\ e = <<e[1], e[2]>>
    BY <2>1
  <2> QED BY <2>2, <2>3 DEF Kind
<1> QED BY <1>2, TranscriptsAssumption DEF Entries, Calls

LEMMA GivenTypes ==
    ASSUME harness \in Harnesses
    PROVE  /\ Given(harness) \subseteq Entries
           /\ harness \in Snapshots \cup {"copilot"} => Given(harness) \subseteq Calls
BY TranscriptsAssumption, EntryTypes

LEMMA InLines ==
    ASSUME TypeInv, NEW f \in Files, NEW l \in Lines(f)
    PROVE  /\ l \in Line /\ Fits(l, session[f]) /\ l \in Written
           /\ \E i \in DOMAIN files[f] : l = files[f][i]
           /\ session[f] # 0 /\ files[f] # <<>>
<1>1. PICK i \in DOMAIN files[f] : l = files[f][i]
  BY DEF Lines
<1>2. files[f] \in Seq(Line)
  BY DEF TypeInv
<1> QED BY <1>1, <1>2 DEF TypeInv, Written, Lines

LEMMA RowTypes ==
    ASSUME TypeInv, NEW f \in Files, NEW e \in Entries, NEW l \in LinesOf(e, f)
    PROVE  l.row \in Nat
<1>1. l.row \in {0} \cup (IF harness = "junie" /\ files[f] # <<>> THEN {LastOf(f).row + 1} ELSE {})
  BY DEF LinesOf
<1>2. ASSUME files[f] # <<>> PROVE LastOf(f) \in Line
  BY <1>2 DEF TypeInv, LastOf
<1> QED BY <1>1, <1>2 DEF Line

LEMMA LogForm ==
    ASSUME TypeInv, NEW f \in Files, NEW e \in Entries, Log(f, e)
    PROVE  \E l \in Line : Adds(f, l) /\ ~Logged(l.entry) /\ l.entry = e
<1>1. e \in Given(harness) /\ Follows(e, f)
  BY DEF Log
<1>2. PICK l \in LinesFor(e, f) :
        /\ files' = [files EXCEPT ![f] = IF harness \in Snapshots THEN <<l>> ELSE Append(files[f], l)]
        /\ session' = [session EXCEPT ![f] = e[1]]
  BY DEF Log, Rewritten
<1>3. /\ l \in LinesOf(e, f)
      /\ harness = "copilot" => /\ l.spanned => MaySpan(l)
                                /\ l.kind = "chat" => l.spanned
  BY DEF LinesFor
<1>4. harness \in Harnesses /\ e \in Entries /\ Kind(e) \in {"prompt", "call"}
  BY EntryTypes DEF TypeInv
<1>5. /\ l.entry = e
      /\ l.kind \in IF Kind(e) = "prompt" THEN {IF harness = "fx" THEN "commit" ELSE "prompt"} ELSE CallKinds
      /\ l.full \in BOOLEAN /\ l.named \in BOOLEAN /\ l.dated \in BOOLEAN /\ l.spanned \in BOOLEAN
      /\ harness \notin Streams => l.full
      /\ harness \notin MayLackId => l.named
      /\ harness \notin MayLackDate => l.dated
  BY <1>3 DEF LinesOf
<1>6. l.cell \in Cells
  <2>1. OddCells(harness) \subseteq Cells
    BY DEF OddCells, Cells
  <2> QED BY <1>3, <2>1 DEF LinesOf, Cells
<1>7. /\ Kind(e) = "prompt" => l.calls = {}
      /\ Kind(e) # "prompt" /\ harness \notin Totalled => l.calls = {e}
      /\ \A d \in l.calls : d \in Calls /\ d[1] = e[1]
  <2>1. CASE Kind(e) = "prompt"
    BY <1>3, <2>1 DEF LinesOf
  <2>2. CASE Kind(e) # "prompt"
    <3>1. e \in Calls
      BY <1>4, <2>2 DEF Calls
    <3>2. CASE harness \notin Totalled
      <4>1. l.calls \in {{e}}
        BY <1>3, <2>2, <3>2 DEF LinesOf, Totalled
      <4> QED BY <2>2, <3>1, <4>1
    <3>4. CASE harness = "codebuff"
      <4>1. l.calls \in CodebuffUsages(e, {k.entry : k \in {m \in Lines(f) : m.kind = "call"}})
        BY <1>3, <2>2, <3>4 DEF LinesOf, Snapshots
      <4>2. ASSUME NEW k \in Lines(f), k.kind = "call" PROVE k.entry \in Calls /\ k.entry[1] = e[1]
        <5>1. k \in Line /\ Fits(k, session[f]) /\ session[f] # 0
          BY InLines
        <5>2. session[f] = e[1]
          BY <1>1, <5>1 DEF Follows
        <5>3. Kind(k.entry) # "prompt" /\ k.entry \in Entries /\ Kind(k.entry) \in {"prompt", "call"}
          BY <4>2, <5>1, EntryTypes DEF Fits, Marks, Line
        <5> QED BY <5>1, <5>2, <5>3 DEF Fits, Calls
      <4> QED BY <2>2, <3>1, <3>4, <4>1, <4>2 DEF CodebuffUsages, Totalled
    <3>3. CASE harness \in Totalled \ {"codebuff"}
      <4>1. l.calls \in {{e} \cup total : total \in LastTotal(f)} \cup {{e}}
        BY <1>3, <2>2, <3>3 DEF LinesOf, Totalled
      <4>2. CASE l.calls = {e}
        BY <2>2, <3>1, <3>3, <4>2
      <4>3. ASSUME NEW total \in LastTotal(f), l.calls = {e} \cup total
            PROVE  \A d \in total : d \in Calls /\ d[1] = e[1]
        <5>1. PICK i \in DOMAIN files[f] : total = files[f][i].calls
          BY DEF LastTotal
        <5>2. files[f][i] \in Lines(f)
          BY DEF Lines
        <5>3. files[f][i] \in Line /\ Fits(files[f][i], session[f]) /\ session[f] # 0
          BY <5>2, InLines
        <5>4. session[f] = e[1]
          BY <1>1, <5>3 DEF Follows
        <5>5. harness # "copilot"
          BY <3>3 DEF Totalled, Snapshots
        <5> QED BY <5>1, <5>3, <5>4, <5>5 DEF Fits, Line
      <4> QED BY <2>2, <3>1, <3>3, <4>1, <4>2, <4>3
    <3> QED BY <3>2, <3>3, <3>4
  <2> QED BY <2>1, <2>2
<1>8. /\ l.kind \in Kinds /\ l.kind \in KindsOf(harness) /\ l.kind \notin {"turn", "agent"}
      /\ l.kind \in Marks <=> Kind(e) = "prompt"
  <2>1. CallKinds \subseteq {"call", "record", "chat", "inference"} /\ CallKinds \subseteq KindsOf(harness)
    BY DEF CallKinds, KindsOf, KeepsLedger
  <2>2. CASE Kind(e) = "prompt"
    <3>1. harness # "copilot"
      BY <1>1, <1>4, <2>2, GivenTypes DEF Calls
    <3>2. l.kind = IF harness = "fx" THEN "commit" ELSE "prompt"
      BY <1>5, <2>2
    <3> QED BY <2>2, <3>1, <3>2 DEF Kinds, KindsOf, KeepsLedger, Marks
  <2>3. CASE Kind(e) # "prompt"
    <3>1. l.kind \in CallKinds
      BY <1>5, <2>3
    <3> QED BY <2>1, <2>3, <3>1 DEF Kinds, Marks
  <2> QED BY <2>2, <2>3
<1>9. l.kind = "chat" => l.spanned
  BY <1>3, <1>8 DEF KindsOf
<1>10. l \in Line
  <2>1. l = [entry |-> l.entry, kind |-> l.kind, calls |-> l.calls, cell |-> l.cell, full |-> l.full,
             named |-> l.named, dated |-> l.dated, spanned |-> l.spanned, row |-> l.row]
    BY <1>3 DEF LinesOf
  <2>3. l.row \in Nat
    BY <1>3, RowTypes
  <2>2. l.calls \in SUBSET Calls
    BY <1>7
  <2> QED BY <1>4, <1>5, <1>6, <1>8, <2>1, <2>2, <2>3 DEF Line
<1>11. /\ l.kind \notin Marks => l.cell \in {"good"} \cup OddCells(harness)
       /\ l.kind = "record" => l.cell # "bad"
  <2>1. l.cell \in {"good"} \cup (IF Kind(e) = "call" THEN OddCells(harness)
                                  ELSE IF harness \in Torn THEN {"torn"} ELSE {})
    BY <1>3 DEF LinesOf
  <2> QED BY <1>3, <1>4, <1>8, <2>1 DEF LinesFor
<1>12. Fits(l, e[1])
  BY <1>1, <1>5, <1>7, <1>8, <1>9, <1>11 DEF Fits
<1>13. session[f] \in {0, e[1]} /\ ~Logged(e)
  BY <1>1 DEF Follows
<1> QED BY <1>2, <1>5, <1>10, <1>12, <1>13 DEF Adds

LEMMA AgainForm ==
    ASSUME TypeInv, NEW f \in Files, NEW k \in Lines(f), NEW l \in Line,
           Rewritten(f, Append(files[f], l)), session' = session,
           l.entry = k.entry, Fits(l, session[f]), harness \notin Snapshots,
           harness \in WriteOnce => harness \in Replays /\ k = l,
           l.kind = "inference" => \A m \in Written : m.kind = "inference" => m.calls # l.calls
    PROVE  Adds(f, l)
<1>1. k \in Line /\ Fits(k, session[f])
  BY InLines
<1>2. session[f] = l.entry[1]
  BY <1>1 DEF Fits
<1>3. session' = [session EXCEPT ![f] = l.entry[1]]
  BY <1>2 DEF TypeInv
<1> QED BY <1>2, <1>3 DEF Adds, Rewritten

LEMMA FinishForm ==
    ASSUME TypeInv, NEW f \in Files, Finish(f)
    PROVE  \E l \in Line : Adds(f, l)
<1> DEFINE k == LastOf(f)
           l == [k EXCEPT !.full = TRUE, !.cell = "good"]
<1>1. files[f] \in Seq(Line) /\ files[f] # <<>>
  BY DEF Finish, TypeInv
<1>2. k \in Lines(f)
  BY <1>1 DEF LastOf, Lines
<1>3. k \in Line /\ Fits(k, session[f]) /\ session[f] # 0
  BY <1>2, InLines
<1>4. k.kind \in {"call", "chat"} /\ ~k.full
  BY DEF Finish
<1>5. l \in Line /\ l.entry = k.entry /\ l.kind = k.kind /\ l.calls = k.calls /\ l.full
      /\ l.named = k.named /\ l.dated = k.dated /\ l.spanned = k.spanned /\ l.cell = "good"
  BY <1>3 DEF Line, Cells
<1>6. harness \in Streams
  BY <1>3, <1>4 DEF Fits
<1>7. Fits(l, session[f])
  BY <1>3, <1>5, <1>6, <1>4 DEF Fits
<1>8. Rewritten(f, Append(files[f], l)) /\ session' = session
  BY DEF Finish
<1>9. harness \notin WriteOnce /\ harness \notin Snapshots /\ l.kind # "inference"
  BY <1>4, <1>5, <1>6 DEF WriteOnce, Streams, Snapshots
<1> HIDE DEF l, k
<1> QED BY <1>2, <1>5, <1>7, <1>8, <1>9, AgainForm

LEMMA LedgerForm ==
    ASSUME TypeInv, NEW f \in Files, Ledger(f)
    PROVE  \E l \in Line : Adds(f, l)
<1>1. harness = "amp" /\ session' = session
  BY DEF Ledger
<1>2. PICK i \in DOMAIN files[f], named \in BOOLEAN :
        /\ files[f][i].kind = "call"
        /\ Rewritten(f, Append(files[f], [files[f][i] EXCEPT !.kind = "record", !.cell = "good",
                                                             !.named = named]))
  BY DEF Ledger
<1> DEFINE k == files[f][i]
           l == [k EXCEPT !.kind = "record", !.cell = "good", !.named = named]
<1>3. k \in Lines(f)
  BY DEF Lines
<1>4. k \in Line /\ Fits(k, session[f])
  BY <1>3, InLines
<1>5. l \in Line /\ l.entry = k.entry /\ l.kind = "record" /\ l.calls = k.calls /\ l.full = k.full
      /\ l.dated = k.dated /\ l.cell = "good"
  BY <1>4 DEF Line, Cells, Kinds
<1>6. Fits(l, session[f])
  BY <1>1, <1>2, <1>4, <1>5 DEF Fits, KindsOf, KeepsLedger, Marks, Totalled, Snapshots, Streams,
     MayLackId, MayLackDate
<1>7. harness \notin WriteOnce /\ harness \notin Snapshots
  BY <1>1 DEF WriteOnce, Snapshots
<1>8. Rewritten(f, Append(files[f], l))
  BY <1>2
<1> HIDE DEF l, k
<1> QED BY <1>1, <1>3, <1>5, <1>6, <1>7, <1>8, AgainForm

LEMMA TelemetryForm ==
    ASSUME TypeInv, NEW f \in Files, Telemetry(f)
    PROVE  \E l \in Line : Adds(f, l)
<1>1. harness = "copilot" /\ session' = session
  BY DEF Telemetry
<1>2. PICK k \in Lines(f), kind \in {"inference", "turn", "agent"} :
        LET of == IF kind = "agent" THEN {e \in Given(harness) : PromptOf(e) = PromptOf(k.entry)}
                                    ELSE {k.entry}
        IN  /\ of \subseteq {e \in Given(harness) : Logged(e) /\ Over(e)}
            /\ \A m \in Written : ~(m.kind = kind /\ m.calls = of)
            /\ \E cell \in {"good", "bad"}, spanned \in BOOLEAN :
                LET record == [k EXCEPT !.kind = kind, !.calls = of, !.cell = cell,
                                        !.spanned = spanned, !.named = k.named /\ kind # "agent"]
                IN  /\ ~spanned \/ MaySpan(record)
                    /\ Rewritten(f, Append(files[f], record))
  BY DEF Telemetry
<1> DEFINE of == IF kind = "agent" THEN {e \in Given(harness) : PromptOf(e) = PromptOf(k.entry)}
                                   ELSE {k.entry}
<1>3. PICK cell \in {"good", "bad"}, spanned \in BOOLEAN :
        LET record == [k EXCEPT !.kind = kind, !.calls = of, !.cell = cell,
                                !.spanned = spanned, !.named = k.named /\ kind # "agent"]
        IN  /\ ~spanned \/ MaySpan(record)
            /\ Rewritten(f, Append(files[f], record))
  BY <1>2
<1> DEFINE l == [k EXCEPT !.kind = kind, !.calls = of, !.cell = cell,
                          !.spanned = spanned, !.named = k.named /\ kind # "agent"]
<1>4. k \in Line /\ Fits(k, session[f])
  BY <1>2, InLines
<1>5. of \in SUBSET Calls /\ of \subseteq Given(harness)
  <2>1. Given(harness) \subseteq Calls
    BY <1>1, GivenTypes DEF TypeInv
  <2> QED BY <1>2, <2>1
<1>6. \A m \in Written : ~(m.kind = kind /\ m.calls = of)
  BY <1>2
<1> HIDE DEF of
<1>7. /\ l \in Line /\ l.entry = k.entry /\ l.kind = kind /\ l.calls = of /\ l.full = k.full
      /\ l.dated = k.dated /\ l.spanned = spanned /\ l.cell = cell /\ (l.named <=> k.named /\ kind # "agent")
  BY <1>4, <1>5 DEF Line, Cells, Kinds
<1>8. kind = "turn" => ~l.spanned
  BY <1>3, <1>7 DEF MaySpan
<1>9. l.kind \in Marks <=> Kind(l.entry) = "prompt"
  BY <1>1, <1>4, <1>7 DEF Fits, KindsOf, KeepsLedger, Marks
<1>10. /\ kind # "agent" => l.calls = {l.entry}
       /\ kind = "agent" => l.calls = {e \in Given(harness) : PromptOf(e) = PromptOf(l.entry)}
  BY <1>7 DEF of
<1>11. Fits(l, session[f])
  <2>1. l.cell \in {"good"} \cup OddCells(harness) /\ l.kind # "record"
    BY <1>1, <1>3, <1>7 DEF OddCells
  <2> QED BY <1>1, <1>4, <1>7, <1>8, <1>9, <1>10, <2>1 DEF Fits, KindsOf, KeepsLedger, Marks, Totalled, Snapshots,
             Streams, MayLackId, MayLackDate
<1>12. harness \notin WriteOnce /\ harness \notin Snapshots
  BY <1>1 DEF WriteOnce, Snapshots, Streams
<1>13. Rewritten(f, Append(files[f], l))
  BY <1>3
<1>14. \A m \in Written : m.kind = "inference" /\ l.kind = "inference" => m.calls # l.calls
  BY <1>6, <1>7
<1> HIDE DEF l
<1> QED BY <1>1, <1>7, <1>11, <1>12, <1>13, <1>14, AgainForm

LEMMA ReplayForm ==
    ASSUME TypeInv, NEW f \in Files, Replay(f)
    PROVE  \E l \in Line : Adds(f, l)
<1>1. harness \in Replays /\ session' = session
  BY DEF Replay
<1>2. PICK i \in DOMAIN files[f] : Rewritten(f, Append(files[f], files[f][i])) /\ files[f][i].kind = "call"
  BY DEF Replay
<1>3. files[f][i] \in Lines(f)
  BY DEF Lines
<1>4. files[f][i] \in Line /\ Fits(files[f][i], session[f])
  BY <1>3, InLines
<1>5. harness \notin Snapshots
  BY <1>1 DEF Replays, Snapshots
<1> QED BY <1>1, <1>2, <1>3, <1>4, <1>5, AgainForm

LEMMA StepForm ==
    ASSUME TypeInv, HarnessStep
    PROVE  /\ \/ \E f \in Files, l \in Line : Adds(f, l)
              \/ \E f, g \in Files : Moves(f, g)
           /\ UNCHANGED <<harness, quirk, reader>> /\ ~done
<1>1. PICK f \in Files :
        \/ \E e \in Entries : Log(f, e)
        \/ Finish(f) \/ Ledger(f) \/ Telemetry(f) \/ Replay(f)
        \/ \E g \in Files : Copy(f, g)
  BY DEF HarnessStep
<1>2. ASSUME NEW g \in Files, Copy(f, g) PROVE Moves(f, g)
  BY <1>2 DEF Copy, Moves
<1>3. UNCHANGED <<harness, quirk, reader>>
  BY <1>1 DEF Log, Finish, Ledger, Telemetry, Replay, Copy, Rewritten
<1> QED BY <1>1, <1>2, <1>3, LogForm, FinishForm, LedgerForm, TelemetryForm, ReplayForm DEF HarnessStep

-----------------------------------------------------------------------------
(***************************************************************************)
(* What the harness writes.                                                *)
(***************************************************************************)
LEMMA AfterAdds ==
    ASSUME TypeInv, NEW f \in Files, NEW l \in Line, Adds(f, l)
    PROVE  /\ files' \in [Files -> Seq(Line)] /\ session' \in [Files -> Sessions \cup {0}]
           /\ session'[f] = l.entry[1] /\ session'[f] # 0
           /\ \A g \in Files \ {f} : files'[g] = files[g] /\ session'[g] = session[g]
           /\ NewAt(f) \in DOMAIN files'[f] /\ files'[f][NewAt(f)] = l
           /\ \A i \in DOMAIN files'[f] :
                \/ i = NewAt(f)
                \/ i \in DOMAIN files[f] /\ files'[f][i] = files[f][i] /\ i < NewAt(f)
           /\ harness \notin Snapshots =>
                /\ \A i \in DOMAIN files[f] : i \in DOMAIN files'[f] /\ files'[f][i] = files[f][i]
                                              /\ i < NewAt(f)
                /\ files'[f] = Append(files[f], l)
<1>1. files[f] \in Seq(Line) /\ files \in [Files -> Seq(Line)] /\ session \in [Files -> Sessions \cup {0}]
  BY DEF TypeInv
<1>2. l.entry[1] \in Sessions /\ 0 \notin Sessions
  BY EntryTypes DEF Line
<1>3. session' \in [Files -> Sessions \cup {0}] /\ session'[f] = l.entry[1] /\ session'[f] # 0
  BY <1>1, <1>2 DEF Adds
<1>4. \A g \in Files \ {f} : files'[g] = files[g] /\ session'[g] = session[g]
  BY <1>1 DEF Adds
<1>5. CASE harness \in Snapshots
  <2>1. files' = [files EXCEPT ![f] = <<l>>] /\ <<l>> \in Seq(Line)
    BY <1>5 DEF Adds
  <2>2. files' \in [Files -> Seq(Line)] /\ files'[f] = <<l>>
    BY <1>1, <2>1
  <2> QED BY <1>3, <1>4, <1>5, <2>2 DEF NewAt
<1>6. CASE harness \notin Snapshots
  <2>1. files' = [files EXCEPT ![f] = Append(files[f], l)] /\ Append(files[f], l) \in Seq(Line)
    BY <1>1, <1>6 DEF Adds
  <2>2. files' \in [Files -> Seq(Line)] /\ files'[f] = Append(files[f], l)
    BY <1>1, <2>1
  <2>3. Len(files[f]) \in Nat /\ DOMAIN files[f] = 1..Len(files[f])
        /\ DOMAIN files'[f] = 1..(Len(files[f]) + 1)
    BY <1>1, <2>2
  <2>4. \A i \in DOMAIN files[f] : files'[f][i] = files[f][i]
    BY <1>1, <2>2, <2>3
  <2>5. files'[f][Len(files[f]) + 1] = l
    BY <1>1, <2>2, <2>3
  <2> QED BY <1>3, <1>4, <1>6, <2>2, <2>3, <2>4, <2>5 DEF NewAt
<1> QED BY <1>5, <1>6

LEMMA AfterMoves ==
    ASSUME TypeInv, NEW f \in Files, NEW g \in Files, Moves(f, g)
    PROVE  /\ f # g /\ files[g] = <<>>
           /\ files' \in [Files -> Seq(Line)] /\ session' \in [Files -> Sessions \cup {0}]
           /\ files'[g] = files[f] /\ session'[g] = session[f]
           /\ \A h \in Files \ {f, g} : files'[h] = files[h] /\ session'[h] = session[h]
           /\ \/ files'[f] = files[f] /\ session'[f] = session[f]
              \/ harness \in Rotates /\ files'[f] = <<>> /\ session'[f] = 0
           /\ \A h \in Files : \/ files'[h] = <<>> /\ session'[h] = 0
                               \/ \E k \in Files : files'[h] = files[k] /\ session'[h] = session[k]
<1>1. f # g /\ files[g] = <<>>
  BY DEF Moves, TypeInv
<1>2. files \in [Files -> Seq(Line)] /\ session \in [Files -> Sessions \cup {0}] /\ <<>> \in Seq(Line)
  BY DEF TypeInv
<1>3. /\ files' \in [Files -> Seq(Line)] /\ session' \in [Files -> Sessions \cup {0}]
      /\ files'[g] = files[f] /\ session'[g] = session[f]
      /\ \A h \in Files \ {f, g} : files'[h] = files[h] /\ session'[h] = session[h]
      /\ \/ files'[f] = files[f] /\ session'[f] = session[f]
         \/ harness \in Rotates /\ files'[f] = <<>> /\ session'[f] = 0
  BY <1>1, <1>2 DEF Moves
<1> QED BY <1>1, <1>3

LEMMA WrittenAt == \A l : l \in Written <=> \E f \in Files : \E i \in DOMAIN files[f] : l = files[f][i]
BY DEF Written, Lines

LEMMA WrittenAtNext ==
    \A l : l \in Written' <=> \E f \in Files : \E i \in DOMAIN files'[f] : l = files'[f][i]
BY DEF Written, Lines

\* Without snapshots nothing that was written is lost.
LEMMA WrittenGrows ==
    ASSUME TypeInv, HarnessStep, harness \notin Snapshots
    PROVE  Written \subseteq Written'
<1>1. CASE \E f \in Files, l \in Line : Adds(f, l)
  <2>1. PICK f \in Files, l \in Line : Adds(f, l)
    BY <1>1
  <2>2. \A g \in Files : \A i \in DOMAIN files[g] : i \in DOMAIN files'[g] /\ files'[g][i] = files[g][i]
    BY <2>1, AfterAdds
  <2> QED BY <2>2, WrittenAt, WrittenAtNext
<1>2. CASE \E f, g \in Files : Moves(f, g)
  <2>1. PICK f \in Files, g \in Files : Moves(f, g)
    BY <1>2
  <2>2. \A h \in Files : files[h] = <<>> \/ \E k \in Files : files'[k] = files[h]
    BY <2>1, AfterMoves
  <2>3. \A h \in Files : \A i \in DOMAIN files[h] : \E k \in Files : files'[k] = files[h]
    BY <2>2
  <2> QED BY <2>3, WrittenAt, WrittenAtNext
<1> QED BY <1>1, <1>2, StepForm

LEMMA FitsStays ==
    ASSUME harness' = harness, NEW l, NEW s
    PROVE  Fits(l, s)' <=> Fits(l, s)
BY DEF Fits

LEMMA HarnessKeepsWorld ==
    ASSUME WorldInv, HarnessStep
    PROVE  WorldInv'
<1>1. TypeInv /\ UniqueInv
  BY DEF WorldInv
<1>2. harness' = harness /\ quirk' = quirk
  BY <1>1, StepForm
<1>3. ASSUME NEW f \in Files, NEW l \in Line, Adds(f, l) PROVE WorldInv'
  <2>1. /\ files' \in [Files -> Seq(Line)] /\ session' \in [Files -> Sessions \cup {0}]
        /\ session'[f] = l.entry[1] /\ session'[f] # 0
        /\ \A g \in Files \ {f} : files'[g] = files[g] /\ session'[g] = session[g]
        /\ NewAt(f) \in DOMAIN files'[f] /\ files'[f][NewAt(f)] = l
        /\ \A i \in DOMAIN files'[f] :
             \/ i = NewAt(f)
             \/ i \in DOMAIN files[f] /\ files'[f][i] = files[f][i] /\ i < NewAt(f)
    BY <1>1, <1>3, AfterAdds
  <2>2. Fits(l, session'[f])
    BY <1>3, <2>1 DEF Adds
  <2>3. \A i \in DOMAIN files[f] : session'[f] = session[f]
    BY <1>1, <1>3, <2>1 DEF Adds, TypeInv
  <2>4. \A g \in Files : \A i \in DOMAIN files'[g] : Fits(files'[g][i], session'[g])
    BY <1>1, <2>1, <2>2, <2>3 DEF TypeInv
  <2>5. \A g \in Files : session'[g] = 0 => files'[g] = <<>>
    BY <1>1, <2>1 DEF TypeInv
  <2>6. TypeInv'
    BY <1>1, <1>2, <2>1, <2>4, <2>5, FitsStays DEF TypeInv
  <2>7. ASSUME NEW g \in Files, NEW i \in DOMAIN files[g], files[g][i].entry = l.entry
        PROVE  /\ harness \in WriteOnce => harness \in Replays /\ files[g][i] = l
               /\ harness \notin Copies \cup Rotates => g = f
               /\ ~(files[g][i].kind = "inference" /\ l.kind = "inference")
    <3>1. files[g][i] \in Written
      BY WrittenAt
    <3>2. Logged(l.entry)
      BY <2>7, <3>1 DEF Logged
    <3>3. PICK k \in Lines(f) : k.entry = l.entry /\ (harness \in WriteOnce => harness \in Replays /\ k = l)
      BY <1>3, <3>2 DEF Adds
    <3>4. PICK j \in DOMAIN files[f] : k = files[f][j]
      BY DEF Lines
    <3>5. /\ harness \in WriteOnce => files[g][i] = k
          /\ harness \notin Copies \cup Rotates => g = f
      BY <1>1, <2>7, <3>3, <3>4 DEF UniqueInv
    <3>6. l.kind = "inference" /\ files[g][i].kind = "inference" => files[g][i].calls # l.calls
      BY <1>3, <3>1, <3>2 DEF Adds
    <3>7. Fits(files[g][i], session[g]) /\ Fits(l, l.entry[1])
      BY <1>1, <1>3 DEF TypeInv, Adds
    <3>8. l.kind = "inference" /\ files[g][i].kind = "inference" => files[g][i].calls = l.calls
      <4>1. "inference" \in KindsOf(harness) => harness = "copilot"
        BY DEF KindsOf
      <4> QED BY <2>7, <3>7, <4>1 DEF Fits, Totalled, Marks, Snapshots
    <3> QED BY <3>3, <3>5, <3>6, <3>8
  <2>8. ASSUME NEW g \in Files, NEW h \in Files, NEW i \in DOMAIN files'[g], NEW j \in DOMAIN files'[h],
               files'[g][i].entry = files'[h][j].entry
        PROVE  /\ harness \in WriteOnce => files'[g][i] = files'[h][j]
               /\ harness \in WriteOnce \ Replays => i = j
               /\ harness \notin Copies \cup Rotates => g = h
               /\ files'[g][i].kind = "inference" /\ files'[h][j].kind = "inference"
                       => files'[g][i].spanned = files'[h][j].spanned
    <3>1. \/ g = f /\ i = NewAt(f) /\ files'[g][i] = l
          \/ i \in DOMAIN files[g] /\ files'[g][i] = files[g][i]
      BY <2>1
    <3>2. \/ h = f /\ j = NewAt(f) /\ files'[h][j] = l
          \/ j \in DOMAIN files[h] /\ files'[h][j] = files[h][j]
      BY <2>1
    <3>3. CASE i \in DOMAIN files[g] /\ files'[g][i] = files[g][i] /\ j \in DOMAIN files[h] /\ files'[h][j] = files[h][j]
      BY <1>1, <2>8, <3>3 DEF UniqueInv
    <3>4. CASE g = f /\ i = NewAt(f) /\ files'[g][i] = l /\ j \in DOMAIN files[h] /\ files'[h][j] = files[h][j]
      BY <2>7, <2>8, <3>4
    <3>5. CASE h = f /\ j = NewAt(f) /\ files'[h][j] = l /\ i \in DOMAIN files[g] /\ files'[g][i] = files[g][i]
      BY <2>7, <2>8, <3>5
    <3>6. CASE g = f /\ i = NewAt(f) /\ files'[g][i] = l /\ h = f /\ j = NewAt(f) /\ files'[h][j] = l
      BY <3>6
    <3> QED BY <3>1, <3>2, <3>3, <3>4, <3>5, <3>6
  <2>9. UniqueInv'
    BY <1>2, <2>8 DEF UniqueInv
  <2> QED BY <2>6, <2>9 DEF WorldInv
<1>4. ASSUME NEW f \in Files, NEW g \in Files, Moves(f, g) PROVE WorldInv'
  <2>1. /\ files' \in [Files -> Seq(Line)] /\ session' \in [Files -> Sessions \cup {0}]
        /\ \A h \in Files : \/ files'[h] = <<>> /\ session'[h] = 0
                            \/ \E k \in Files : files'[h] = files[k] /\ session'[h] = session[k]
    BY <1>1, <1>4, AfterMoves
  <2>2. \A h \in Files : \A i \in DOMAIN files'[h] : Fits(files'[h][i], session'[h])
    BY <1>1, <2>1 DEF TypeInv
  <2>3. \A h \in Files : session'[h] = 0 => files'[h] = <<>>
    BY <1>1, <2>1 DEF TypeInv
  <2>4. TypeInv'
    BY <1>1, <1>2, <2>1, <2>2, <2>3, FitsStays DEF TypeInv
  <2>5. harness \in Copies \cup Rotates
    BY <1>4 DEF Moves
  <2>6. \A h \in Files : \A i \in DOMAIN files'[h] : \E k \in Files : files'[h] = files[k]
    BY <2>1
  <2>7. ASSUME NEW a \in Files, NEW b \in Files, NEW i \in DOMAIN files'[a], NEW j \in DOMAIN files'[b],
               files'[a][i].entry = files'[b][j].entry
        PROVE  /\ harness \in WriteOnce => files'[a][i] = files'[b][j]
               /\ harness \in WriteOnce \ Replays => i = j
               /\ files'[a][i].kind = "inference" /\ files'[b][j].kind = "inference"
                       => files'[a][i].spanned = files'[b][j].spanned
    <3>1. PICK k \in Files : files'[a] = files[k]
      BY <2>6
    <3>2. PICK m \in Files : files'[b] = files[m]
      BY <2>6
    <3> QED BY <1>1, <2>7, <3>1, <3>2 DEF UniqueInv
  <2>8. UniqueInv'
    BY <1>2, <2>5, <2>7 DEF UniqueInv
  <2> QED BY <2>4, <2>8 DEF WorldInv
<1> QED BY <1>1, <1>3, <1>4, StepForm

LEMMA InitWorld == Init => WorldInv
<1> SUFFICES ASSUME Init PROVE WorldInv
  OBVIOUS
<1>1. \A f \in Files : files[f] = <<>> /\ DOMAIN files[f] = {} /\ session[f] = 0
  BY DEF Init
<1>2. <<>> \in Seq(Line)
  OBVIOUS
<1>3. TypeInv
  BY <1>1, <1>2 DEF Init, TypeInv
<1> QED BY <1>1, <1>3 DEF WorldInv, UniqueInv

LEMMA ReaderLeavesWorld ==
    ReaderStep \/ UNCHANGED vars => UNCHANGED <<harness, quirk, session, files, age>>
BY DEF ReaderStep, Begin, Select, Read, Unreadable, Past, world, vars

LEMMA NextKinds == [Next]_vars => HarnessStep \/ ReaderStep \/ UNCHANGED vars
BY DEF Next, ReaderStep

LEMMA SameWorld ==
    ASSUME WorldInv, UNCHANGED <<harness, quirk, session, files, age>>
    PROVE  WorldInv'
<1>1. TypeInv /\ UniqueInv
  BY DEF WorldInv
<1>2. \A l, s : Fits(l, s)' <=> Fits(l, s)
  BY FitsStays
<1>3. TypeInv'
  BY <1>1, <1>2 DEF TypeInv
<1>4. UniqueInv'
  BY <1>1 DEF UniqueInv
<1> QED BY <1>3, <1>4 DEF WorldInv

LEMMA NextWorld == WorldInv /\ [Next]_vars => WorldInv'
BY NextKinds, HarnessKeepsWorld, ReaderLeavesWorld, SameWorld

-----------------------------------------------------------------------------
(***************************************************************************)
(* What a reader makes of a file, in one form for all readers but those of *)
(* fx and Copilot: for some of its rows R an event each, under the key the *)
(* reader has for the row, in place of some events X.                      *)
(***************************************************************************)
\* The first rows with a key that is new.
LEMMA FirstForm ==
    ASSUME NEW f \in Files, Unread(f), NEW R, NEW T,
           R \subseteq CallRows(f),
           ReadingOf(f).events = events \cup {RowEvent(f, i, T[i]) : i \in R},
           \A i \in R : RowKey(f, i) \notin Keys(events),
           \A i, j \in R : i < j => RowKey(f, i) # RowKey(f, j),
           harness = "deepseek" => R = {} \/ session[f] \notin carried
    PROVE  ReadForm(f)
<1>1. \A i \in R : i \in Nat
  BY DEF Unread, CallRows
<1>2. ASSUME NEW i \in R, NEW j \in R, RowKey(f, i) = RowKey(f, j) PROVE i = j
  <2>1. i \in Nat /\ j \in Nat
    BY <1>1
  <2> QED BY <1>2, <2>1
<1>3. events \ {} = events
  OBVIOUS
<1>4. Forms(f, {}, R, T)
  BY <1>2, <1>3 DEF Forms
<1> QED BY <1>4 DEF ReadForm

LEMMA PlaceFree ==
    ASSUME NEW f \in Files, Unread(f), harness \in Placed, NEW i
    PROVE  RowKey(f, i) = Place(f, i) /\ RowKey(f, i) \notin Keys(events)
<1>1. ASSUME NEW ev \in events PROVE ev.key # Place(f, i)
  <2>1. harness \in Keyed
    BY DEF Placed, Keyed, Transcribed, Recorded
  <2>2. ev.file # f /\ FromLine(ev)
    BY <2>1 DEF Unread
  <2>3. PICK j \in Nat, l \in Written : ev.key = KeyAt(ev.file, ev.session, j, l)
    BY <2>2 DEF FromLine
  <2>4. ev.key = Place(ev.file, j)
    BY <2>3 DEF KeyAt, Placed, Snapshots
  <2> QED BY <2>2, <2>4 DEF Place
<1>2. RowKey(f, i) = Place(f, i)
  BY DEF RowKey, KeyAt, Placed, Snapshots
<1> QED BY <1>1, <1>2 DEF Keys

\* Some rows, known by their places.
LEMMA PlaceForm ==
    ASSUME NEW f \in Files, Unread(f), harness \in Placed, NEW R, NEW T,
           R \subseteq CallRows(f),
           ReadingOf(f).events = events \cup {Event(f, session[f], files[f][i], Place(f, i), T[i]) : i \in R},
           harness = "deepseek" => R = {} \/ session[f] \notin carried
    PROVE  ReadForm(f)
<1>1. \A i : RowKey(f, i) = Place(f, i) /\ RowKey(f, i) \notin Keys(events)
  BY PlaceFree
<1>2. \A i : RowEvent(f, i, T[i]) = Event(f, session[f], files[f][i], Place(f, i), T[i])
  BY <1>1 DEF RowEvent
<1>3. ReadingOf(f).events = events \cup {RowEvent(f, i, T[i]) : i \in R}
  BY <1>2
<1>4. \A i \in R : i \in Nat
  BY DEF Unread, CallRows
<1>5. \A i, j \in R : i < j => RowKey(f, i) # RowKey(f, j)
  BY <1>1, <1>4 DEF Place
<1> QED BY <1>1, <1>3, <1>5, FirstForm

LEMMA RowsAre ==
    ASSUME NEW f \in Files, NEW cells
    PROVE  \A i : i \in Rows(files[f], cells) <=>
               i \in DOMAIN files[f] /\ files[f][i].kind = "call" /\ files[f][i].cell \in cells
BY DEF Rows, Holding

LEMMA RowsCall ==
    ASSUME NEW f \in Files
    PROVE  /\ Rows(files[f], {"good"}) \subseteq CallRows(f)
           /\ Rows(files[f], {"good", "zero"}) \subseteq CallRows(f)
BY RowsAre DEF CallRows

LEMMA QwenForm ==
    ASSUME NEW f \in Files, Unread(f), harness = "qwen" PROVE ReadForm(f)
<1> DEFINE ls == files[f]
           R == QwenRows(ls)
           Turn(i) == \/ AfterPrompt(ls, i, QwenRows(ls))
                      \/ session[f] \in carried /\ \A j \in QwenRows(ls) : j >= i
           T == [i \in R |-> Turn(i)]
           E(i) == Event(f, session[f], ls[i], Place(f, i), Turn(i))
           D(i) == Event(f, session[f], ls[i], Place(f, i), T[i])
<1>1. ReadingOf(f).events = events \cup {E(i) : i \in R}
  BY DEF ReadingOf, Qwen, Reading, Counted
<1>2. R \subseteq CallRows(f)
  BY RowsCall DEF QwenRows
<1>3. \A i \in R : E(i) = D(i)
  OBVIOUS
<1> HIDE DEF R, E
<1>4. {E(i) : i \in R} = {D(i) : i \in R}
  BY <1>3
<1> HIDE DEF T
<1> QED BY <1>1, <1>2, <1>4, PlaceForm DEF Placed

LEMMA GeminiForm ==
    ASSUME NEW f \in Files, Unread(f), harness = "gemini" PROVE ReadForm(f)
<1> DEFINE ls == files[f]
           R == GeminiRows(ls)
           T == [i \in R |-> GeminiTurn(ls, i)]
           E(i) == Event(f, session[f], ls[i], Place(f, i), GeminiTurn(ls, i))
           D(i) == Event(f, session[f], ls[i], Place(f, i), T[i])
<1>1. ReadingOf(f).events = events \cup {E(i) : i \in R}
  BY DEF ReadingOf, Gemini, Reading, Counted
<1>2. R \subseteq CallRows(f)
  BY RowsCall DEF GeminiRows
<1>3. \A i \in R : E(i) = D(i)
  OBVIOUS
<1> HIDE DEF R, E
<1>4. {E(i) : i \in R} = {D(i) : i \in R}
  BY <1>3
<1> HIDE DEF T
<1> QED BY <1>1, <1>2, <1>4, PlaceForm DEF Placed

LEMMA RecordForm ==
    ASSUME NEW f \in Files, Unread(f), harness \in {"opencodereview", "trae", "cherrystudio"}
    PROVE  ReadForm(f)
<1> DEFINE ls == files[f]
           R == Rows(ls, {"good"})
           turn == harness # "cherrystudio"
           T == [i \in R |-> turn]
           E(i) == Event(f, session[f], ls[i], Place(f, i), turn)
           D(i) == Event(f, session[f], ls[i], Place(f, i), T[i])
<1>1. ReadingOf(f).events = events \cup {E(i) : i \in R}
  <2>1. CASE harness = "opencodereview"
    BY <2>1 DEF ReadingOf, Opencodereview, OpencodereviewRows, EachRecord, Reading, Counted, Always
  <2>2. CASE harness = "trae"
    BY <2>2 DEF ReadingOf, Trae, TraeRows, EachRecord, Reading, Counted, Always
  <2>3. CASE harness = "cherrystudio"
    BY <2>3 DEF ReadingOf, Cherrystudio, EachRecord, Reading, Counted, Never
  <2> QED BY <2>1, <2>2, <2>3
<1>2. R \subseteq CallRows(f)
  BY RowsCall
<1>3. \A i \in R : E(i) = D(i)
  OBVIOUS
<1> HIDE DEF R, E
<1>4. {E(i) : i \in R} = {D(i) : i \in R}
  BY <1>3
<1> HIDE DEF T, turn
<1> QED BY <1>1, <1>2, <1>4, PlaceForm DEF Placed

LEMMA SidecarForm ==
    ASSUME NEW f \in Files, Unread(f), harness = "fx-sidecar" PROVE ReadForm(f)
<1> DEFINE ls == files[f]
           R == IF FxValid(ls) THEN Rows(ls, {"good", "zero"}) ELSE {}
           T == [i \in R |-> FALSE]
           E(i) == Event(f, session[f], ls[i], Place(f, i), FALSE)
           D(i) == Event(f, session[f], ls[i], Place(f, i), T[i])
<1>1. ReadingOf(f).events = events \cup {E(i) : i \in R}
  BY DEF ReadingOf, FxSidecar, Reading, Counted, Never
<1>2. R \subseteq CallRows(f)
  BY RowsCall
<1>3. \A i \in R : E(i) = D(i)
  OBVIOUS
<1> HIDE DEF R, E
<1>4. {E(i) : i \in R} = {D(i) : i \in R}
  BY <1>3
<1> HIDE DEF T
<1> QED BY <1>1, <1>2, <1>4, PlaceForm DEF Placed

LEMMA DeepseekForm ==
    ASSUME NEW f \in Files, Unread(f), harness = "deepseek" PROVE ReadForm(f)
<1> DEFINE ls == files[f]
           read == IF session[f] \in carried THEN {} ELSE DeepseekLines(ls, quirk)
           R == {i \in read \cap Rows(ls, {"good"}) : ls[i].dated}
           T == [i \in R |-> TRUE]
           E(i) == Event(f, session[f], ls[i], Place(f, i), TRUE)
           D(i) == Event(f, session[f], ls[i], Place(f, i), T[i])
<1>1. ReadingOf(f).events = events \cup {E(i) : i \in R}
  BY DEF ReadingOf, Deepseek, Counted, Always
<1>2. R \subseteq CallRows(f) /\ (R = {} \/ session[f] \notin carried)
  BY RowsCall
<1>3. \A i \in R : E(i) = D(i)
  OBVIOUS
<1> HIDE DEF R, E
<1>4. {E(i) : i \in R} = {D(i) : i \in R}
  BY <1>3
<1> HIDE DEF T
<1> QED BY <1>1, <1>2, <1>4, PlaceForm DEF Placed

LEMMA ClaudeForm ==
    ASSUME NEW f \in Files, Unread(f), harness = "claude" PROVE ReadForm(f)
<1> DEFINE ls == files[f]
           rows == ClaudeRows(ls)
           Key(i) == IF ls[i].named THEN Id(ls[i]) ELSE Place(f, i)
           R == First(rows, Key, events)
           Turn(i) == AfterPrompt(ls, i, Seen(ls, "call"))
           T == [i \in R |-> Turn(i)]
           E(i) == Event(f, session[f], ls[i], Key(i), Turn(i))
           D(i) == RowEvent(f, i, T[i])
<1>1. ReadingOf(f).events = events \cup {E(i) : i \in R}
  BY DEF ReadingOf, Claude, Reading, Counted
<1>2. rows \subseteq CallRows(f)
  BY RowsCall DEF ClaudeRows
<1>3. \A i : Key(i) = RowKey(f, i)
  BY DEF RowKey, KeyAt, Placed, Snapshots
<1>4. /\ R \subseteq rows
      /\ \A i \in R : Key(i) \notin Keys(events) /\ \A j \in rows : j < i => Key(j) # Key(i)
  BY DEF First
<1>5. \A i \in R : E(i) = D(i)
  BY <1>3 DEF RowEvent
<1> HIDE DEF R, E, D, rows, Key
<1>6. {E(i) : i \in R} = {D(i) : i \in R}
  BY <1>5
<1> HIDE DEF T
<1>7. ReadingOf(f).events = events \cup {RowEvent(f, i, T[i]) : i \in R}
  BY <1>1, <1>6 DEF D
<1> QED BY <1>2, <1>3, <1>4, <1>7, FirstForm

LEMMA PiForm ==
    ASSUME NEW f \in Files, Unread(f), harness = "pi" PROVE ReadForm(f)
<1> DEFINE ls == files[f]
           rows == {i \in Rows(ls, {"good", "zero"}) : ls[i].named}
           Key(i) == <<"message", session[f], Id(ls[i]), Usage(ls[i], FALSE), ls[i].cell>>
           R == First(rows, Key, events)
           Turn(i) == AfterPrompt(ls, i, Seen(ls, "call"))
           T == [i \in R |-> Turn(i)]
           E(i) == Event(f, session[f], ls[i], Key(i), Turn(i))
           D(i) == RowEvent(f, i, T[i])
<1>1. ReadingOf(f).events = events \cup {E(i) : i \in R}
  BY DEF ReadingOf, Pi, Reading, Counted
<1>2. rows \subseteq CallRows(f)
  BY RowsCall
<1>3. \A i : Key(i) = RowKey(f, i)
  BY DEF RowKey, KeyAt, Placed, Snapshots
<1>4. /\ R \subseteq rows
      /\ \A i \in R : Key(i) \notin Keys(events) /\ \A j \in rows : j < i => Key(j) # Key(i)
  BY DEF First
<1>5. \A i \in R : E(i) = D(i)
  BY <1>3 DEF RowEvent
<1> HIDE DEF R, E, D, rows, Key
<1>6. {E(i) : i \in R} = {D(i) : i \in R}
  BY <1>5
<1> HIDE DEF T
<1>7. ReadingOf(f).events = events \cup {RowEvent(f, i, T[i]) : i \in R}
  BY <1>1, <1>6 DEF D
<1> QED BY <1>2, <1>3, <1>4, <1>7, FirstForm

LEMMA OpenclawForm ==
    ASSUME NEW f \in Files, Unread(f), harness = "openclaw" PROVE ReadForm(f)
<1> DEFINE ls == files[f]
           rows == OpenclawRows(ls)
           Key(i) == UsageKey(f, session[f], ls[i], quirk)
           R == First(rows, Key, events)
           Turn(i) == TRUE
           T == [i \in R |-> Turn(i)]
           E(i) == Event(f, session[f], ls[i], Key(i), Turn(i))
           D(i) == RowEvent(f, i, T[i])
<1>1. ReadingOf(f).events = events \cup {E(i) : i \in R}
  BY DEF ReadingOf, Openclaw, Always, Reading, Counted
<1>2. rows \subseteq CallRows(f)
  BY RowsCall DEF OpenclawRows
<1>3. \A i : Key(i) = RowKey(f, i)
  BY DEF RowKey, KeyAt, Placed, Snapshots
<1>4. /\ R \subseteq rows
      /\ \A i \in R : Key(i) \notin Keys(events) /\ \A j \in rows : j < i => Key(j) # Key(i)
  BY DEF First
<1>5. \A i \in R : E(i) = D(i)
  BY <1>3 DEF RowEvent
<1> HIDE DEF R, E, D, rows, Key
<1>6. {E(i) : i \in R} = {D(i) : i \in R}
  BY <1>5
<1> HIDE DEF T
<1>7. ReadingOf(f).events = events \cup {RowEvent(f, i, T[i]) : i \in R}
  BY <1>1, <1>6 DEF D
<1> QED BY <1>2, <1>3, <1>4, <1>7, FirstForm

LEMMA JunieForm ==
    ASSUME NEW f \in Files, Unread(f), harness = "junie" PROVE ReadForm(f)
<1> DEFINE ls == files[f]
           rows == JunieRows(ls)
           Key(i) == UsageKey(f, session[f], ls[i], quirk)
           R == First(rows, Key, events)
           Turn(i) == AfterPrompt(ls, i, JunieSpent(ls, R))
           T == [i \in R |-> Turn(i)]
           E(i) == Event(f, session[f], ls[i], Key(i), Turn(i))
           D(i) == RowEvent(f, i, T[i])
<1>1. ReadingOf(f).events = events \cup {E(i) : i \in R}
  BY DEF ReadingOf, Junie, Reading, Counted
<1>2. rows \subseteq CallRows(f)
  BY RowsCall DEF JunieRows
<1>3. \A i : Key(i) = RowKey(f, i)
  BY DEF RowKey, KeyAt, Placed, Snapshots
<1>4. /\ R \subseteq rows
      /\ \A i \in R : Key(i) \notin Keys(events) /\ \A j \in rows : j < i => Key(j) # Key(i)
  BY DEF First
<1>5. \A i \in R : E(i) = D(i)
  BY <1>3 DEF RowEvent
<1> HIDE DEF R, E, D, rows, Key
<1>6. {E(i) : i \in R} = {D(i) : i \in R}
  BY <1>5
<1> HIDE DEF T
<1>7. ReadingOf(f).events = events \cup {RowEvent(f, i, T[i]) : i \in R}
  BY <1>1, <1>6 DEF D
<1> QED BY <1>2, <1>3, <1>4, <1>7, FirstForm

LEMMA CodebuffForm ==
    ASSUME NEW f \in Files, Unread(f), harness = "codebuff" PROVE ReadForm(f)
<1> DEFINE ls == files[f]
           rows == CodebuffRows(ls)
           Key(i) == CodebuffKey(f, ls, i)
           R == First(rows, Key, events)
           Turn(i) == TRUE
           T == [i \in R |-> Turn(i)]
           E(i) == Event(f, session[f], ls[i], Key(i), Turn(i))
           D(i) == RowEvent(f, i, T[i])
<1>1. ReadingOf(f).events = events \cup {E(i) : i \in R}
  BY DEF ReadingOf, Codebuff, Always, Reading, Counted
<1>2. rows \subseteq CallRows(f)
  BY RowsCall DEF CodebuffRows
<1>3. \A i : Key(i) = RowKey(f, i)
  BY DEF RowKey, KeyAt, CodebuffKey, Placed, Snapshots
<1>4. /\ R \subseteq rows
      /\ \A i \in R : Key(i) \notin Keys(events) /\ \A j \in rows : j < i => Key(j) # Key(i)
  BY DEF First
<1>5. \A i \in R : E(i) = D(i)
  BY <1>3 DEF RowEvent
<1> HIDE DEF R, E, D, rows, Key
<1>6. {E(i) : i \in R} = {D(i) : i \in R}
  BY <1>5
<1> HIDE DEF T
<1>7. ReadingOf(f).events = events \cup {RowEvent(f, i, T[i]) : i \in R}
  BY <1>1, <1>6 DEF D
<1> QED BY <1>2, <1>3, <1>4, <1>7, FirstForm

LEMMA AugmentForm ==
    ASSUME NEW f \in Files, Unread(f), harness = "augment" PROVE ReadForm(f)
<1> DEFINE ls == files[f]
           rows == AugmentRows(ls)
           Key(i) == IF ls[i].named THEN <<"request", session[f], Id(ls[i])>> ELSE <<"turn", session[f], i>>
           R == First(rows, Key, events)
           Turn(i) == TRUE
           T == [i \in R |-> Turn(i)]
           E(i) == Event(f, session[f], ls[i], Key(i), Turn(i))
           D(i) == RowEvent(f, i, T[i])
<1>1. ReadingOf(f).events = events \cup {E(i) : i \in R}
  BY DEF ReadingOf, Augment, AugmentKey, Always, Reading, Counted
<1>2. rows \subseteq CallRows(f)
  BY RowsCall DEF AugmentRows
<1>3. \A i : Key(i) = RowKey(f, i)
  BY DEF RowKey, KeyAt, Placed, Snapshots
<1>4. /\ R \subseteq rows
      /\ \A i \in R : Key(i) \notin Keys(events) /\ \A j \in rows : j < i => Key(j) # Key(i)
  BY DEF First
<1>5. \A i \in R : E(i) = D(i)
  BY <1>3 DEF RowEvent
<1> HIDE DEF R, E, D, rows, Key
<1>6. {E(i) : i \in R} = {D(i) : i \in R}
  BY <1>5
<1> HIDE DEF T
<1>7. ReadingOf(f).events = events \cup {RowEvent(f, i, T[i]) : i \in R}
  BY <1>1, <1>6 DEF D
<1> QED BY <1>2, <1>3, <1>4, <1>7, FirstForm

LEMMA KiroForm ==
    ASSUME NEW f \in Files, Unread(f), harness = "kiro" PROVE ReadForm(f)
<1> DEFINE ls == files[f]
           rows == Rows(ls, {"good"})
           Key(i) == IF ls[i].named THEN <<"turn", session[f], i>>
                     ELSE <<"print", i, Instant(f, ls[i]), Usage(ls[i], quirk)>>
           R == First(rows, Key, events)
           Turn(i) == TRUE
           T == [i \in R |-> Turn(i)]
           E(i) == Event(f, session[f], ls[i], Key(i), Turn(i))
           D(i) == RowEvent(f, i, T[i])
<1>1. ReadingOf(f).events = events \cup {E(i) : i \in R}
  BY DEF ReadingOf, Kiro, KiroConversation, KiroKey, Always, Reading, Counted
<1>2. rows \subseteq CallRows(f)
  BY RowsCall
<1>3. \A i : Key(i) = RowKey(f, i)
  BY DEF RowKey, KeyAt, Placed, Snapshots
<1>4. /\ R \subseteq rows
      /\ \A i \in R : Key(i) \notin Keys(events) /\ \A j \in rows : j < i => Key(j) # Key(i)
  BY DEF First
<1>5. \A i \in R : E(i) = D(i)
  BY <1>3 DEF RowEvent
<1> HIDE DEF R, E, D, rows, Key
<1>6. {E(i) : i \in R} = {D(i) : i \in R}
  BY <1>5
<1> HIDE DEF T
<1>7. ReadingOf(f).events = events \cup {RowEvent(f, i, T[i]) : i \in R}
  BY <1>1, <1>6 DEF D
<1> QED BY <1>2, <1>3, <1>4, <1>7, FirstForm

LEMMA TotalForm ==
    ASSUME NEW f \in Files, Unread(f), harness \in {"goose", "zed", "mux"} PROVE ReadForm(f)
<1> DEFINE ls == files[f]
           rows == Rows(ls, {"good"})
           Key(i) == <<"session", session[f]>>
           R == First(rows, Key, events)
           Turn(i) == FALSE
           T == [i \in R |-> Turn(i)]
           E(i) == Event(f, session[f], ls[i], Key(i), Turn(i))
           D(i) == RowEvent(f, i, T[i])
<1>1. ReadingOf(f).events = events \cup {E(i) : i \in R}
  <2>1. CASE harness = "goose"
    BY <2>1 DEF ReadingOf, Goose, FirstTotal, Reading, Counted, Never
  <2>2. CASE harness = "zed"
    BY <2>2 DEF ReadingOf, Zed, ZedRows, FirstTotal, Reading, Counted, Never
  <2>3. CASE harness = "mux"
    BY <2>3 DEF ReadingOf, Mux, FirstTotal, Reading, Counted, Never
  <2> QED BY <2>1, <2>2, <2>3
<1>2. rows \subseteq CallRows(f)
  BY RowsCall
<1>3. \A i : Key(i) = RowKey(f, i)
  BY DEF RowKey, KeyAt, Placed, Snapshots
<1>4. /\ R \subseteq rows
      /\ \A i \in R : Key(i) \notin Keys(events) /\ \A j \in rows : j < i => Key(j) # Key(i)
  BY DEF First
<1>5. \A i \in R : E(i) = D(i)
  BY <1>3 DEF RowEvent
<1> HIDE DEF R, E, D, rows, Key
<1>6. {E(i) : i \in R} = {D(i) : i \in R}
  BY <1>5
<1> HIDE DEF T
<1>7. ReadingOf(f).events = events \cup {RowEvent(f, i, T[i]) : i \in R}
  BY <1>1, <1>6 DEF D
<1> QED BY <1>2, <1>3, <1>4, <1>7, FirstForm

LEMMA CommandcodeForm ==
    ASSUME NEW f \in Files, Unread(f), harness = "commandcode" PROVE ReadForm(f)
<1> DEFINE ls == files[f]
           rows == CommandcodeRows(ls)
           Key(i) == IF ls[i].named THEN <<"in", f, Id(ls[i])>> ELSE Place(f, i)
           R == {i \in rows : \A j \in rows : j > i => Key(j) # Key(i)}
           T == [i \in R |-> TRUE]
           E(i) == Event(f, session[f], ls[i], Key(i), TRUE)
           D(i) == RowEvent(f, i, T[i])
<1>1. ReadingOf(f).events = events \cup {E(i) : i \in R}
  BY DEF ReadingOf, Commandcode, Reading, Counted, Always
<1>2. rows \subseteq CallRows(f)
  BY RowsCall DEF CommandcodeRows
<1>3. \A i : Key(i) = RowKey(f, i)
  BY DEF RowKey, KeyAt, Placed, Snapshots
<1>4. R \subseteq rows /\ \A i \in R : \A j \in rows : j > i => Key(j) # Key(i)
  OBVIOUS
<1>5. ASSUME NEW ev \in events, NEW i PROVE ev.key # Key(i)
  <2>1. harness \in Keyed
    BY DEF Keyed, Transcribed
  <2>2. ev.file # f /\ \E j \in Nat, l \in Written : ev.key = KeyAt(ev.file, ev.session, j, l)
    BY <2>1 DEF Unread, FromLine
  <2> QED BY <2>2 DEF KeyAt, Placed, Place, Snapshots
<1>6. \A i \in R : E(i) = D(i)
  BY <1>3 DEF RowEvent
<1> HIDE DEF R, E, D, rows, Key
<1>7. {E(i) : i \in R} = {D(i) : i \in R}
  BY <1>6
<1> HIDE DEF T
<1>8. ReadingOf(f).events = events \cup {RowEvent(f, i, T[i]) : i \in R}
  BY <1>1, <1>7 DEF D
<1>9. \A i \in R : i \in Nat
  BY <1>2, <1>4 DEF Unread, CallRows
<1>10. \A i \in R : RowKey(f, i) \notin Keys(events)
  BY <1>3, <1>5 DEF Keys
<1>11. \A i, j \in R : i < j => RowKey(f, i) # RowKey(f, j)
  BY <1>3, <1>4, <1>9
<1> QED BY <1>2, <1>4, <1>8, <1>10, <1>11, FirstForm

LEMMA KiloForm ==
    ASSUME NEW f \in Files, Unread(f), harness = "kilo" PROVE ReadForm(f)
<1> DEFINE ls == files[f]
           rows == KiloRows(ls)
           Key(i) == Id(ls[i])
           R == {i \in rows : /\ Key(i) \notin Keys(events)
                              /\ \A j \in rows : KiloBefore(ls, j, i) => Key(j) # Key(i)}
           Turn(i) == \E p \in PromptLines(ls) :
                        /\ KiloBefore(ls, p, i)
                        /\ \A j \in rows : ~(KiloBefore(ls, p, j) /\ KiloBefore(ls, j, i))
           T == [i \in R |-> Turn(i)]
           E(i) == Event(f, session[f], ls[i], Key(i), Turn(i))
           D(i) == RowEvent(f, i, T[i])
<1>1. ReadingOf(f).events = events \cup {E(i) : i \in R}
  BY DEF ReadingOf, Kilo, Reading, Counted
<1>2. rows \subseteq CallRows(f)
  BY RowsCall DEF KiloRows
<1>3. \A i : Key(i) = RowKey(f, i)
  BY DEF RowKey, KeyAt, Placed, Snapshots
<1>4. /\ R \subseteq rows
      /\ \A i \in R : Key(i) \notin Keys(events) /\ \A j \in rows : KiloBefore(ls, j, i) => Key(j) # Key(i)
  OBVIOUS
<1>5. \A i \in R : E(i) = D(i)
  BY <1>3 DEF RowEvent
<1> HIDE DEF R, E, D, rows, Key, Turn
<1>6. {E(i) : i \in R} = {D(i) : i \in R}
  BY <1>5
<1> HIDE DEF T
<1>7. ReadingOf(f).events = events \cup {RowEvent(f, i, T[i]) : i \in R}
  BY <1>1, <1>6 DEF D
<1>8. \A i \in R : i \in Nat /\ ls[i].dated \in BOOLEAN
  <2>1. \A i \in R : i \in DOMAIN ls
    BY <1>2, <1>4 DEF CallRows
  <2>2. \A i \in DOMAIN ls : i \in Nat /\ ls[i] \in Line
    BY DEF Unread
  <2> QED BY <2>1, <2>2 DEF Line
<1>9. ASSUME NEW i \in R, NEW j \in R, i < j PROVE RowKey(f, i) # RowKey(f, j)
  <2>1. KiloBefore(ls, i, j) \/ KiloBefore(ls, j, i)
    BY <1>8, <1>9 DEF KiloBefore
  <2> QED BY <1>3, <1>4, <2>1
<1> QED BY <1>2, <1>3, <1>4, <1>7, <1>9, FirstForm

LEMMA KimiForm ==
    ASSUME NEW f \in Files, Unread(f), harness = "kimi" PROVE ReadForm(f)
<1> DEFINE ls == files[f]
           rows == KimiRows(ls)
           Slot(i) == KimiSlot(f, session[f], ls, i)
           best == {i \in rows : \A j \in rows \ {i} :
                    Slot(j) = Slot(i) => IF j < i THEN KimiReplaces(ls[i], ls[j])
                                                  ELSE ~KimiReplaces(ls[j], ls[i])}
           R == {i \in best : \A ev \in events : ev.key = Slot(i) => KimiReplaces(ls[i], ev)}
           X == {ev \in events : \E i \in R : ev.key = Slot(i)}
           T == [i \in R |-> TRUE]
           E(i) == Event(f, session[f], ls[i], Slot(i), TRUE)
           D(i) == RowEvent(f, i, T[i])
<1>1. ReadingOf(f).events = (events \ X) \cup {E(i) : i \in R}
  BY DEF ReadingOf, Kimi, Reading, Counted, Always
<1>2. rows \subseteq CallRows(f)
  BY RowsCall DEF KimiRows, Holding, CallRows
<1>3. \A i : Slot(i) = RowKey(f, i)
  BY DEF KimiSlot, RowKey, KeyAt, Placed, Snapshots
<1>4. /\ R \subseteq best /\ best \subseteq rows
      /\ \A ev \in events \ X : \A i \in R : ev.key # Slot(i)
  OBVIOUS
<1>5. ASSUME NEW i \in best, NEW j \in best, i # j, Slot(i) = Slot(j) PROVE FALSE
  <2>1. i \in Nat /\ j \in Nat
    BY <1>2 DEF Unread, CallRows
  <2>2. /\ IF j < i THEN KimiReplaces(ls[i], ls[j]) ELSE ~KimiReplaces(ls[j], ls[i])
        /\ IF i < j THEN KimiReplaces(ls[j], ls[i]) ELSE ~KimiReplaces(ls[i], ls[j])
    BY <1>5
  <2> QED BY <1>5, <2>1, <2>2
<1>6. \A i \in R : E(i) = D(i)
  BY <1>3 DEF RowEvent
<1> HIDE DEF X, R, E, D, rows, Slot, best
<1>7. {E(i) : i \in R} = {D(i) : i \in R}
  BY <1>6
<1> HIDE DEF T
<1>8. ReadingOf(f).events = (events \ X) \cup {RowEvent(f, i, T[i]) : i \in R}
  BY <1>1, <1>7 DEF D
<1>9. \A i \in R : RowKey(f, i) \notin Keys(events \ X)
  BY <1>3, <1>4 DEF Keys
<1>10. \A i, j \in R : RowKey(f, i) = RowKey(f, j) => i = j
  BY <1>3, <1>4, <1>5
<1>11. Forms(f, X, R, T)
  BY <1>2, <1>4, <1>8, <1>9, <1>10 DEF Forms
<1> QED BY <1>11 DEF ReadForm

LEMMA DroidForm ==
    ASSUME NEW f \in Files, Unread(f), harness = "droid" PROVE ReadForm(f)
<1> DEFINE ls == files[f]
           key == <<"session", session[f]>>
           rows == Rows(ls, {"good", "zero"})
           Key(i) == key
           older == {ev \in events : ev.key = key /\ ev.file \notin {g \in Files : Newer(g, f)}}
           R == First(rows, Key, events \ older)
           X == IF R = {} THEN {} ELSE older
           T == [i \in R |-> FALSE]
           E(i) == Event(f, session[f], ls[i], key, FALSE)
           D(i) == RowEvent(f, i, T[i])
<1>1. ReadingOf(f).events = (events \ X) \cup {E(i) : i \in R}
  <2>1. ReadingOf(f).events = (IF R = {} THEN events ELSE events \ older) \cup {E(i) : i \in R}
    BY DEF ReadingOf, Droid, Reading, Counted, Never
  <2> QED BY <2>1
<1>2. rows \subseteq CallRows(f)
  BY RowsCall
<1>3. \A i : key = RowKey(f, i)
  BY DEF RowKey, KeyAt, Placed, Snapshots
<1>4. /\ R \subseteq rows
      /\ \A i \in R : key \notin Keys(events \ older) /\ \A j \in rows : ~(j < i)
  BY DEF First
<1>5. \A i \in R : key \notin Keys(events \ X)
  BY <1>4
<1>6. \A i \in R : E(i) = D(i)
  BY <1>3 DEF RowEvent
<1> HIDE DEF X, R, E, D, rows, key, older
<1>7. {E(i) : i \in R} = {D(i) : i \in R}
  BY <1>6
<1> HIDE DEF T
<1>8. ReadingOf(f).events = (events \ X) \cup {RowEvent(f, i, T[i]) : i \in R}
  BY <1>1, <1>7 DEF D
<1>9. ASSUME NEW i \in R, NEW j \in R PROVE i = j
  <2>1. i \in Nat /\ j \in Nat
    BY <1>2, <1>4 DEF Unread, CallRows
  <2>2. ~(j < i) /\ ~(i < j)
    BY <1>4
  <2> QED BY <2>1, <2>2
<1>10. Forms(f, X, R, T)
  BY <1>2, <1>3, <1>4, <1>5, <1>8, <1>9 DEF Forms
<1> QED BY <1>10 DEF ReadForm

\* A thread's messages and what is left of its ledger, all with an id.
LEMMA AmpForm ==
    ASSUME NEW f \in Files, Unread(f), harness = "amp", \A l \in Written : l.named
    PROVE  ReadForm(f)
<1> DEFINE ls == files[f]
           s == session[f]
           rows == AmpRows(ls, "call")
           ledger == AmpRows(ls, "record")
           LedgerKey(r) == AmpLedgerKey(f, s, ls, r)
           taken[n \in 0..Len(ls)] ==
               IF n = 0 THEN {}
               ELSE taken[n - 1] \cup
                    (IF n \in rows THEN AmpMatch(ls, n, ledger \ taken[n - 1], quirk) ELSE {})
           Key(i) == CASE ls[i].named -> AmpName(s, ls[i])
                       [] ~ls[i].named /\ taken[i] # taken[i - 1] ->
                               LedgerKey(CHOOSE r \in taken[i] \ taken[i - 1] : TRUE)
                       [] OTHER -> <<"ledger", s>>
           Turn(i) == AfterPrompt(ls, i, Rows(ls, {"good", "zero", "bad"}))
           said == First(rows, Key, events)
           E(i) == Event(f, s, ls[i], Key(i), Turn(i))
           messages == events \cup {E(i) : i \in said}
           left == First(ledger \ taken[Len(ls)], LedgerKey, messages)
           G(i) == Event(f, s, ls[i], LedgerKey(i), FALSE)
           R == said \cup left
           T == [i \in R |-> IF i \in said THEN Turn(i) ELSE FALSE]
           D(i) == RowEvent(f, i, T[i])
<1>1. ReadingOf(f).events = messages \cup {G(i) : i \in left}
  BY DEF ReadingOf, Amp, Reading, Counted, Never
<1>2. \A i \in DOMAIN ls : ls[i].named
  BY WrittenAt
<1>3. /\ rows \subseteq CallRows(f) /\ ledger \subseteq CallRows(f)
      /\ \A i \in rows : i \notin ledger
  BY DEF AmpRows, Holding, CallRows
<1>4. CallRows(f) \subseteq DOMAIN ls
  BY DEF CallRows
<1>5. \A i \in DOMAIN ls : Key(i) = RowKey(f, i) /\ LedgerKey(i) = RowKey(f, i)
  BY <1>2 DEF RowKey, KeyAt, Placed, Snapshots, AmpLedgerKey
<1> HIDE DEF taken, rows, ledger
<1>6. /\ said \subseteq rows
      /\ \A i \in said : Key(i) \notin Keys(events) /\ \A j \in rows : j < i => Key(j) # Key(i)
  BY DEF First
<1>7. /\ left \subseteq ledger
      /\ \A i \in left : /\ LedgerKey(i) \notin Keys(messages)
                         /\ \A j \in left : j < i => LedgerKey(j) # LedgerKey(i)
  BY DEF First
<1> HIDE DEF said, left, Key, LedgerKey, Turn
<1>8. \A i \in said : i \in R /\ T[i] = Turn(i) /\ E(i) = D(i)
  BY <1>3, <1>4, <1>5, <1>6 DEF RowEvent
<1>9. \A i \in left : i \in R /\ T[i] = FALSE /\ G(i) = D(i)
  BY <1>3, <1>4, <1>5, <1>6, <1>7 DEF RowEvent
<1>10. \A i \in said : E(i) \in messages /\ E(i).key = Key(i)
  BY DEF Event
<1> HIDE DEF E, G, T
<1>11. messages = events \cup {D(i) : i \in said} /\ {G(i) : i \in left} = {D(i) : i \in left}
  BY <1>8, <1>9
<1>12. ReadingOf(f).events = events \cup {D(i) : i \in R}
  BY <1>1, <1>11
<1>13. \A i \in left : \A j \in said : LedgerKey(i) # Key(j)
  BY <1>7, <1>10 DEF Keys
<1>14. \A i \in left : LedgerKey(i) \notin Keys(events)
  BY <1>7 DEF Keys
<1> HIDE DEF messages
<1>15. /\ R \subseteq CallRows(f) /\ R \subseteq DOMAIN ls
       /\ \A i \in R : i \in Nat
  BY <1>3, <1>4, <1>6, <1>7 DEF Unread
<1>16. \A i \in R : RowKey(f, i) \notin Keys(events)
  BY <1>5, <1>6, <1>14, <1>15
<1>17. ASSUME NEW i \in R, NEW j \in R, i < j PROVE RowKey(f, i) # RowKey(f, j)
  BY <1>5, <1>6, <1>7, <1>13, <1>15, <1>17
<1> QED BY <1>12, <1>15, <1>16, <1>17, FirstForm

LEMMA ReadersForm ==
    ASSUME NEW f \in Files, Unread(f), AllNamed, harness \in Keyed \cup Snapshots
    PROVE  ReadForm(f)
<1>1. CASE harness = "claude" BY <1>1, ClaudeForm
<1>2. CASE harness = "qwen" BY <1>2, QwenForm
<1>3. CASE harness = "gemini" BY <1>3, GeminiForm
<1>4. CASE harness = "pi" BY <1>4, PiForm
<1>5. CASE harness = "openclaw" BY <1>5, OpenclawForm
<1>6. CASE harness = "commandcode" BY <1>6, CommandcodeForm
<1>7. CASE harness = "junie" BY <1>7, JunieForm
<1>8. CASE harness = "kimi" BY <1>8, KimiForm
<1>9. CASE harness = "amp" BY <1>9, AmpForm DEF AllNamed
<1>10. CASE harness = "codebuff" BY <1>10, CodebuffForm
<1>11. CASE harness = "augment" BY <1>11, AugmentForm
<1>12. CASE harness = "kilo" BY <1>12, KiloForm
<1>13. CASE harness = "kiro" BY <1>13, KiroForm
<1>14. CASE harness = "deepseek" BY <1>14, DeepseekForm
<1>15. CASE harness \in {"opencodereview", "trae", "cherrystudio"} BY <1>15, RecordForm
<1>16. CASE harness = "fx-sidecar" BY <1>16, SidecarForm
<1>17. CASE harness \in {"goose", "zed", "mux"} BY <1>17, TotalForm
<1>18. CASE harness = "droid" BY <1>18, DroidForm
<1> QED BY <1>1, <1>2, <1>3, <1>4, <1>5, <1>6, <1>7, <1>8, <1>9, <1>10, <1>11, <1>12, <1>13, <1>14,
           <1>15, <1>16, <1>17, <1>18 DEF Keyed, Snapshots, Transcribed, Recorded

-----------------------------------------------------------------------------
(***************************************************************************)
(* The events of these readers have a key each, and one call has one key.  *)
(***************************************************************************)
LEMMA RowAccounted ==
    ASSUME TypeInv, harness \in Keyed \cup Snapshots, NEW f \in Files, NEW i \in CallRows(f), NEW turn
    PROVE  LET ev == RowEvent(f, i, turn)
           IN  /\ ev.file = f /\ ev.session = session[f] /\ ev.key = RowKey(f, i)
               /\ harness \in Keyed => FromLine(ev)
               /\ harness \in Snapshots => /\ ev.key = <<"session", ev.session>>
                                           /\ \A e \in ev.calls : e[1] = ev.session
<1> DEFINE ev == RowEvent(f, i, turn)
           l == files[f][i]
<1>1. /\ ev.file = f /\ ev.session = session[f] /\ ev.key = RowKey(f, i) /\ ev.calls = l.calls
  BY DEF RowEvent, Event
<1>2. i \in DOMAIN files[f] /\ l.kind \in {"call", "record"}
  BY DEF CallRows
<1>3. l \in Lines(f)
  BY <1>2 DEF Lines
<1>4. Fits(l, session[f]) /\ l \in Written
  BY <1>3, InLines
<1>5. i \in Nat
  BY <1>2 DEF TypeInv
<1>6. harness # "copilot"
  BY DEF Keyed, Snapshots
<1>7. l.entry[1] = session[f] /\ \A e \in l.calls : e[1] = session[f]
  BY <1>4, <1>6 DEF Fits
<1>8. ev.key = KeyAt(ev.file, ev.session, i, l)
  BY <1>1 DEF RowKey
<1> HIDE DEF ev
<1>9. FromLine(ev)
  BY <1>1, <1>2, <1>4, <1>5, <1>7, <1>8 DEF FromLine
<1>10. harness \in Snapshots => ev.key = <<"session", ev.session>>
  <2>1. harness \in Snapshots => KeyAt(ev.file, ev.session, i, l) = <<"session", ev.session>>
    BY DEF KeyAt, Placed, Snapshots
  <2> QED BY <1>8, <2>1
<1> QED BY <1>1, <1>7, <1>9, <1>10 DEF ev

LEMMA UnreadIs ==
    ASSUME TypeInv, todo \subseteq Files, KeyedInv, harness \in Keyed \cup Snapshots, AllNamed,
           NEW f \in todo
    PROVE  Unread(f)
<1>1. f \in Files /\ files[f] \in Seq(Line)
  BY DEF TypeInv
<1>2. \A ev \in events : Accounted(ev)
  BY DEF KeyedInv
<1> QED BY <1>1, <1>2 DEF Unread, Accounted

LEMMA ReadKeepsKeyed ==
    ASSUME TypeInv, todo \subseteq Files, KeyedInv, NEW f \in Files, Read(f)
    PROVE  KeyedInv'
<1>1. /\ f \in todo /\ todo' = todo \ {f} /\ events' = ReadingOf(f).events
      /\ harness' = harness /\ quirk' = quirk /\ session' = session /\ files' = files
      /\ harness = "deepseek" => carried' = carried \cup {session[f]}
  BY DEF Read, Past
<1>2. /\ Written' = Written /\ (AllNamed' <=> AllNamed)
      /\ \A ev : FromLine(ev)' <=> FromLine(ev)
  BY <1>1 DEF Written, Lines, AllNamed, FromLine, KeyAt, UsageKey
<1> SUFFICES ASSUME harness \in Keyed \cup Snapshots, AllNamed
             PROVE  /\ \A ev \in events' : Accounted(ev)'
                    /\ \A ev, dv \in events' : Apart(ev, dv)'
  BY <1>1, <1>2 DEF KeyedInv
<1>3. Unread(f)
  BY <1>1, UnreadIs
<1>4. PICK X, R, T : Forms(f, X, R, T)
  BY <1>3, ReadersForm DEF ReadForm
<1>5. /\ events' = (events \ X) \cup {RowEvent(f, i, T[i]) : i \in R}
      /\ R \subseteq CallRows(f)
      /\ \A i \in R : RowKey(f, i) \notin Keys(events \ X)
      /\ \A i, j \in R : RowKey(f, i) = RowKey(f, j) => i = j
      /\ harness = "deepseek" /\ R # {} => session[f] \notin carried
  BY <1>1, <1>4 DEF Forms
<1>6. /\ \A ev \in events : Accounted(ev) /\ ev.file # f
      /\ \A ev, dv \in events : Apart(ev, dv)
  BY <1>3 DEF KeyedInv, Unread
<1>7. ASSUME NEW ev \in events' PROVE ev \in events \ X \/ \E i \in R : ev = RowEvent(f, i, T[i])
  BY <1>5
<1>8. ASSUME NEW i \in R
      PROVE  LET ev == RowEvent(f, i, T[i])
             IN  /\ ev.file = f /\ ev.session = session[f] /\ ev.key = RowKey(f, i)
                 /\ harness \in Keyed => FromLine(ev)
                 /\ harness \in Snapshots => /\ ev.key = <<"session", ev.session>>
                                             /\ \A e \in ev.calls : e[1] = ev.session
  BY <1>5, RowAccounted
<1>9. ASSUME NEW ev \in events' PROVE Accounted(ev)'
  <2>1. CASE ev \in events \ X
    BY <1>1, <1>2, <1>6, <2>1 DEF Accounted
  <2>2. ASSUME NEW i \in R, ev = RowEvent(f, i, T[i]) PROVE Accounted(ev)'
    <3>1. /\ ev.file = f /\ ev.session = session[f]
          /\ harness \in Keyed => FromLine(ev)
          /\ harness \in Snapshots => /\ ev.key = <<"session", ev.session>>
                                      /\ \A e \in ev.calls : e[1] = ev.session
      BY <1>8, <2>2
    <3> QED BY <1>1, <1>2, <3>1 DEF Accounted
  <2> QED BY <1>7, <2>1, <2>2
<1>10. ASSUME NEW ev \in events', NEW dv \in events' PROVE Apart(ev, dv)'
  <2>1. Apart(ev, dv)' <=> Apart(ev, dv)
    BY <1>1 DEF Apart
  <2>2. CASE ev \in events \ X /\ dv \in events \ X
    BY <1>6, <2>1, <2>2
  <2>3. ASSUME NEW i \in R, NEW old \in events \ X, NEW new, new = RowEvent(f, i, T[i])
        PROVE  old.key # new.key /\ (harness = "deepseek" => old.session # new.session)
    <3>1. new.session = session[f] /\ new.key = RowKey(f, i)
      BY <1>8, <2>3
    <3>2. old.key \in Keys(events \ X)
      BY DEF Keys
    <3>3. harness = "deepseek" => old.session \in carried /\ session[f] \notin carried
      BY <1>5, <1>6 DEF Accounted
    <3> QED BY <1>5, <3>1, <3>2, <3>3
  <2>4. ASSUME NEW i \in R, NEW j \in R, ev = RowEvent(f, i, T[i]), dv = RowEvent(f, j, T[j])
        PROVE  Apart(ev, dv)
    <3>1. /\ ev.file = f /\ ev.key = RowKey(f, i)
          /\ dv.file = f /\ dv.key = RowKey(f, j)
      BY <1>8, <2>4
    <3>2. ev.key = dv.key => i = j
      BY <1>5, <3>1
    <3> QED BY <2>4, <3>1, <3>2 DEF Apart
  <2> QED BY <1>7, <2>1, <2>2, <2>3, <2>4 DEF Apart
<1> QED BY <1>9, <1>10

LEMMA FromLineStays ==
    ASSUME WorldInv, HarnessStep, harness \in Keyed, NEW ev, ev.file \in Files, FromLine(ev)
    PROVE  FromLine(ev)'
<1>1. TypeInv /\ harness' = harness /\ quirk' = quirk /\ harness \notin Snapshots
  BY StepForm DEF WorldInv, Keyed, Snapshots, Transcribed, Recorded
<1>2. Written \subseteq Written'
  BY <1>1, WrittenGrows
<1>3. PICK i \in Nat, l \in Written :
        /\ ev.key = KeyAt(ev.file, ev.session, i, l)
        /\ ev.calls = l.calls /\ l.entry[1] = ev.session
        /\ l.kind \in {"call", "record"}
        /\ harness \notin Rotates => i \in DOMAIN files[ev.file] /\ files[ev.file][i] = l
  BY DEF FromLine
<1>4. KeyAt(ev.file, ev.session, i, l)' = KeyAt(ev.file, ev.session, i, l)
  BY <1>1 DEF KeyAt, UsageKey
<1>5. ASSUME harness \notin Rotates
      PROVE  i \in DOMAIN files'[ev.file] /\ files'[ev.file][i] = files[ev.file][i]
  <2>1. ASSUME NEW f \in Files, NEW k \in Line, Adds(f, k)
        PROVE  i \in DOMAIN files'[ev.file] /\ files'[ev.file][i] = files[ev.file][i]
    <3>1. CASE ev.file = f
      BY <1>1, <1>3, <1>5, <2>1, <3>1, AfterAdds
    <3>2. CASE ev.file # f
      BY <1>1, <1>3, <1>5, <2>1, <3>2, AfterAdds
    <3> QED BY <3>1, <3>2
  <2>2. ASSUME NEW f \in Files, NEW g \in Files, Moves(f, g)
        PROVE  i \in DOMAIN files'[ev.file] /\ files'[ev.file][i] = files[ev.file][i]
    <3>1. /\ files[g] = <<>>
          /\ \A h \in Files \ {f, g} : files'[h] = files[h]
          /\ files'[f] = files[f]
      BY <1>1, <1>5, <2>2, AfterMoves
    <3>2. ev.file # g
      BY <1>3, <1>5, <3>1
    <3> QED BY <1>3, <1>5, <3>1, <3>2
  <2> QED BY <1>1, <2>1, <2>2, StepForm
<1>6. l \in Written'
  BY <1>2
<1> QED BY <1>1, <1>3, <1>4, <1>5, <1>6 DEF FromLine

LEMMA HarnessKeepsKeyed ==
    ASSUME WorldInv, KeyedInv, todo \subseteq Files, HarnessStep
    PROVE  KeyedInv'
<1>1. TypeInv
  BY DEF WorldInv
<1>2. UNCHANGED <<harness, quirk, reader>>
  BY <1>1, StepForm
<1>3. harness' = harness /\ events' = events /\ todo' = todo /\ carried' = carried
  BY <1>2 DEF reader
<1> SUFFICES ASSUME harness \in Keyed \cup Snapshots, AllNamed'
             PROVE  /\ \A ev \in events : Accounted(ev)'
                    /\ \A ev, dv \in events : Apart(ev, dv)'
  BY <1>3 DEF KeyedInv
<1>4. AllNamed
  <2>1. harness = "amp" => Written \subseteq Written'
    BY <1>1, WrittenGrows DEF Snapshots
  <2> QED BY <1>3, <2>1 DEF AllNamed
<1>5. /\ \A ev \in events : Accounted(ev)
      /\ \A ev, dv \in events : Apart(ev, dv)
  BY <1>4 DEF KeyedInv
<1>6. ASSUME NEW ev \in events PROVE Accounted(ev)'
  <2>1. Accounted(ev)
    BY <1>5
  <2>2. ev.file \in Files
    BY <2>1 DEF Accounted
  <2>3. harness \in Keyed => FromLine(ev)'
    BY <2>1, <2>2, FromLineStays DEF Accounted
  <2> QED BY <1>3, <2>1, <2>3 DEF Accounted
<1>7. \A ev, dv \in events : Apart(ev, dv)'
  BY <1>3, <1>5 DEF Apart
<1> QED BY <1>6, <1>7

LEMMA NextKeyed ==
    ASSUME WorldInv, KeyedInv, todo \subseteq Files, [Next]_vars
    PROVE  KeyedInv'
<1>1. CASE HarnessStep
  BY <1>1, HarnessKeepsKeyed
<1>2. CASE ReaderStep \/ UNCHANGED vars
  <2>1. UNCHANGED <<harness, quirk, session, files, age>>
    BY <1>2, ReaderLeavesWorld
  <2>2. /\ Written' = Written /\ (AllNamed' <=> AllNamed)
        /\ \A ev : FromLine(ev)' <=> FromLine(ev)
    BY <2>1 DEF Written, Lines, AllNamed, FromLine, KeyAt, UsageKey
  <2>3. CASE \E f \in Files : Read(f)
    BY <2>3, ReadKeepsKeyed DEF WorldInv
  <2>4. CASE Begin
    <3>1. events' = {}
      BY <2>4 DEF Begin
    <3> QED BY <3>1 DEF KeyedInv
  <2>5. CASE Select
    BY <2>1, <2>5 DEF Select, KeyedInv, Keyed, Snapshots
  <2>6. CASE UNCHANGED vars \/ \E f \in Files : Unreadable(f)
    <3>1. todo' \subseteq todo /\ events' = events /\ carried' = carried
      BY <2>6 DEF vars, reader, Unreadable, Past
    <3>2. \A ev \in events : Accounted(ev) => Accounted(ev)'
      BY <2>1, <2>2, <3>1 DEF Accounted
    <3>3. \A ev, dv \in events : Apart(ev, dv) => Apart(ev, dv)'
      BY <2>1 DEF Apart
    <3> QED BY <2>1, <2>2, <3>1, <3>2, <3>3 DEF KeyedInv
  <2> QED BY <1>2, <2>3, <2>4, <2>5, <2>6 DEF ReaderStep
<1> QED BY <1>1, <1>2, NextKinds

\* The lines that two events have a call from bear the same key.
LEMMA SameKey ==
    ASSUME WorldInv, KeyedInv, harness \in Keyed, NEW e \in Calls, Known(e),
           NEW ev \in events, NEW dv \in events, e \in ev.calls, e \in dv.calls
    PROVE  ev = dv
<1>1. TypeInv /\ UniqueInv
  BY DEF WorldInv
<1>2. AllNamed
  BY DEF Known, KnownBy, AllNamed
<1>3. Accounted(ev) /\ Accounted(dv) /\ Apart(ev, dv)
  BY <1>2 DEF KeyedInv
<1>4. PICK i \in Nat, l \in Written :
        /\ ev.key = KeyAt(ev.file, ev.session, i, l)
        /\ ev.calls = l.calls /\ l.entry[1] = ev.session
        /\ l.kind \in {"call", "record"}
        /\ harness \notin Rotates => i \in DOMAIN files[ev.file] /\ files[ev.file][i] = l
  BY <1>3 DEF Accounted, FromLine
<1>5. PICK j \in Nat, k \in Written :
        /\ dv.key = KeyAt(dv.file, dv.session, j, k)
        /\ dv.calls = k.calls /\ k.entry[1] = dv.session
        /\ k.kind \in {"call", "record"}
        /\ harness \notin Rotates => j \in DOMAIN files[dv.file] /\ files[dv.file][j] = k
  BY <1>3 DEF Accounted, FromLine
<1>6. KnownBy(l) /\ KnownBy(k)
  BY <1>4, <1>5 DEF Known
<1>7. /\ l.entry = e /\ k.entry = e
      /\ harness # "codebuff" => l.calls = {e} /\ k.calls = {e}
  <2>1. \A m \in Written : \E s : Fits(m, s)
    BY <1>1, WrittenAt DEF TypeInv
  <2>2. harness # "codebuff" => harness \notin Totalled
    BY DEF Keyed, Totalled, Snapshots, Transcribed, Recorded
  <2> QED BY <1>4, <1>5, <2>1, <2>2 DEF Fits, Marks, Known, Borrowed, Borrows
<1>9. harness \in WriteOnce => l = k
  BY <1>1, <1>4, <1>5, <1>7, WrittenAt DEF UniqueInv
<1>8. l.entry = e /\ k.entry = e /\ l.calls = k.calls /\ ev.session = dv.session
  BY <1>4, <1>5, <1>7, <1>9 DEF WriteOnce, Transcribed, Streams
<1>10. harness \in WriteOnce \ (Replays \cup Rotates) => i = j
  BY <1>1, <1>3, <1>4, <1>5, <1>8 DEF UniqueInv, Accounted
<1>11. harness \notin Copies \cup Rotates => ev.file = dv.file
  BY <1>1, <1>3, <1>4, <1>5, <1>8 DEF UniqueInv, Accounted
<1>12. harness = "deepseek" => ev.file = dv.file
  BY <1>3, <1>8 DEF Apart
<1>13. ev.key = dv.key
  <2>1. CASE harness \in {"claude", "codebuff"}
    <3>1. l.named /\ k.named
      BY <1>6, <2>1 DEF KnownBy
    <3> QED BY <1>4, <1>5, <1>8, <2>1, <3>1 DEF KeyAt, Placed, Snapshots, Id
  <2>2. CASE harness \in Placed
    <3>1. i = j /\ ev.file = dv.file
      BY <1>10, <1>11, <1>12, <2>2 DEF Placed, WriteOnce, Replays, Rotates, Copies, Transcribed, Recorded, Streams
    <3> QED BY <1>4, <1>5, <2>2, <3>1 DEF KeyAt, Placed, Snapshots
  <2>3. CASE harness = "pi"
    <3>1. l = k
      BY <1>9, <2>3 DEF WriteOnce, Transcribed, Streams
    <3> QED BY <1>4, <1>5, <1>8, <2>3, <3>1 DEF KeyAt, Placed, Snapshots
  <2>4. CASE harness \in {"openclaw", "junie"}
    <3>1. l = k /\ l.dated
      BY <1>6, <1>9, <2>4 DEF WriteOnce, Transcribed, Streams, KnownBy
    <3> QED BY <1>4, <1>5, <1>8, <2>4, <3>1 DEF KeyAt, Placed, Snapshots, UsageKey, Instant
  <2>5. CASE harness = "commandcode"
    <3>1. l.named /\ k.named /\ ev.file = dv.file
      BY <1>6, <1>11, <2>5 DEF KnownBy, Copies, Rotates
    <3> QED BY <1>4, <1>5, <1>8, <2>5, <3>1 DEF KeyAt, Placed, Snapshots, Id
  <2>6. CASE harness = "kimi"
    <3>1. l.named /\ k.named /\ l.kind = "call" /\ k.kind = "call"
      BY <1>6, <2>6 DEF KnownBy
    <3> QED BY <1>4, <1>5, <1>8, <2>6, <3>1 DEF KeyAt, Placed, Snapshots, Id
  <2>7. CASE harness \in {"amp", "kilo"}
    BY <1>4, <1>5, <1>8, <2>7 DEF KeyAt, Placed, Snapshots, AmpName, Id
  <2>8. CASE harness = "augment"
    <3>1. l.named /\ k.named
      BY <1>6, <2>8 DEF KnownBy
    <3> QED BY <1>4, <1>5, <1>8, <2>8, <3>1 DEF KeyAt, Placed, Snapshots, Id
  <2>9. CASE harness = "kiro"
    <3>1. l = k /\ i = j /\ (l.named \/ l.dated)
      BY <1>6, <1>9, <1>10, <2>9 DEF WriteOnce, Transcribed, Streams, Replays, Rotates, KnownBy
    <3> QED BY <1>4, <1>5, <1>8, <2>9, <3>1 DEF KeyAt, Placed, Snapshots, Instant
  <2> QED BY <2>1, <2>2, <2>3, <2>4, <2>5, <2>6, <2>7, <2>8, <2>9 DEF Keyed, Placed, Transcribed, Recorded
<1> QED BY <1>3, <1>13 DEF Apart

LEMMA KeyedOnce ==
    ASSUME WorldInv, KeyedInv, harness \in Keyed \cup Snapshots, NEW e \in Calls, Known(e),
           NEW ev \in CountsOf(e), NEW dv \in CountsOf(e)
    PROVE  ev = dv
<1>1. ev \in events /\ dv \in events /\ e \in ev.calls /\ e \in dv.calls
  BY DEF CountsOf
<1>2. CASE harness \in Keyed
  BY <1>1, <1>2, SameKey
<1>3. CASE harness \in Snapshots
  <2>1. AllNamed
    BY <1>3 DEF AllNamed, Snapshots
  <2>2. Accounted(ev) /\ Accounted(dv) /\ Apart(ev, dv)
    BY <1>1, <2>1 DEF KeyedInv
  <2> QED BY <1>1, <1>3, <2>2 DEF Accounted, Apart
<1> QED BY <1>2, <1>3

-----------------------------------------------------------------------------
(***************************************************************************)
(* fx: the deltas of a log's running totals have no call in common.        *)
(***************************************************************************)
LEMMA GreatestOf ==
    ASSUME NEW n \in Nat, NEW S \in SUBSET (1..n), S # {}
    PROVE  \E m \in S : \A k \in S : k <= m
<1> DEFINE R == {ss \in Nat \X Nat : ss[1] < ss[2]}
           T == {n - k : k \in S}
<1>1. T \subseteq Nat /\ T # {}
  <2>1. \A k \in S : k \in 1..n
    OBVIOUS
  <2>2. \A k \in S : n - k \in Nat
    BY <2>1
  <2> QED BY <2>2
<1>2. IsWellFoundedOn(R, Nat)
  BY NatLessThanWellFounded DEF OpToRel
<1>3. PICK i \in T : \A j \in T : <<j, i>> \notin R
  <2> HIDE DEF T, R
  <2> QED BY <1>1, <1>2, WFMin
<1>4. PICK m \in S : i = n - m
  BY DEF T
<1>5. ASSUME NEW k \in S PROVE k <= m
  <2>1. n - k \in T /\ n - k \in Nat /\ i \in Nat
    BY <1>1
  <2>2. <<n - k, i>> \in Nat \X Nat /\ <<n - k, i>>[1] = n - k /\ <<n - k, i>>[2] = i
    BY <2>1
  <2>3. ~(n - k < i)
    BY <1>3, <2>1, <2>2
  <2> QED BY <1>4, <2>3
<1> QED BY <1>5

\* What a longer total adds to a shorter one is its latest calls.
LEMMA LatestAdds ==
    ASSUME NEW s, NEW t, IsFiniteSet(t), s \subseteq t, \A d \in s, e \in t \ s : d[2] < e[2]
    PROVE  /\ Cardinality(s) <= Cardinality(t)
           /\ Latest(t, Cardinality(t) - Cardinality(s)) \cap s = {}
<1>1. /\ IsFiniteSet(t \ s) /\ Cardinality(t \ s) = Cardinality(t) - Cardinality(t \cap s)
      /\ t \cap s = s
  BY FS_Difference
<1>2. Cardinality(s) <= Cardinality(t)
  BY FS_Subset
<1>3. Cardinality(t \ s) = Cardinality(t) - Cardinality(s)
  BY <1>1
<1>4. ASSUME NEW c \in s, c \in Latest(t, Cardinality(t) - Cardinality(s)) PROVE FALSE
  <2> DEFINE later == {d \in t : d[2] > c[2]}
  <2>1. Cardinality(later) < Cardinality(t \ s)
    BY <1>3, <1>4 DEF Latest
  <2>2. \A d \in t \ s : d[2] > c[2]
    OBVIOUS
  <2>3. t \ s \subseteq later
    BY <2>2
  <2>4. IsFiniteSet(later)
    BY FS_Subset
  <2> HIDE DEF later
  <2>5. /\ Cardinality(t \ s) <= Cardinality(later)
        /\ Cardinality(t \ s) \in Nat /\ Cardinality(later) \in Nat
    BY <1>1, <2>3, <2>4, FS_Subset, FS_CardinalityType
  <2> QED BY <2>1, <2>5
<1> QED BY <1>2, <1>4

LEMMA DeltasApart ==
    ASSUME NEW ls \in Seq(Line), Totals(ls), NEW i \in FxUsage(ls), NEW j \in FxUsage(ls), i < j
    PROVE  FxDelta(ls, j) \cap ls[i].calls = {}
<1>1. \A k \in FxUsage(ls) : k \in CallLines(ls) /\ k \in DOMAIN ls
  BY DEF FxUsage, Rows, Holding, CallLines
<1>2. Len(ls) \in Nat /\ DOMAIN ls = 1..Len(ls)
  OBVIOUS
<1> DEFINE before == {k \in FxUsage(ls) : k < j}
           p == CHOOSE k \in before : \A m \in before : m <= k
           s == ls[p].calls
           t == ls[j].calls
<1>3. before \subseteq 1..Len(ls) /\ before # {}
  BY <1>1, <1>2
<1>4. \E k \in before : \A m \in before : m <= k
  BY <1>2, <1>3, GreatestOf
<1>5. p \in before /\ \A m \in before : m <= p
  BY <1>4
<1> DEFINE previous == IF before = {} THEN 0
                       ELSE Cardinality(ls[CHOOSE k \in before : \A m \in before : m <= k].calls)
<1>6. FxDelta(ls, j) = Latest(t, IF Cardinality(t) < Cardinality(s) THEN Cardinality(t)
                                 ELSE Cardinality(t) - Cardinality(s))
  <2>1. FxDelta(ls, j) = Latest(t, IF Cardinality(t) < previous THEN Cardinality(t)
                                   ELSE Cardinality(t) - previous)
    BY Zenon DEF FxDelta
  <2>2. previous = Cardinality(s)
    BY <1>3
  <2> HIDE DEF previous, before, p, s, t
  <2> QED BY <2>1, <2>2
<1> HIDE DEF previous
<1>7. /\ p \in CallLines(ls) /\ j \in CallLines(ls) /\ i \in CallLines(ls) /\ p < j /\ i <= p
      /\ p \in Nat /\ i \in Nat /\ j \in Nat
  BY <1>1, <1>2, <1>5
<1>8. Continues(s, t) /\ Continues(ls[i].calls, t) /\ IsFiniteSet(t) /\ IsFiniteSet(s)
  BY <1>7 DEF Totals
<1>9. ls[i].calls \subseteq t => ls[i].calls \subseteq s /\ ls[i].calls # {}
  <2>1. CASE i = p
    BY <1>7, <2>1 DEF Totals
  <2>2. CASE i < p
    BY <1>7, <2>2 DEF Totals
  <2> QED BY <1>7, <2>1, <2>2
<1>10. \A n : Latest(t, n) \subseteq t
  BY DEF Latest
<1> HIDE DEF before, p, s, t
<1>11. CASE s \subseteq t
  <2>1. Cardinality(s) <= Cardinality(t) /\ Latest(t, Cardinality(t) - Cardinality(s)) \cap s = {}
    BY <1>8, <1>11, LatestAdds DEF Continues
  <2>2. Cardinality(s) \in Nat /\ Cardinality(t) \in Nat
    BY <1>8, FS_CardinalityType
  <2>3. FxDelta(ls, j) \cap s = {} /\ FxDelta(ls, j) \subseteq t
    BY <1>6, <1>10, <2>1, <2>2
  <2> QED BY <1>8, <1>9, <2>3 DEF Continues
<1>12. CASE s \cap t = {}
  <2>1. FxDelta(ls, j) \subseteq t
    BY <1>6, <1>10
  <2> QED BY <1>8, <1>9, <1>12, <2>1 DEF Continues
<1> QED BY <1>8, <1>11, <1>12 DEF Continues

LEMMA TotalsAppend ==
    ASSUME NEW ls \in Seq(Line), NEW l \in Line, Totals(ls), l.kind = "call" => ComesAfter(ls, l.calls)
    PROVE  Totals(Append(ls, l))
<1> DEFINE new == Append(ls, l)
           n == Len(ls) + 1
<1>1. /\ Len(ls) \in Nat /\ DOMAIN ls = 1..Len(ls) /\ DOMAIN new = 1..n
      /\ \A i \in DOMAIN ls : new[i] = ls[i] /\ i \in Nat /\ i < n
      /\ new[n] = l
  OBVIOUS
<1>2. n \in Nat /\ \A i \in DOMAIN new : i \in DOMAIN ls \/ i = n
  BY <1>1
<1> HIDE DEF new, n
<1>3. ASSUME NEW i \in CallLines(new)
      PROVE  \/ i \in CallLines(ls) /\ new[i] = ls[i] /\ i < n /\ i \in Nat
             \/ i = n /\ new[i] = l /\ l.kind = "call"
  BY <1>1, <1>2 DEF CallLines
<1>4. ASSUME NEW i \in CallLines(new)
      PROVE  new[i].calls \subseteq Given(harness) /\ new[i].calls # {} /\ IsFiniteSet(new[i].calls)
  BY <1>3 DEF Totals, ComesAfter
<1>5. ASSUME NEW i \in CallLines(new), NEW j \in CallLines(new), i < j
      PROVE  Continues(new[i].calls, new[j].calls)
  <2>1. i \in CallLines(ls) /\ new[i] = ls[i]
    BY <1>2, <1>3, <1>5
  <2>2. CASE j \in CallLines(ls) /\ new[j] = ls[j]
    BY <1>5, <2>1, <2>2 DEF Totals
  <2>3. CASE j = n /\ new[j] = l /\ l.kind = "call"
    BY <2>1, <2>3 DEF ComesAfter
  <2> QED BY <1>3, <2>2, <2>3
<1>6. ASSUME NEW i \in CallLines(new), NEW j \in CallLines(new), NEW k \in CallLines(new),
             i < k, k < j, new[i].calls \subseteq new[j].calls
      PROVE  new[i].calls \subseteq new[k].calls
  <2>1. k \in CallLines(ls) /\ new[k] = ls[k] /\ i \in CallLines(ls) /\ new[i] = ls[i]
    BY <1>2, <1>3, <1>6
  <2>2. CASE j \in CallLines(ls) /\ new[j] = ls[j]
    BY <1>6, <2>1, <2>2 DEF Totals
  <2>3. CASE j = n /\ new[j] = l /\ l.kind = "call"
    BY <1>6, <2>1, <2>3 DEF ComesAfter
  <2> QED BY <1>3, <2>2, <2>3
<1>7. Totals(new)
  BY <1>4, <1>5, <1>6 DEF Totals
<1> QED BY <1>7 DEF new

\* A replay of the last total comes after all, and so does a total that adds
\* to it, or begins anew with, a call later than all that were logged.
LEMMA ReplayComesAfter ==
    ASSUME NEW ls \in Seq(Line), Totals(ls), NEW m, LastCall(ls, m)
    PROVE  ComesAfter(ls, ls[m].calls)
<1>1. m \in CallLines(ls) /\ m \in Nat /\ \A k \in CallLines(ls) : k <= m /\ k \in Nat
  BY DEF LastCall, CallLines
<1>2. ASSUME NEW i \in CallLines(ls) PROVE Continues(ls[i].calls, ls[m].calls)
  <2>1. CASE i = m
    BY <2>1 DEF Continues
  <2>2. CASE i < m
    BY <1>1, <2>2 DEF Totals
  <2> QED BY <1>1, <2>1, <2>2
<1>3. ASSUME NEW i \in CallLines(ls), NEW k \in CallLines(ls), i < k, ls[i].calls \subseteq ls[m].calls
      PROVE  ls[i].calls \subseteq ls[k].calls
  <2>1. CASE k = m
    BY <1>3, <2>1
  <2>2. CASE k < m
    BY <1>1, <1>3, <2>2 DEF Totals
  <2> QED BY <1>1, <2>1, <2>2
<1> QED BY <1>1, <1>2, <1>3 DEF ComesAfter, Totals

LEMMA CallComesAfter ==
    ASSUME NEW ls \in Seq(Line), Totals(ls), NEW e \in Given(harness),
           \A i \in CallLines(ls) : e \notin ls[i].calls /\ \A d \in ls[i].calls : d[2] < e[2]
    PROVE  /\ ComesAfter(ls, {e})
           /\ \A m : LastCall(ls, m) => ComesAfter(ls, {e} \cup ls[m].calls)
<1>1. ComesAfter(ls, {e})
  <2>1. IsFiniteSet({e})
    BY FS_Singleton
  <2>2. \A i \in CallLines(ls) : Continues(ls[i].calls, {e})
    BY DEF Continues
  <2>3. \A i \in CallLines(ls) : ~(ls[i].calls \subseteq {e})
    BY DEF Totals
  <2> QED BY <2>1, <2>2, <2>3 DEF ComesAfter
<1>2. ASSUME NEW m, LastCall(ls, m) PROVE ComesAfter(ls, {e} \cup ls[m].calls)
  <2> DEFINE t == {e} \cup ls[m].calls
  <2>1. ComesAfter(ls, ls[m].calls)
    BY <1>2, ReplayComesAfter
  <2>2. IsFiniteSet(t) /\ t \subseteq Given(harness) /\ t # {}
    BY <2>1, FS_AddElement DEF ComesAfter
  <2>3. ASSUME NEW i \in CallLines(ls) PROVE Continues(ls[i].calls, t)
    BY <2>1 DEF ComesAfter, Continues
  <2>4. ASSUME NEW i \in CallLines(ls), NEW k \in CallLines(ls), i < k, ls[i].calls \subseteq t
        PROVE  ls[i].calls \subseteq ls[k].calls
    <3>1. ls[i].calls \subseteq ls[m].calls
      BY <2>4
    <3> QED BY <2>1, <2>4, <3>1 DEF ComesAfter
  <2> HIDE DEF t
  <2> QED BY <2>2, <2>3, <2>4 DEF ComesAfter, t
<1> QED BY <1>1, <1>2

\* What the harness does then.
LEMMA FxSteps ==
    ASSUME TypeInv, harness = "fx", HarnessStep
    PROVE  \E f \in Files : (\E e \in Entries : Log(f, e)) \/ Replay(f)
<1>1. ASSUME NEW f \in Files, Finish(f) PROVE FALSE
  <2>1. files[f] \in Seq(Line) /\ files[f] # <<>> /\ ~LastOf(f).full
    BY <1>1 DEF Finish, TypeInv
  <2>2. LastOf(f) \in Lines(f)
    BY <2>1 DEF LastOf, Lines
  <2>3. Fits(LastOf(f), session[f])
    BY <2>2, InLines
  <2> QED BY <2>1, <2>3 DEF Fits, Streams
<1>2. \A f, g \in Files : ~Copy(f, g) /\ ~Ledger(f) /\ ~Telemetry(f)
  BY DEF Copy, Copies, Rotates, Ledger, Telemetry
<1> QED BY <1>1, <1>2 DEF HarnessStep

LEMMA LogKeepsLog ==
    ASSUME TypeInv, LogInv, harness = "fx", NEW f \in Files, NEW e \in Entries, Log(f, e)
    PROVE  LogInv'
<1>1. /\ e \in Given(harness) /\ ~Logged(e) /\ harness' = harness
      /\ \A d \in Given(harness) : Precedes(d, e) => Logged(d)
      /\ \/ session[f] = e[1]
         \/ session[f] = 0 /\ \A d \in Given(harness) : ~Precedes(d, e)
  BY DEF Log, Follows, Rewritten, SpansFiles
<1>2. PICK l \in LinesFor(e, f) :
        /\ files' = [files EXCEPT ![f] = Append(files[f], l)]
        /\ session' = [session EXCEPT ![f] = e[1]]
  BY DEF Log, Rewritten, Snapshots
<1>3. l \in LinesOf(e, f)
  BY DEF LinesFor
<1>4. /\ l.entry = e
      /\ l.kind = (IF Kind(e) = "prompt" THEN "commit" ELSE "call")
      /\ Kind(e) = "prompt" => l.calls = {}
      /\ Kind(e) # "prompt" => l.calls \in {{e} \cup total : total \in LastTotal(f)} \cup {{e}}
  BY <1>3 DEF LinesOf, CallKinds, KeepsLedger, Snapshots
<1>5. files[f] \in Seq(Line) /\ Totals(files[f]) /\ files \in [Files -> Seq(Line)]
      /\ session \in [Files -> Sessions \cup {0}]
  BY DEF TypeInv, LogInv
<1>6. /\ Given(harness) \subseteq Entries
      /\ e[1] \in Sessions /\ e[1] # 0 /\ e[2] \in Nat /\ e = <<e[1], e[2]>>
  BY EntryTypes, GivenTypes DEF TypeInv
<1>7. l \in Line
  <2>1. PICK k \in Line : Adds(f, k)
    BY LogForm
  <2>2. files' = [files EXCEPT ![f] = Append(files[f], k)]
    BY <2>1 DEF Adds, Snapshots
  <2>3. Append(files[f], k) = Append(files[f], l)
    BY <1>2, <1>5, <2>2
  <2>4. Append(files[f], k)[Len(files[f]) + 1] = k /\ Append(files[f], l)[Len(files[f]) + 1] = l
    BY <1>5
  <2> QED BY <2>3, <2>4
<1>8. /\ files'[f] = Append(files[f], l) /\ session'[f] = e[1]
      /\ \A g \in Files \ {f} : files'[g] = files[g] /\ session'[g] = session[g]
      /\ files'[f] # <<>>
      /\ \A k : k \in Written' <=> k \in Written \/ k = l
  <2>1. /\ files'[f] = Append(files[f], l) /\ session'[f] = e[1]
        /\ \A g \in Files \ {f} : files'[g] = files[g] /\ session'[g] = session[g]
    BY <1>2, <1>5
  <2>2. /\ Len(files[f]) \in Nat /\ DOMAIN files[f] = 1..Len(files[f])
        /\ DOMAIN files'[f] = 1..(Len(files[f]) + 1)
        /\ files'[f][Len(files[f]) + 1] = l
        /\ \A i \in DOMAIN files[f] : files'[f][i] = files[f][i]
    BY <1>5, <1>7, <2>1
  <2>3. \A k : (\E i \in DOMAIN files'[f] : k = files'[f][i]) <=> (\E i \in DOMAIN files[f] : k = files[f][i]) \/ k = l
    BY <2>2
  <2>4. \A k : k \in Written' <=> k \in Written \/ k = l
    BY <2>1, <2>3, WrittenAt, WrittenAtNext
  <2>5. files'[f] # <<>>
    BY <2>2
  <2> QED BY <2>1, <2>4, <2>5
<1>9. ASSUME NEW d \in Given(harness), d[1] = e[1], Logged(d)
      PROVE  d[2] < e[2] /\ session[f] = e[1]
  <2>1. d \in Entries /\ d = <<d[1], d[2]>> /\ d[2] \in Nat
    BY <1>6, EntryTypes
  <2>2. d # e
    BY <1>1, <1>9
  <2>3. ~(e[2] < d[2])
    BY <1>1, <1>9 DEF LogInv, Precedes, SameSession
  <2>4. d[2] < e[2]
    BY <1>6, <1>9, <2>1, <2>2, <2>3
  <2> QED BY <1>1, <1>9, <2>4 DEF Precedes, SameSession
<1>10. ASSUME NEW i \in DOMAIN files[f]
       PROVE  /\ \A d : d = files[f][i].entry \/ d \in files[f][i].calls => Logged(d)
              /\ \A d \in files[f][i].calls : d[1] = e[1]
  <2>1. files[f][i] \in Lines(f)
    BY DEF Lines
  <2>2. files[f][i] \in Written /\ Fits(files[f][i], session[f]) /\ session[f] # 0
    BY <2>1, InLines
  <2> QED BY <1>1, <2>2 DEF Logged, Fits
<1>11. ASSUME l.kind = "call" PROVE ComesAfter(files[f], l.calls)
  <2>1. ASSUME NEW i \in CallLines(files[f])
        PROVE  e \notin files[f][i].calls /\ \A d \in files[f][i].calls : d[2] < e[2]
    BY <1>1, <1>5, <1>9, <1>10 DEF CallLines, Totals
  <2>2. Kind(e) # "prompt"
    BY <1>4, <1>11
  <2>3. CASE l.calls = {e}
    BY <1>1, <1>5, <2>1, <2>3, CallComesAfter
  <2>4. ASSUME NEW total \in LastTotal(f), l.calls = {e} \cup total
        PROVE  ComesAfter(files[f], l.calls)
    <3>1. PICK m \in DOMAIN files[f] :
            /\ total = files[f][m].calls /\ files[f][m].kind = "call"
            /\ \A k \in DOMAIN files[f] : k > m => files[f][k].kind # "call"
      BY DEF LastTotal
    <3>2. LastCall(files[f], m)
      <4>1. \A k \in DOMAIN files[f] : k \in Nat
        BY <1>5
      <4>2. ASSUME NEW k \in CallLines(files[f]) PROVE k <= m
        <5>1. k \in DOMAIN files[f] /\ files[f][k].kind = "call"
          BY DEF CallLines
        <5>2. k \in Nat /\ m \in Nat /\ ~(k > m)
          BY <3>1, <4>1, <5>1
        <5> QED BY <5>2
      <4>3. m \in CallLines(files[f])
        BY <3>1 DEF CallLines
      <4> QED BY <4>2, <4>3 DEF LastCall
    <3>3. ComesAfter(files[f], {e} \cup files[f][m].calls)
      BY <1>1, <1>5, <2>1, <3>2, CallComesAfter
    <3>4. l.calls = {e} \cup files[f][m].calls
      BY <2>4, <3>1
    <3> QED BY <3>3, <3>4
  <2> QED BY <1>4, <2>2, <2>3, <2>4
<1>12. ASSUME NEW d PROVE Logged(d)' <=> Logged(d) \/ d = e
  <2>1. ASSUME d \in l.calls, d # e PROVE Logged(d)
    <3>1. PICK total \in LastTotal(f) : d \in total
      BY <1>4, <2>1
    <3>2. PICK m \in DOMAIN files[f] : total = files[f][m].calls
      BY DEF LastTotal
    <3> QED BY <1>10, <3>1, <3>2
  <2> QED BY <1>4, <1>8, <2>1 DEF Logged
<1>13. \A c, d \in Given(harness) : Precedes(c, d) /\ Logged(d)' => Logged(c)'
  <2>1. \A c, d \in Given(harness) : Precedes(c, d) /\ Logged(d) => Logged(c)
    BY DEF LogInv
  <2> QED BY <1>1, <1>12, <2>1
<1>14. ASSUME NEW g \in Files \ {f}, session[g] = e[1] PROVE FALSE
  <2>1. files[g] # <<>> /\ files[g] \in Seq(Line)
    BY <1>5, <1>6, <1>14 DEF LogInv
  <2>2. 1 \in DOMAIN files[g]
    BY <2>1
  <2>3. files[g][1] \in Lines(g)
    BY <2>2 DEF Lines
  <2>4. files[g][1] \in Written /\ Fits(files[g][1], session[g])
    BY <2>3, InLines
  <2>5. files[g][1].entry \in Given(harness) /\ files[g][1].entry[1] = e[1] /\ Logged(files[g][1].entry)
    BY <1>14, <2>4 DEF Fits, Logged
  <2>6. session[f] = e[1]
    BY <1>9, <2>5
  <2> QED BY <1>6, <1>14, <2>6 DEF LogInv
<1>15. \A g, h \in Files : session'[g] = session'[h] /\ session'[g] # 0 => g = h
  <2>1. \A g, h \in Files : session[g] = session[h] /\ session[g] # 0 => g = h
    BY DEF LogInv
  <2> QED BY <1>8, <1>14, <2>1
<1>16. \A g \in Files : session'[g] # 0 => files'[g] # <<>>
  BY <1>8 DEF LogInv
<1>17. \A g \in Files : Totals(files'[g])
  <2>1. Totals(files'[f])
    BY <1>5, <1>7, <1>8, <1>11, TotalsAppend
  <2> QED BY <1>8, <2>1 DEF LogInv
<1>18. \A ls : Totals(ls)' <=> Totals(ls)
  BY <1>1 DEF Totals
<1> QED BY <1>1, <1>13, <1>15, <1>16, <1>17, <1>18 DEF LogInv

LEMMA ReplayKeepsLog ==
    ASSUME TypeInv, LogInv, harness = "fx", NEW f \in Files, Replay(f)
    PROVE  LogInv'
<1>1. harness' = harness /\ session' = session
  BY DEF Replay, Rewritten
<1>2. PICK m \in DOMAIN files[f] :
        /\ files[f][m].kind = "call"
        /\ \A j \in DOMAIN files[f] : j > m => files[f][j].kind # "call"
        /\ files' = [files EXCEPT ![f] = Append(files[f], files[f][m])]
  BY DEF Replay, Rewritten
<1> DEFINE l == files[f][m]
<1>3. files[f] \in Seq(Line) /\ Totals(files[f]) /\ files \in [Files -> Seq(Line)] /\ l \in Line
  BY DEF TypeInv, LogInv
<1>4. LastCall(files[f], m)
  <2>1. \A k \in DOMAIN files[f] : k \in Nat
    BY <1>3
  <2> QED BY <1>2, <2>1 DEF LastCall, CallLines
<1>5. ComesAfter(files[f], l.calls)
  BY <1>3, <1>4, ReplayComesAfter
<1>6. files'[f] = Append(files[f], l) /\ \A g \in Files \ {f} : files'[g] = files[g]
  BY <1>2, <1>3
<1>7. Totals(files'[f])
  BY <1>3, <1>5, <1>6, TotalsAppend
<1>8. /\ Len(files[f]) \in Nat /\ DOMAIN files[f] = 1..Len(files[f])
      /\ DOMAIN files'[f] = 1..(Len(files[f]) + 1)
      /\ files'[f][Len(files[f]) + 1] = l
      /\ \A i \in DOMAIN files[f] : files'[f][i] = files[f][i]
  BY <1>3, <1>6
<1>9. \A k : (\E i \in DOMAIN files'[f] : k = files'[f][i]) <=> (\E i \in DOMAIN files[f] : k = files[f][i])
  BY <1>8
<1>10. \A k : k \in Written' <=> k \in Written
  BY <1>6, <1>9, WrittenAt, WrittenAtNext
<1>11. \A d : Logged(d)' <=> Logged(d)
  BY <1>10 DEF Logged
<1>12. files'[f] # <<>>
  BY <1>8
<1>13. \A ls : Totals(ls)' <=> Totals(ls)
  BY <1>1 DEF Totals
<1>14. /\ \A g, h \in Files : session'[g] = session'[h] /\ session'[g] # 0 => g = h
       /\ \A g \in Files : session'[g] # 0 => files'[g] # <<>>
       /\ \A d, e \in Given(harness) : Precedes(d, e) /\ Logged(e)' => Logged(d)'
       /\ \A g \in Files : Totals(files'[g])
  BY <1>1, <1>6, <1>7, <1>11, <1>12 DEF LogInv
<1> QED BY <1>1, <1>13, <1>14 DEF LogInv

LEMMA NextLog ==
    ASSUME TypeInv, LogInv, [Next]_vars
    PROVE  LogInv'
<1>1. CASE HarnessStep
  <2>1. harness' = harness
    BY <1>1, StepForm
  <2>2. CASE harness = "fx"
    BY <1>1, <2>2, FxSteps, LogKeepsLog, ReplayKeepsLog
  <2> QED BY <2>1, <2>2 DEF LogInv
<1>2. CASE ReaderStep \/ UNCHANGED vars
  <2>1. UNCHANGED <<harness, quirk, session, files, age>>
    BY <1>2, ReaderLeavesWorld
  <2>2. (\A ls : Totals(ls)' <=> Totals(ls)) /\ (\A d : Logged(d)' <=> Logged(d))
    BY <2>1 DEF Totals, Logged, Written, Lines
  <2> QED BY <2>1, <2>2 DEF LogInv
<1> QED BY <1>1, <1>2, NextKinds

LEMMA ReadKeepsFx ==
    ASSUME TypeInv, LogInv, FxInv, harness = "fx", todo \subseteq Files, NEW f \in Files, Read(f)
    PROVE  FxInv'
<1>1. /\ f \in todo /\ todo' = todo \ {f} /\ events' = ReadingOf(f).events
      /\ harness' = harness /\ session' = session /\ session[f] # 0
  BY DEF Read, Past
<1> DEFINE ls == files[f]
           rows == {i \in FxUsage(ls) : FxDelta(ls, i) # {}}
           Commits(c) == ls[c].kind = "commit" /\ ls[c].cell # "torn"
           Turn(i) == \E c \in DOMAIN ls : /\ Commits(c) /\ i < c
                                           /\ \A j \in rows : j <= i \/ c < j
           E(i) == Event(f, session[f], [ls[i] EXCEPT !.calls = FxDelta(ls, i)], Place(f, i), Turn(i))
<1>2. events' = events \cup {E(i) : i \in rows}
  BY <1>1 DEF ReadingOf, Fx, Reading
<1>3. ls \in Seq(Line) /\ Totals(ls)
  BY DEF TypeInv, LogInv
<1>4. rows \subseteq FxUsage(ls) /\ \A i \in FxUsage(ls) : i \in DOMAIN ls /\ i \in Nat /\ ls[i] \in Line
  BY <1>3 DEF FxUsage, Rows, Holding
<1>5. ASSUME NEW i \in rows
      PROVE  E(i).file = f /\ E(i).session = session[f] /\ E(i).calls = FxDelta(ls, i)
  <2>1. [ls[i] EXCEPT !.calls = FxDelta(ls, i)].calls = FxDelta(ls, i)
    BY <1>4 DEF Line
  <2> QED BY <2>1 DEF Event
<1>6. \A i \in rows : FxDelta(ls, i) \subseteq ls[i].calls
  BY DEF FxDelta, Latest
<1>7. ASSUME NEW i \in rows, NEW e \in FxDelta(ls, i) PROVE e[1] = session[f]
  <2>1. ls[i] \in Lines(f) /\ e \in ls[i].calls
    BY <1>4, <1>6 DEF Lines
  <2>2. Fits(ls[i], session[f])
    BY <2>1, InLines
  <2> QED BY <2>1, <2>2 DEF Fits
<1>8. ASSUME NEW i \in rows, NEW j \in rows, i # j PROVE FxDelta(ls, i) \cap FxDelta(ls, j) = {}
  <2>1. i \in FxUsage(ls) /\ j \in FxUsage(ls) /\ (i < j \/ j < i)
    BY <1>4, <1>8
  <2>2. CASE i < j
    BY <1>3, <1>6, <2>1, <2>2, DeltasApart
  <2>3. CASE j < i
    BY <1>3, <1>6, <2>1, <2>3, DeltasApart
  <2> QED BY <2>1, <2>2, <2>3
<1> HIDE DEF rows, E
<1>9. \A ev \in events' : ev \in events \/ \E i \in rows : ev = E(i)
  BY <1>2
<1>10. \A ev \in events : /\ ev.file \in Files \ todo
                          /\ ev.session # 0 /\ session[ev.file] = ev.session
                          /\ \A e \in ev.calls : e[1] = ev.session
  BY DEF FxInv
<1>11. ASSUME NEW ev \in events'
       PROVE  /\ ev.file \in Files \ todo'
              /\ ev.session # 0 /\ session'[ev.file] = ev.session
              /\ \A e \in ev.calls : e[1] = ev.session
  BY <1>1, <1>5, <1>7, <1>9, <1>10
<1>12. ASSUME NEW ev \in events', NEW dv \in events', ev.file = dv.file
       PROVE  ev = dv \/ ev.calls \cap dv.calls = {}
  <2>1. CASE ev \in events /\ dv \in events
    BY <1>12, <2>1 DEF FxInv
  <2>2. \A old \in events : \A i \in rows : old.file # E(i).file
    BY <1>1, <1>5, <1>10
  <2>3. ASSUME NEW i \in rows, NEW j \in rows, ev = E(i), dv = E(j)
        PROVE  ev = dv \/ ev.calls \cap dv.calls = {}
    BY <1>5, <1>8, <2>3
  <2> QED BY <1>9, <1>12, <2>1, <2>2, <2>3
<1> QED BY <1>11, <1>12 DEF FxInv

LEMMA NextFx ==
    ASSUME TypeInv, LogInv, FxInv, todo \subseteq Files, [Next]_vars
    PROVE  FxInv'
<1>1. CASE HarnessStep
  <2>1. UNCHANGED <<harness, reader>>
    BY <1>1, StepForm
  <2>2. ASSUME harness = "fx", NEW ev \in events PROVE session'[ev.file] = ev.session
    <3>1. ev.file \in Files /\ ev.session # 0 /\ session[ev.file] = ev.session
      BY <2>2 DEF FxInv
    <3>2. PICK f \in Files, l \in Line : Adds(f, l)
      BY <1>1, <2>2, StepForm DEF Moves, Copies, Rotates
    <3> QED BY <3>1, <3>2, AfterAdds DEF Adds
  <2> QED BY <2>1, <2>2 DEF FxInv, reader
<1>2. CASE \E f \in Files : Read(f)
  <2>1. harness' = harness
    BY <1>2 DEF Read, Past
  <2> QED BY <1>2, <2>1, ReadKeepsFx DEF FxInv
<1>3. CASE Begin
  BY <1>3 DEF Begin, FxInv
<1>4. CASE Select
  BY <1>4 DEF Select, FxInv, world
<1>5. CASE UNCHANGED vars \/ \E f \in Files : Unreadable(f)
  <2>1. todo' \subseteq todo /\ events' = events /\ harness' = harness /\ session' = session
    BY <1>5 DEF vars, world, reader, Unreadable, Past
  <2> QED BY <2>1 DEF FxInv
<1> QED BY <1>1, <1>2, <1>3, <1>4, <1>5, NextKinds DEF ReaderStep

LEMMA FxOnce ==
    ASSUME LogInv, FxInv, harness = "fx", NEW e, NEW ev \in CountsOf(e), NEW dv \in CountsOf(e)
    PROVE  ev = dv
<1>1. ev \in events /\ dv \in events /\ e \in ev.calls /\ e \in dv.calls
  BY DEF CountsOf
<1>2. ev.session = dv.session /\ ev.session # 0 /\ session[ev.file] = ev.session /\ session[dv.file] = dv.session
      /\ ev.file \in Files /\ dv.file \in Files
  BY <1>1 DEF FxInv
<1>3. ev.file = dv.file
  BY <1>2 DEF LogInv
<1> QED BY <1>1, <1>3 DEF FxInv

-----------------------------------------------------------------------------
(***************************************************************************)
(* Copilot: of the records that a call is in, those that count are of one  *)
(* source, trace and span, and are merged.                                 *)
(***************************************************************************)
LEMMA SameRecord ==
    ASSUME WorldInv, harness = "copilot", NEW e \in Calls, Known(e),
           NEW k \in Written, NEW l \in Written, k.cell \in {"good"}, l.cell \in {"good"},
           e \in k.calls, e \in l.calls,
           ~(OtelSource(k) < OtelSource(l) /\ (\/ k.named /\ l.named /\ k.calls = l.calls
                                               \/ Trace(k) = Trace(l))),
           ~(OtelSource(l) < OtelSource(k) /\ (\/ k.named /\ l.named /\ k.calls = l.calls
                                               \/ Trace(k) = Trace(l)))
    PROVE  OtelId(k, Trace(k)) = OtelId(l, Trace(l))
<1> DEFINE Sources == {"chat", "inference", "turn", "agent"}
<1>1. ASSUME NEW m \in Written, e \in m.calls
      PROVE  /\ m \in Line /\ m.kind \in Sources /\ (m.named \/ ~quirk)
             /\ m.kind # "agent" => m.calls = {e} /\ m.entry = e
             /\ m.kind = "agent" => ~m.named /\ m.calls = {d \in Given(harness) : PromptOf(d) = PromptOf(m.entry)}
             /\ PromptOf(m.entry) = PromptOf(e)
             /\ m.kind = "chat" => m.spanned
             /\ m.kind = "turn" => ~m.spanned
  <2>1. PICK g \in Files : \E i \in DOMAIN files[g] : m = files[g][i]
    BY <1>1, WrittenAt
  <2>2. m \in Lines(g)
    BY <2>1 DEF Lines
  <2>3. m \in Line /\ Fits(m, session[g])
    BY <2>2, InLines DEF WorldInv
  <2>4. m.kind \in Sources
    BY <2>3 DEF Fits, KindsOf, KeepsLedger
  <2>5. m.named \/ ~quirk
    BY <1>1 DEF Known, KnownBy
  <2>6. m.kind # "agent" => m.calls = {m.entry}
    BY <2>3, <2>4 DEF Fits, Totalled, Snapshots, Marks
  <2> QED BY <1>1, <2>3, <2>4, <2>5, <2>6 DEF Fits
<1>2. k.kind \in Sources /\ l.kind \in Sources
  BY <1>1
<1>3. OtelSource(k) = OtelSource(l)
  <2>1. OtelSource(k) \in Nat /\ OtelSource(l) \in Nat
    BY <1>2 DEF OtelSource
  <2>2. CASE quirk
    <3>1. k.named /\ l.named /\ k.calls = l.calls
      BY <1>1, <2>2
    <3> QED BY <2>1, <3>1
  <2>3. CASE ~quirk
    <3>1. Trace(k) = Trace(l)
      BY <1>1, <2>3 DEF Trace
    <3> QED BY <2>1, <3>1
  <2> QED BY <2>2, <2>3
<1>4. k.kind = l.kind
  BY <1>2, <1>3 DEF OtelSource
<1>5. Trace(k) = Trace(l)
  <2>1. CASE quirk
    <3>1. k.entry = l.entry
      BY <1>1, <2>1
    <3> QED BY <1>4, <3>1 DEF Trace
  <2>2. CASE ~quirk
    BY <1>1, <2>2 DEF Trace
  <2> QED BY <2>1, <2>2
<1>6. k.calls = l.calls
  <2>1. CASE k.kind # "agent"
    BY <1>1, <1>4, <2>1
  <2>2. CASE k.kind = "agent"
    <3>1. /\ k.calls = {d \in Given(harness) : PromptOf(d) = PromptOf(k.entry)}
          /\ l.calls = {d \in Given(harness) : PromptOf(d) = PromptOf(l.entry)}
      BY <1>1, <1>4, <2>2
    <3>2. PromptOf(k.entry) = PromptOf(l.entry)
      BY <1>1
    <3> QED BY <3>1, <3>2
  <2> QED BY <2>1, <2>2
<1>7. k.kind # "agent" => (k.spanned <=> l.spanned)
  <2>1. CASE k.kind \in {"chat", "turn"}
    BY <1>1, <1>4, <2>1
  <2>2. CASE k.kind = "inference"
    <3>1. PICK g \in Files : \E i \in DOMAIN files[g] : k = files[g][i]
      BY WrittenAt
    <3>2. PICK i \in DOMAIN files[g] : k = files[g][i]
      BY <3>1
    <3>4. PICK h \in Files : \E j \in DOMAIN files[h] : l = files[h][j]
      BY WrittenAt
    <3>5. PICK j \in DOMAIN files[h] : l = files[h][j]
      BY <3>4
    <3>3. k.entry = l.entry
      BY <1>1, <1>4, <2>2
    <3>6. /\ files[g][i].entry = files[h][j].entry
          /\ files[g][i].kind = "inference" /\ files[h][j].kind = "inference"
      BY <1>4, <2>2, <3>2, <3>3, <3>5
    <3>7. files[g][i].spanned = files[h][j].spanned
      BY <3>6 DEF WorldInv, UniqueInv
    <3>8. k.spanned = l.spanned
      BY <3>2, <3>5, <3>7
    <3> QED BY <3>8
  <2> QED BY <1>2, <2>1, <2>2
<1> QED BY <1>4, <1>5, <1>6, <1>7 DEF OtelId

LEMMA SelectOnce ==
    ASSUME WorldInv, harness = "copilot", carried \subseteq Written, Select, NEW e \in Calls, Known(e),
           NEW ev \in events', NEW dv \in events', e \in ev.calls, e \in dv.calls
    PROVE  ev = dv
<1> DEFINE trace == [l \in carried |-> Trace(l)]
           usable == OtelCandidates(carried)
           modelled == {l \in usable : l.cell = "good"}
           kept == {l \in usable : ~OtelOutranked(l, modelled, trace)}
           OwnId(l) == OtelId(l, trace[l])
           GroupOf(id) == OtelBest({l \in kept : OwnId(l) = id})
           merged == {GroupOf(id) : id \in {OwnId(l) : l \in kept}}
           counted == {group \in merged : group \cap modelled # {}}
           EventOf(group) ==
               LET l == CHOOSE k \in group : TRUE
               IN  [file |-> 0, session |-> 0, calls |-> l.calls,
                    full |-> \E k \in group : k.full, turn |-> FALSE, key |-> OwnId(l)]
<1>1. events' = {EventOf(group) : group \in counted}
  <2>1. events' = Otel(carried, trace).events
    BY DEF Select
  <2>2. Otel(carried, trace).events = {EventOf(group) : group \in counted}
    BY DEF Otel
  <2> QED BY <2>1, <2>2
<1>2. /\ usable \subseteq carried /\ modelled \subseteq usable /\ kept \subseteq usable
      /\ \A l \in modelled : l.cell = "good"
  BY DEF OtelCandidates
<1>3. \A l \in carried : trace[l] = Trace(l)
  OBVIOUS
<1>4. ASSUME NEW k \in modelled, NEW l \in kept
      PROVE  ~(OtelSource(k) < OtelSource(l) /\ (\/ k.named /\ l.named /\ k.calls = l.calls
                                                 \/ Trace(k) = Trace(l)))
  <2>1. trace[k] = Trace(k) /\ trace[l] = Trace(l)
    BY <1>2, <1>3
  <2> QED BY <2>1 DEF OtelOutranked
<1>5. \A id : \A l \in GroupOf(id) : l \in kept /\ OwnId(l) = id
  BY DEF OtelBest
<1>6. \A k, l \in kept : OwnId(k) = OwnId(l) => k.calls = l.calls
  BY DEF OtelId
<1>7. ASSUME NEW av \in events', e \in av.calls
      PROVE  \E id : /\ av = EventOf(GroupOf(id))
                     /\ \E l \in kept \cap modelled : OwnId(l) = id /\ e \in l.calls
  <2> HIDE DEF usable, modelled, kept, OwnId
  <2>1. PICK group \in counted : av = EventOf(group)
    BY <1>1, <1>7
  <2>2. PICK id : group = GroupOf(id)
    BY <2>1
  <2>3. PICK l \in group : l \in modelled
    BY <2>1
  <2> DEFINE c == CHOOSE k \in group : TRUE
  <2>4. c \in group /\ av.calls = c.calls
    BY <2>1, <2>3
  <2> HIDE DEF c, GroupOf
  <2>5. l \in kept /\ OwnId(l) = id /\ c \in kept /\ OwnId(c) = id
    BY <1>5, <2>2, <2>3, <2>4
  <2>6. e \in l.calls
    BY <1>6, <1>7, <2>4, <2>5
  <2> QED BY <2>1, <2>2, <2>3, <2>5, <2>6
<1> HIDE DEF EventOf, GroupOf, modelled, kept, usable
<1>8. PICK id : /\ ev = EventOf(GroupOf(id))
                /\ \E l \in kept \cap modelled : OwnId(l) = id /\ e \in l.calls
  BY <1>7
<1>9. PICK k \in kept \cap modelled : OwnId(k) = id /\ e \in k.calls
  BY <1>8
<1>10. PICK jd : /\ dv = EventOf(GroupOf(jd))
                 /\ \E l \in kept \cap modelled : OwnId(l) = jd /\ e \in l.calls
  BY <1>7
<1>11. PICK l \in kept \cap modelled : OwnId(l) = jd /\ e \in l.calls
  BY <1>10
<1>12. k \in carried /\ l \in carried /\ k \in Written /\ l \in Written /\ k.cell = "good" /\ l.cell = "good"
  BY <1>2, <1>9, <1>11
<1>13. OtelId(k, Trace(k)) = OtelId(l, Trace(l))
  BY <1>4, <1>9, <1>11, <1>12, SameRecord
<1>14. id = jd
  BY <1>3, <1>9, <1>11, <1>12, <1>13
<1> QED BY <1>8, <1>10, <1>14

LEMMA NextOtel ==
    ASSUME WorldInv, OtelInv, todo \subseteq Files, [Next]_vars
    PROVE  OtelInv'
<1> USE DEF OtelInv
<1>0. TypeInv
  BY DEF WorldInv
<1>1. CASE HarnessStep
  <2>1. UNCHANGED <<harness, reader>> /\ ~done
    BY <1>0, <1>1, StepForm
  <2>2. harness = "copilot" => Written \subseteq Written'
    BY <1>0, <1>1, WrittenGrows DEF Snapshots
  <2> QED BY <2>1, <2>2 DEF reader, CountsOf
<1>2. CASE ReaderStep \/ UNCHANGED vars
  <2>1. UNCHANGED <<harness, quirk, session, files, age>>
    BY <1>2, ReaderLeavesWorld
  <2>2. Written' = Written /\ \A e : Known(e)' <=> Known(e)
    BY <2>1 DEF Written, Lines, Known, KnownBy, Borrowed, Borrows
  <2> SUFFICES ASSUME harness = "copilot" PROVE OtelInv'
    BY <2>1
  <2>3. CASE Begin
    BY <2>2, <2>3 DEF Begin, CountsOf
  <2>4. CASE Select
    <3>1. carried' = carried /\ done' /\ todo' = {}
      BY <2>4 DEF Select
    <3>2. ASSUME NEW e \in Calls, Known(e), NEW ev \in CountsOf(e)', NEW dv \in CountsOf(e)'
          PROVE  ev = dv
      <4>1. ev \in events' /\ dv \in events' /\ e \in ev.calls /\ e \in dv.calls
        BY DEF CountsOf
      <4> QED BY <2>4, <3>2, <4>1, SelectOnce
    <3>3. carried' \subseteq Written'
      BY <2>2, <3>1
    <3> QED BY <2>2, <3>1, <3>2, <3>3
  <2>5. ASSUME NEW f \in Files, Read(f) PROVE OtelInv'
    <3>1. /\ carried' = carried \cup Lines(f) /\ ~done' /\ events' = {}
      BY <2>5 DEF Read, Past, ReadingOf
    <3>2. Lines(f) \subseteq Written
      BY DEF Written
    <3> QED BY <2>2, <3>1, <3>2 DEF CountsOf
  <2>6. ASSUME NEW f \in Files, Unreadable(f) PROVE OtelInv'
    <3>1. carried' = carried /\ ~done' /\ events' = events /\ todo # {}
      BY <2>6 DEF Unreadable, Past
    <3> QED BY <2>2, <3>1 DEF CountsOf
  <2>7. CASE UNCHANGED vars
    <3>1. UNCHANGED <<todo, carried, events, done>>
      BY <2>7 DEF vars, reader
    <3>2. \A e : CountsOf(e)' = CountsOf(e)
      BY <3>1 DEF CountsOf
    <3> QED BY <2>2, <3>1, <3>2
  <2> QED BY <1>2, <2>3, <2>4, <2>5, <2>6, <2>7 DEF ReaderStep
<1> QED BY <1>1, <1>2, NextKinds

-----------------------------------------------------------------------------
(***************************************************************************)
(* The theorem.                                                            *)
(***************************************************************************)
LEMMA InitCounting == Init => CountingInv
<1> SUFFICES ASSUME Init PROVE CountingInv
  OBVIOUS
<1>1. WorldInv
  BY InitWorld
<1>2. todo = {} /\ events = {} /\ carried = {} /\ ~done
      /\ \A f \in Files : files[f] = <<>> /\ session[f] = 0
  BY DEF Init
<1>3. \A l : l \notin Written
  BY <1>2 DEF Written, Lines
<1>4. \A d : ~Logged(d)
  BY <1>3 DEF Logged
<1>5. Totals(<<>>)
  <2>1. CallLines(<<>>) = {}
    BY DEF CallLines
  <2> QED BY <2>1 DEF Totals
<1>6. LogInv
  BY <1>2, <1>4, <1>5 DEF LogInv
<1>7. KeyedInv /\ FxInv /\ OtelInv
  BY <1>2 DEF KeyedInv, FxInv, OtelInv, CountsOf
<1> QED BY <1>1, <1>2, <1>6, <1>7 DEF CountingInv

LEMMA NextTodo ==
    ASSUME TypeInv, todo \subseteq Files, [Next]_vars
    PROVE  todo' \subseteq Files
<1>1. CASE HarnessStep
  BY <1>1, StepForm DEF reader
<1>2. CASE ReaderStep \/ UNCHANGED vars
  BY <1>2 DEF ReaderStep, Begin, Select, Read, Unreadable, Past, vars, reader
<1> QED BY <1>1, <1>2, NextKinds

LEMMA NextCounting == CountingInv /\ [Next]_vars => CountingInv'
<1> SUFFICES ASSUME CountingInv, [Next]_vars PROVE CountingInv'
  OBVIOUS
<1>1. TypeInv /\ WorldInv /\ todo \subseteq Files /\ KeyedInv /\ LogInv /\ FxInv /\ OtelInv
  BY DEF CountingInv, WorldInv
<1>2. WorldInv' /\ todo' \subseteq Files
  BY <1>1, NextWorld, NextTodo
<1>3. KeyedInv'
  BY <1>1, NextKeyed
<1>4. LogInv' /\ FxInv'
  BY <1>1, NextLog, NextFx
<1>5. OtelInv'
  BY <1>1, NextOtel
<1> QED BY <1>2, <1>3, <1>4, <1>5 DEF CountingInv

LEMMA CountingOnce == CountingInv => CountedOnce
<1> SUFFICES ASSUME CountingInv, NEW e \in Calls, Known(e)
             PROVE  Cardinality(CountsOf(e)) <= 1
  BY DEF CountedOnce
<1>1. TypeInv /\ WorldInv /\ KeyedInv /\ LogInv /\ FxInv /\ OtelInv
  BY DEF CountingInv, WorldInv
<1>2. ASSUME NEW ev \in CountsOf(e), NEW dv \in CountsOf(e) PROVE ev = dv
  <2>1. CASE harness \in Keyed \cup Snapshots
    BY <1>1, <2>1, KeyedOnce
  <2>2. CASE harness = "fx"
    BY <1>1, <2>2, FxOnce
  <2>3. CASE harness = "copilot"
    BY <1>1, <2>3 DEF OtelInv
  <2>4. harness \in Keyed \cup Snapshots \cup {"fx", "copilot"}
    BY <1>1, Which DEF TypeInv, Keyed
  <2> QED BY <2>1, <2>2, <2>3, <2>4
<1>3. CASE CountsOf(e) = {}
  BY <1>3, FS_EmptySet
<1>4. CASE CountsOf(e) # {}
  <2>1. PICK ev \in CountsOf(e) : TRUE
    BY <1>4
  <2>2. CountsOf(e) = {ev}
    BY <1>2
  <2> QED BY <2>2, FS_Singleton
<1> QED BY <1>3, <1>4

\* Whatever the harness does and whenever it does it, no reader counts a call
\* that it knows twice: Transcripts' CountedOnce.
THEOREM NoCallTwice == Spec => []CountedOnce
<1>1. Init => CountingInv
  BY InitCounting
<1>2. CountingInv /\ [Next]_vars => CountingInv'
  BY NextCounting
<1>3. CountingInv => CountedOnce
  BY CountingOnce
<1> QED BY <1>1, <1>2, <1>3, PTL DEF Spec
-----------------------------------------------------------------------------
(***************************************************************************)
(* Turns: the entries of a file come in their order, and a file that goes  *)
(* on from a copy has all the calls before.                                *)
(***************************************************************************)
LEMMA OdditiesMany ==
    ASSUME NEW l
    PROVE  Oddities(l) \in Nat /\ (Oddities(l) = 0 => l.cell = "good" /\ l.dated)
<1> DEFINE S == {x \in {"cell", "id", "date"} :
                    \/ x = "cell" /\ l.cell # "good"
                    \/ x = "id" /\ ~l.named
                    \/ x = "date" /\ ~l.dated}
<1>1. IsFiniteSet({"cell", "id", "date"})
  <2>1. IsFiniteSet({"cell"})
    BY FS_Singleton
  <2>2. IsFiniteSet({"cell"} \cup {"id"})
    BY <2>1, FS_AddElement
  <2>3. IsFiniteSet(({"cell"} \cup {"id"}) \cup {"date"})
    BY <2>2, FS_AddElement
  <2>4. ({"cell"} \cup {"id"}) \cup {"date"} = {"cell", "id", "date"}
    OBVIOUS
  <2> QED BY <2>3, <2>4
<1>2. IsFiniteSet(S)
  BY <1>1, FS_Subset
<1>3. Cardinality(S) \in Nat /\ (Cardinality(S) = 0 => S = {})
  BY <1>2, FS_CardinalityType, FS_EmptySet
<1>4. Oddities(l) = Cardinality(S)
  BY DEF Oddities
<1>5. S = {} => l.cell = "good" /\ l.dated
  OBVIOUS
<1> QED BY <1>3, <1>4, <1>5

LEMMA LogWrites ==
    ASSUME TypeInv, harness \in MarksTurns, odd \in Nat, NEW f \in Files, NEW e \in Entries, Log(f, e)
    PROVE  odd' \in Nat /\ odd <= odd' /\ \E l \in Line : Adds(f, l) /\ Fresh(f, l)
<1>1. e \in Given(harness) /\ Follows(e, f)
  BY DEF Log
<1>2. PICK l \in LinesFor(e, f) :
        /\ files' = [files EXCEPT ![f] = Append(files[f], l)]
        /\ Costs(Oddities(l) + (IF Restarts(f, l) \/ Borrows(l) THEN 1 ELSE 0))
  BY DEF Log, Rewritten, Snapshots, MarksTurns
<1>3. PICK k \in Line : Adds(f, k) /\ ~Logged(k.entry) /\ k.entry = e
  BY LogForm
<1>4. k = l
  <2>1. files[f] \in Seq(Line) /\ files \in [Files -> Seq(Line)]
    BY DEF TypeInv
  <2>2. files' = [files EXCEPT ![f] = Append(files[f], k)]
    BY <1>3 DEF Adds, Snapshots, MarksTurns
  <2>3. Append(files[f], k) = Append(files[f], l)
    BY <1>2, <2>1, <2>2
  <2>4. Append(files[f], k)[Len(files[f]) + 1] = k /\ Append(files[f], l)[Len(files[f]) + 1] = l
    BY <2>1
  <2> QED BY <2>3, <2>4
<1>5. /\ odd' \in Nat /\ odd <= odd'
      /\ odd' = 0 => l.cell = "good" /\ l.dated
  BY <1>2, OdditiesMany DEF Costs
<1>6. k.kind = "prompt" => k.dated
  <2>1. l \in LinesOf(e, f)
    BY <1>2 DEF LinesFor
  <2>2. /\ l.kind \in IF Kind(e) = "prompt" THEN {IF harness = "fx" THEN "commit" ELSE "prompt"} ELSE CallKinds
        /\ l.dated \in IF Kind(e) = "call" /\ harness \in MayLackDate THEN BOOLEAN ELSE {TRUE}
    BY <2>1 DEF LinesOf
  <2>3. "prompt" \notin CallKinds
    BY DEF CallKinds
  <2>4. l.kind = "prompt" => l.dated
    BY <2>2, <2>3
  <2> QED BY <1>4, <2>4
<1>7. odd' = 0 => k.cell = "good" /\ k.dated
  BY <1>4, <1>5
<1>8. /\ ~Logged(k.entry)
      /\ \A d \in Given(harness) : Precedes(d, k.entry) => Logged(d)
      /\ \/ \E m \in Lines(f) : \A d \in Given(harness) : Precedes(d, k.entry) => d[2] <= m.entry[2]
         \/ harness \in SpansFiles
         \/ \A d \in Given(harness) : ~Precedes(d, k.entry)
  <2>1. k.entry = e
    BY <1>3
  <2> DEFINE before == {d \in Given(harness) : Precedes(d, e)}
  <2>2. /\ ~Logged(e) /\ \A d \in before : Logged(d)
        /\ \/ \E m \in Lines(f) : \A d \in before : d[2] <= m.entry[2]
           \/ before = {} \/ harness \in SpansFiles
    BY <1>1 DEF Follows
  <2>3. \A d : d \in before <=> d \in Given(harness) /\ Precedes(d, e)
    OBVIOUS
  <2> HIDE DEF before
  <2> QED BY <2>1, <2>2, <2>3
<1>9. Fresh(f, k)
  BY <1>6, <1>7, <1>8 DEF Fresh
<1>10. Adds(f, k)
  BY <1>3
<1> QED BY <1>5, <1>9, <1>10

LEMMA FinishWrites ==
    ASSUME TypeInv, harness \in MarksTurns, NEW f \in Files, Finish(f)
    PROVE  odd' = odd /\ \E l \in Line : Adds(f, l) /\ Again(f, l)
<1> DEFINE k == LastOf(f)
           l == [k EXCEPT !.full = TRUE, !.cell = "good"]
<1>1. files[f] \in Seq(Line) /\ files[f] # <<>>
  BY DEF Finish, TypeInv
<1>2. k \in Lines(f)
  BY <1>1 DEF LastOf, Lines
<1>3. k \in Line /\ Fits(k, session[f]) /\ session[f] # 0
  BY <1>2, InLines
<1>4. k.kind \in {"call", "chat"} /\ ~k.full
  BY DEF Finish
<1>5. l \in Line /\ l.entry = k.entry /\ l.kind = k.kind /\ l.calls = k.calls /\ l.full
      /\ l.named = k.named /\ l.dated = k.dated /\ l.spanned = k.spanned /\ l.cell = "good"
  BY <1>3 DEF Line, Cells
<1>6. harness = "claude"
  BY <1>3, <1>4 DEF Fits, Streams, MarksTurns
<1>7. k.kind = "call"
  BY <1>3, <1>4, <1>6 DEF Fits, KindsOf, KeepsLedger
<1>8. Fits(l, session[f])
  BY <1>3, <1>5, <1>6, <1>7 DEF Fits, Streams
<1>9. Rewritten(f, Append(files[f], l)) /\ session' = session /\ odd' = odd
  BY DEF Finish
<1>10. harness \notin WriteOnce /\ harness \notin Snapshots /\ l.kind # "inference"
  BY <1>5, <1>6, <1>7 DEF WriteOnce, Streams, Snapshots
<1>11. Again(f, l)
  BY <1>2, <1>5, <1>6, <1>7 DEF Again
<1> HIDE DEF l, k
<1>12. Adds(f, l)
  BY <1>2, <1>5, <1>8, <1>9, <1>10, AgainForm
<1> QED BY <1>5, <1>9, <1>11, <1>12

LEMMA LedgerWrites ==
    ASSUME TypeInv, odd \in Nat, NEW f \in Files, Ledger(f)
    PROVE  odd' \in Nat /\ odd <= odd' /\ \E l \in Line : Adds(f, l) /\ Again(f, l)
<1>1. harness = "amp" /\ session' = session
  BY DEF Ledger
<1>2. PICK i \in DOMAIN files[f], named \in BOOLEAN :
        /\ Rewritten(f, Append(files[f], [files[f][i] EXCEPT !.kind = "record", !.cell = "good",
                                                             !.named = named]))
        /\ Costs(IF named THEN 0 ELSE 1)
        /\ files[f][i].kind = "call"
  BY DEF Ledger
<1> DEFINE k == files[f][i]
           l == [k EXCEPT !.kind = "record", !.cell = "good", !.named = named]
<1>3. k \in Lines(f)
  BY DEF Lines
<1>4. k \in Line /\ Fits(k, session[f])
  BY <1>3, InLines
<1>5. l \in Line /\ l.entry = k.entry /\ l.kind = "record" /\ l.calls = k.calls /\ l.full = k.full
      /\ l.dated = k.dated /\ l.cell = "good"
  BY <1>4 DEF Line, Cells, Kinds
<1>6. Fits(l, session[f])
  BY <1>1, <1>2, <1>4, <1>5 DEF Fits, KindsOf, KeepsLedger, Marks, Totalled, Snapshots, Streams,
     MayLackId, MayLackDate
<1>7. harness \notin WriteOnce /\ harness \notin Snapshots
  BY <1>1 DEF WriteOnce, Snapshots
<1>8. Rewritten(f, Append(files[f], l))
  BY <1>2
<1>9. odd' \in Nat /\ odd <= odd'
  BY <1>2 DEF Costs
<1>10. Again(f, l)
  BY <1>1, <1>3, <1>5 DEF Again
<1> HIDE DEF l, k
<1>11. Adds(f, l)
  BY <1>1, <1>3, <1>5, <1>6, <1>7, <1>8, AgainForm
<1> QED BY <1>5, <1>9, <1>10, <1>11

LEMMA ReplayWrites ==
    ASSUME TypeInv, odd \in Nat, NEW f \in Files, Replay(f)
    PROVE  odd' \in Nat /\ odd <= odd' /\ \E l \in Line : Adds(f, l) /\ Again(f, l)
<1>1. harness \in Replays /\ session' = session /\ odd' = odd + 1
  BY DEF Replay, Costs
<1>2. PICK i \in DOMAIN files[f] : Rewritten(f, Append(files[f], files[f][i])) /\ files[f][i].kind = "call"
  BY DEF Replay
<1>3. files[f][i] \in Lines(f)
  BY DEF Lines
<1>4. files[f][i] \in Line /\ Fits(files[f][i], session[f])
  BY <1>3, InLines
<1>5. harness \notin Snapshots
  BY <1>1 DEF Replays, Snapshots
<1>6. Adds(f, files[f][i])
  BY <1>1, <1>2, <1>3, <1>4, <1>5, AgainForm
<1>7. Again(f, files[f][i])
  BY <1>1, <1>2, <1>3 DEF Again
<1> QED BY <1>1, <1>4, <1>6, <1>7

\* What the harness may do where readers look for turns.
LEMMA WritesForm ==
    ASSUME TypeInv, harness \in MarksTurns, odd \in Nat, HarnessStep
    PROVE  /\ odd' \in Nat /\ odd <= odd'
           /\ \/ \E f \in Files, l \in Line : Adds(f, l) /\ (Fresh(f, l) \/ Again(f, l))
              \/ (\E f, g \in Files : Moves(f, g)) /\ odd' = odd
<1>1. PICK f \in Files :
        \/ \E e \in Entries : Log(f, e)
        \/ Finish(f) \/ Ledger(f) \/ Telemetry(f) \/ Replay(f)
        \/ \E g \in Files : Copy(f, g)
  BY DEF HarnessStep
<1>2. ~Telemetry(f)
  BY DEF Telemetry, MarksTurns
<1>3. ASSUME NEW g \in Files, Copy(f, g) PROVE Moves(f, g) /\ odd' = odd
  BY <1>3 DEF Copy, Moves
<1> QED BY <1>1, <1>2, <1>3, LogWrites, FinishWrites, LedgerWrites, ReplayWrites

LEMMA LinesAfterAdds ==
    ASSUME TypeInv, harness \notin Snapshots, NEW f \in Files, NEW l \in Line, Adds(f, l)
    PROVE  /\ \A g \in Files : \A k : k \in Lines(g)' <=> k \in Lines(g) \/ (g = f /\ k = l)
           /\ \A k : k \in Written' <=> k \in Written \/ k = l
<1>1. /\ NewAt(f) \in DOMAIN files'[f] /\ files'[f][NewAt(f)] = l
      /\ \A g \in Files \ {f} : files'[g] = files[g]
      /\ \A i \in DOMAIN files'[f] :
           \/ i = NewAt(f)
           \/ i \in DOMAIN files[f] /\ files'[f][i] = files[f][i]
      /\ \A i \in DOMAIN files[f] : i \in DOMAIN files'[f] /\ files'[f][i] = files[f][i]
  BY AfterAdds
<1>2. \A k : (\E i \in DOMAIN files'[f] : k = files'[f][i])
                <=> (\E i \in DOMAIN files[f] : k = files[f][i]) \/ k = l
  BY <1>1
<1>3. \A g \in Files : \A k : k \in Lines(g)' <=> \E i \in DOMAIN files'[g] : k = files'[g][i]
  BY DEF Lines
<1>4. \A g \in Files : \A k : k \in Lines(g) <=> \E i \in DOMAIN files[g] : k = files[g][i]
  BY DEF Lines
<1>5. \A k : k \in Lines(f)' <=> k \in Lines(f) \/ k = l
  BY <1>2, <1>3, <1>4
<1>6. \A g \in Files \ {f} : \A k : k \in Lines(g)' <=> k \in Lines(g)
  BY <1>1, <1>3, <1>4
<1>7. \A k : k \in Written' <=> k \in Written \/ k = l
  BY <1>1, <1>2, WrittenAt, WrittenAtNext
<1> QED BY <1>5, <1>6, <1>7

\* A line of these harnesses is of its entry's call, or of none.
LEMMA TellersLines ==
    ASSUME TypeInv, harness \in Tellers
    PROVE  /\ \A f \in Files : \A l \in Lines(f) :
                /\ l \in Line /\ l \in Written /\ l.entry \in Given(harness) /\ l.entry[1] = session[f]
                /\ session[f] # 0
                /\ l.kind \in {"prompt", "commit", "call", "record"}
                /\ l.kind \in {"call", "record"} => l.calls = {l.entry} /\ Kind(l.entry) = "call"
                /\ l.kind = "prompt" => l.entry \in Prompts
                /\ harness \notin {"junie", "kilo"} => l.dated
           /\ \A e \in Given(harness) : e[1] \in Nat /\ e[2] \in Nat \ {0} /\ e = <<e[1], e[2]>> /\ e \in Entries
           /\ \A l \in Written : \E f \in Files : l \in Lines(f)
           /\ \A d : Logged(d) <=> \E l \in Written : l.entry = d
           /\ harness \notin Snapshots /\ harness \notin Rotates
<1>1. harness \notin Totalled /\ harness \notin Snapshots /\ harness \notin Rotates /\ harness # "copilot"
  BY DEF Tellers, Whole, Totalled, Snapshots, Rotates
<1>2. ASSUME NEW f \in Files, NEW l \in Lines(f)
      PROVE  /\ l \in Line /\ l \in Written /\ l.entry \in Given(harness) /\ l.entry[1] = session[f]
             /\ session[f] # 0
             /\ l.kind \in {"prompt", "commit", "call", "record"}
             /\ l.kind \in {"call", "record"} => l.calls = {l.entry} /\ Kind(l.entry) = "call"
             /\ l.kind = "prompt" => l.entry \in Prompts
             /\ l.kind \in Marks => l.calls = {}
             /\ harness \notin {"junie", "kilo"} => l.dated
  <2>1. l \in Line /\ Fits(l, session[f]) /\ l \in Written /\ session[f] # 0
    BY InLines
  <2>2. l.kind \in {"prompt", "commit", "call", "record"}
    BY <1>1, <2>1 DEF Fits, KindsOf
  <2>3. l.entry \in Entries /\ Kind(l.entry) \in {"prompt", "call"}
    BY <2>1, EntryTypes DEF Line
  <2>4. harness \notin {"junie", "kilo"} => harness \notin MayLackDate
    BY DEF Tellers, Whole, MayLackDate
  <2> QED BY <1>1, <2>1, <2>2, <2>3, <2>4 DEF Fits, Marks, Prompts, Calls
<1>3. \A e \in Given(harness) : e[1] \in Nat /\ e[2] \in Nat \ {0} /\ e = <<e[1], e[2]>> /\ e \in Entries
  BY EntryTypes, GivenTypes DEF TypeInv
<1>4. \A l \in Written : \E f \in Files : l \in Lines(f)
  BY DEF Written
<1>5. ASSUME NEW l \in Written, NEW d \in l.calls PROVE l.entry = d
  BY <1>2, <1>4 DEF Marks
<1>6. \A d : Logged(d) <=> \E l \in Written : l.entry = d
  BY <1>5 DEF Logged
<1> QED BY <1>1, <1>2, <1>3, <1>4, <1>6

LEMMA LoggedAfterAdds ==
    ASSUME TypeInv, harness \in Tellers, NEW f \in Files, NEW l \in Line, Adds(f, l)
    PROVE  /\ \A d : Logged(d)' <=> Logged(d) \/ d = l.entry
           /\ l.kind \in {"prompt", "commit", "call", "record"}
           /\ l.entry \in Given(harness) /\ session[f] \in {0, l.entry[1]}
<1>1. harness \notin Totalled /\ harness \notin Snapshots /\ harness # "copilot"
  BY DEF Tellers, Whole, Totalled, Snapshots
<1>2. Fits(l, l.entry[1])
  BY DEF Adds
<1>3. l.kind \in {"prompt", "commit", "call", "record"}
  BY <1>1, <1>2 DEF Fits, KindsOf
<1>4. \A d \in l.calls : d = l.entry
  BY <1>1, <1>2, <1>3 DEF Fits, Marks
<1>5. \A k : k \in Written' <=> k \in Written \/ k = l
  BY <1>1, LinesAfterAdds
<1> QED BY <1>2, <1>3, <1>4, <1>5 DEF Logged, Adds, Fits

LEMMA AddKeepsOrder ==
    ASSUME TypeInv, OrderInv, harness \in Tellers, harness' = harness,
           NEW f \in Files, NEW l \in Line, Adds(f, l), Fresh(f, l) \/ Again(f, l)
    PROVE  OrderInv'
<1>1. /\ \A g \in Files : \A k : k \in Lines(g)' <=> k \in Lines(g) \/ (g = f /\ k = l)
      /\ \A k : k \in Written' <=> k \in Written \/ k = l
  BY LinesAfterAdds, TellersLines
<1>2. /\ \A d : Logged(d)' <=> Logged(d) \/ d = l.entry
      /\ l.entry \in Given(harness) /\ session[f] \in {0, l.entry[1]}
  BY LoggedAfterAdds
<1>3. /\ \A d, e \in Given(harness) : Precedes(d, e) /\ Logged(e) => Logged(d)
      /\ \A g \in Files : \A i, j \in DOMAIN files[g] :
              i < j /\ ~Repeats(g, j) => files[g][i].entry[2] <= files[g][j].entry[2]
      /\ harness \in Whole =>
              \A g, h \in Files : \A k \in Lines(g), x \in Lines(h) :
                  SameSession(k.entry, x.entry) /\ k.kind = "call" /\ k.entry[2] <= x.entry[2] =>
                      \E m \in Lines(h) : m.entry = k.entry /\ m.kind = "call"
      /\ harness # "claude" =>
              \A k, x \in Written : k.kind = "call" /\ x.kind = "call" /\ k.entry = x.entry => k = x
  BY DEF OrderInv
<1>4. /\ \A g \in Files : \A k \in Lines(g) : k \in Written /\ k.entry \in Given(harness) /\ k.entry[1] = session[g]
                                              /\ session[g] # 0
      /\ \A e \in Given(harness) : e[1] \in Nat /\ e[2] \in Nat \ {0} /\ e = <<e[1], e[2]>>
      /\ \A k \in Written : \E g \in Files : k \in Lines(g)
      /\ \A d : Logged(d) <=> \E k \in Written : k.entry = d
  BY TellersLines
<1>5. ASSUME Fresh(f, l), NEW k \in Written, k.entry[1] = l.entry[1]
      PROVE  k.entry[2] < l.entry[2] /\ k.entry # l.entry
  <2>1. k.entry \in Given(harness) /\ Logged(k.entry) /\ ~Logged(l.entry)
    BY <1>4, <1>5 DEF Fresh
  <2>2. ~(l.entry[2] < k.entry[2])
    BY <1>2, <1>3, <1>5, <2>1 DEF Precedes, SameSession
  <2> QED BY <1>2, <1>4, <1>5, <2>1, <2>2
<1>6. \A d, e \in Given(harness) : Precedes(d, e) /\ Logged(e)' => Logged(d)'
  <2>1. Again(f, l) => Logged(l.entry)
    BY <1>4 DEF Again
  <2>2. \A d \in Given(harness) : Precedes(d, l.entry) => Logged(d)
    BY <1>2, <1>3, <2>1 DEF Fresh
  <2> QED BY <1>2, <1>3, <2>2
<1>7. /\ NewAt(f) \in DOMAIN files'[f] /\ files'[f][NewAt(f)] = l
      /\ \A g \in Files \ {f} : files'[g] = files[g]
      /\ \A i \in DOMAIN files'[f] :
           \/ i = NewAt(f)
           \/ i \in DOMAIN files[f] /\ files'[f][i] = files[f][i] /\ i < NewAt(f)
      /\ \A i \in DOMAIN files[f] : i \in DOMAIN files'[f] /\ files'[f][i] = files[f][i] /\ i < NewAt(f)
      /\ NewAt(f) = Len(files[f]) + 1 /\ files[f] \in Seq(Line)
  BY AfterAdds, TellersLines DEF NewAt, TypeInv
<1>8. ASSUME NEW g \in Files, NEW i \in DOMAIN files'[g], NEW j \in DOMAIN files'[g], i < j, ~Repeats(g, j)'
      PROVE  files'[g][i].entry[2] <= files'[g][j].entry[2]
  <2>1. CASE j \in DOMAIN files[g] /\ (g = f => j < NewAt(f))
    <3>1. i \in DOMAIN files[g] /\ files'[g][i] = files[g][i] /\ files'[g][j] = files[g][j]
      BY <1>7, <1>8, <2>1
    <3>2. ~Repeats(g, j)
      BY <1>7, <1>8, <2>1, <3>1 DEF Repeats
    <3> QED BY <1>3, <1>8, <2>1, <3>1, <3>2
  <2>2. CASE g = f /\ j = NewAt(f)
    <3>1. i \in DOMAIN files[f] /\ files'[f][i] = files[f][i] /\ files'[f][j] = l
      BY <1>7, <1>8, <2>2
    <3>2. files[f][i] \in Lines(f)
      BY <3>1 DEF Lines
    <3>3. files[f][i].entry[1] = l.entry[1] /\ files[f][i] \in Written /\ files[f][i].entry \in Given(harness)
      BY <1>2, <1>4, <3>2
    <3>4. CASE Fresh(f, l)
      <4>1. files[f][i].entry[2] < l.entry[2]
        BY <1>5, <3>3, <3>4
      <4> QED BY <1>2, <1>4, <2>2, <3>1, <3>3, <4>1
    <3>5. CASE Again(f, l)
      <4>1. l.kind # "record"
        BY <1>8, <2>2, <3>1 DEF Repeats
      <4>2. ASSUME harness \in Replays, l \in Lines(f), l.kind = "call" PROVE FALSE
        <5>1. PICK k \in DOMAIN files[f] : l = files[f][k]
          BY <4>2 DEF Lines
        <5>2. k \in DOMAIN files'[f] /\ files'[f][k] = files'[f][j] /\ k < j
          BY <1>7, <2>2, <3>1, <5>1
        <5> QED BY <1>8, <2>2, <3>1, <4>2, <5>2 DEF Repeats
      <4>3. harness = "claude" /\ LastOf(f).entry = l.entry /\ LastOf(f).kind = "call"
        BY <3>5, <4>1, <4>2 DEF Again
      <4>4. Len(files[f]) \in DOMAIN files[f] /\ i <= Len(files[f])
        BY <1>7, <3>1
      <4>5. ~Repeats(f, Len(files[f]))
        BY <4>3 DEF Repeats, LastOf, Replays
      <4>6. CASE i = Len(files[f])
        BY <1>2, <1>4, <2>2, <3>1, <3>3, <4>3, <4>6 DEF LastOf
      <4>7. CASE i < Len(files[f])
        BY <1>3, <2>2, <3>1, <4>3, <4>4, <4>5, <4>7 DEF LastOf
      <4>8. i \in Nat /\ Len(files[f]) \in Nat
        BY <1>7, <3>1
      <4> QED BY <4>4, <4>6, <4>7, <4>8
    <3> QED BY <3>4, <3>5
  <2> QED BY <1>7, <1>8, <2>1, <2>2
<1>9. ASSUME harness \in Whole, NEW g \in Files, NEW h \in Files, NEW k \in Lines(g)', NEW x \in Lines(h)',
             SameSession(k.entry, x.entry), k.kind = "call", k.entry[2] <= x.entry[2]
      PROVE  \E m \in Lines(h)' : m.entry = k.entry /\ m.kind = "call"
  <2>1. ASSUME NEW y \in Lines(g), NEW z \in Lines(h), y.entry = k.entry, y.kind = "call", z.entry = x.entry
        PROVE  \E m \in Lines(h)' : m.entry = k.entry /\ m.kind = "call"
    BY <1>1, <1>3, <1>9, <2>1
  <2>2. Again(f, l) /\ l.kind = "call" => \E y \in Lines(f) : y.entry = l.entry /\ y.kind = "call"
    BY DEF Again
  <2>3. Again(f, l) => \E y \in Lines(f) : y.entry = l.entry
    BY DEF Again
  <2>4. CASE k = l /\ g = f /\ x = l /\ h = f
    BY <1>9, <2>4
  <2>5. CASE k = l /\ g = f /\ x \in Lines(h)
    <3>1. CASE Again(f, l)
      BY <1>9, <2>1, <2>2, <2>5, <3>1
    <3>2. CASE Fresh(f, l)
      <4>1. x.entry[2] < l.entry[2] /\ x.entry \in Given(harness)
        BY <1>4, <1>5, <1>9, <2>5, <3>2 DEF SameSession
      <4> QED BY <1>2, <1>4, <1>9, <2>5, <4>1
    <3> QED BY <3>1, <3>2
  <2>6. CASE k \in Lines(g) /\ x = l /\ h = f
    <3>1. CASE Again(f, l)
      BY <1>9, <2>1, <2>3, <2>6, <3>1
    <3>2. CASE Fresh(f, l)
      <4>1. Precedes(k.entry, l.entry) /\ k.entry \in Given(harness)
        BY <1>2, <1>4, <1>5, <1>9, <2>6, <3>2 DEF Precedes, SameSession
      <4>2. harness \notin SpansFiles
        BY <1>9 DEF Whole, SpansFiles
      <4>3. PICK y \in Lines(f) : k.entry[2] <= y.entry[2]
        BY <3>2, <4>1, <4>2 DEF Fresh
      <4>4. SameSession(k.entry, y.entry)
        BY <1>2, <1>4, <4>1, <4>3 DEF Precedes, SameSession
      <4> QED BY <1>1, <1>3, <1>9, <2>6, <4>3, <4>4
    <3> QED BY <3>1, <3>2
  <2>7. CASE k \in Lines(g) /\ x \in Lines(h)
    BY <1>9, <2>1, <2>7
  <2> QED BY <1>1, <1>9, <2>4, <2>5, <2>6, <2>7
<1>10. ASSUME harness # "claude", NEW k \in Written', NEW x \in Written',
              k.kind = "call", x.kind = "call", k.entry = x.entry
       PROVE  k = x
  <2>1. ASSUME l.kind = "call", NEW y \in Written, y.entry = l.entry PROVE l \in Written
    <3>1. Again(f, l)
      BY <1>5, <2>1
    <3> QED BY <1>4, <1>10, <2>1, <3>1 DEF Again
  <2> QED BY <1>1, <1>3, <1>10, <2>1
<1>11. \A k \in Written' : k.kind = "prompt" => k.dated
  <2>1. Again(f, l) => l.kind # "prompt" \/ l \in Written
    BY <1>4 DEF Again
  <2>2. \A k \in Written : k.kind = "prompt" => k.dated
    BY DEF OrderInv
  <2> QED BY <1>1, <2>1, <2>2 DEF Fresh
<1> QED BY <1>6, <1>8, <1>9, <1>10, <1>11 DEF OrderInv

LEMMA MoveKeepsOrder ==
    ASSUME TypeInv, OrderInv, harness \in Tellers, harness' = harness, HarnessStep,
           NEW f \in Files, NEW g \in Files, Moves(f, g)
    PROVE  OrderInv' /\ Written' = Written
<1>1. harness \notin Rotates /\ harness \notin Snapshots
  BY TellersLines
<1>2. \A h \in Files : \/ files'[h] = <<>>
                       \/ \E k \in Files : files'[h] = files[k]
  BY AfterMoves
<1>3. \A h \in Files : \/ Lines(h)' = {} /\ DOMAIN files'[h] = {}
                       \/ \E k \in Files : Lines(h)' = Lines(k) /\ files'[h] = files[k]
                                           /\ \A j : Repeats(h, j)' <=> Repeats(k, j)
  BY <1>2 DEF Lines, Repeats
<1>4. Written' = Written
  <2>1. Written \subseteq Written'
    BY <1>1, WrittenGrows
  <2>2. \A l \in Written' : l \in Written
    BY <1>3 DEF Written
  <2> QED BY <2>1, <2>2
<1>5. \A d : Logged(d)' <=> Logged(d)
  BY <1>4 DEF Logged
<1>6. \A h \in Files : \A i, j \in DOMAIN files'[h] :
        i < j /\ ~Repeats(h, j)' => files'[h][i].entry[2] <= files'[h][j].entry[2]
  BY <1>3 DEF OrderInv
<1>7. ASSUME harness \in Whole, NEW a \in Files, NEW b \in Files, NEW k \in Lines(a)', NEW l \in Lines(b)',
             SameSession(k.entry, l.entry), k.kind = "call", k.entry[2] <= l.entry[2]
      PROVE  \E m \in Lines(b)' : m.entry = k.entry /\ m.kind = "call"
  <2>1. PICK c \in Files : Lines(a)' = Lines(c)
    BY <1>3, <1>7
  <2>2. PICK d \in Files : Lines(b)' = Lines(d)
    BY <1>3, <1>7
  <2>3. k \in Lines(c) /\ l \in Lines(d)
    BY <1>7, <2>1, <2>2
  <2> QED BY <1>7, <2>2, <2>3 DEF OrderInv
<1> QED BY <1>4, <1>5, <1>6, <1>7 DEF OrderInv

LEMMA HarnessKeepsOrder ==
    ASSUME TypeInv, OrderInv, EvenInv, HarnessStep
    PROVE  OrderInv' /\ EvenInv' /\ (harness \in MarksTurns => odd <= odd')
<1>1. harness' = harness
  BY StepForm
<1>2. CASE harness \notin MarksTurns
  BY <1>1, <1>2 DEF OrderInv, EvenInv, MarksTurns, Tellers, Whole
<1>3. CASE harness \in MarksTurns
  <2>1. /\ odd \in Nat /\ odd' \in Nat /\ odd <= odd'
        /\ \/ \E f \in Files, l \in Line : Adds(f, l) /\ (Fresh(f, l) \/ Again(f, l))
           \/ (\E f, g \in Files : Moves(f, g)) /\ odd' = odd
    BY <1>3, WritesForm DEF EvenInv
  <2>2. CASE harness \notin Tellers
    BY <1>1, <2>1, <2>2 DEF OrderInv, EvenInv
  <2>3. ASSUME harness \in Tellers, NEW f \in Files, NEW l \in Line, Adds(f, l), Fresh(f, l) \/ Again(f, l)
        PROVE  OrderInv' /\ EvenInv'
    <3>1. OrderInv'
      BY <1>1, <2>3, AddKeepsOrder
    <3>2. \A k : k \in Written' <=> k \in Written \/ k = l
      BY <2>3, LinesAfterAdds, TellersLines
    <3>3. ASSUME harness # "amp", odd' = 0 PROVE l.cell = "good" /\ l.dated
      <4>1. Fits(l, l.entry[1])
        BY <2>3 DEF Adds
      <4>2. CASE Fresh(f, l)
        BY <3>3, <4>2 DEF Fresh
      <4>3. CASE Again(f, l)
        <5>1. harness = "claude" /\ l.cell = "good"
          BY <3>3, <4>3 DEF Again
        <5> QED BY <4>1, <5>1 DEF Fits, MayLackDate
      <4> QED BY <2>3, <4>2, <4>3
    <3>4. odd' = 0 => odd = 0
      BY <2>1
    <3> QED BY <1>1, <2>1, <3>1, <3>2, <3>3, <3>4 DEF EvenInv
  <2>4. ASSUME harness \in Tellers, NEW f \in Files, NEW g \in Files, Moves(f, g), odd' = odd
        PROVE  OrderInv' /\ EvenInv'
    <3>1. OrderInv' /\ Written' = Written
      BY <1>1, <2>4, MoveKeepsOrder
    <3> QED BY <1>1, <2>4, <3>1 DEF EvenInv
  <2> QED BY <2>1, <2>2, <2>3, <2>4
<1> QED BY <1>2, <1>3

LEMMA NextOrder ==
    ASSUME TypeInv, OrderInv, EvenInv, [Next]_vars
    PROVE  OrderInv' /\ EvenInv' /\ (harness \in MarksTurns => odd <= odd')
<1>1. CASE HarnessStep
  BY <1>1, HarnessKeepsOrder
<1>2. CASE ReaderStep \/ UNCHANGED vars
  <2>1. UNCHANGED <<harness, quirk, session, files, age>>
    BY <1>2, ReaderLeavesWorld
  <2>2. /\ Written' = Written
        /\ \A d : Logged(d)' <=> Logged(d)
        /\ \A f : Lines(f)' = Lines(f)
        /\ \A f, j : Repeats(f, j)' <=> Repeats(f, j)
    BY <2>1 DEF Logged, Written, Lines, Repeats
  <2>3. OrderInv'
    BY <2>1, <2>2 DEF OrderInv
  <2>4. odd' = odd \/ odd' = odd + 0 \/ odd' = odd + 1
    BY <1>2 DEF ReaderStep, Begin, Select, Read, Unreadable, world, vars, Costs
  <2>5. odd \in Nat => odd' \in Nat /\ odd <= odd' /\ (odd' = 0 => odd = 0)
    BY <2>4
  <2> QED BY <2>1, <2>2, <2>3, <2>5 DEF EvenInv, Tellers, Whole, MarksTurns
<1> QED BY <1>1, <1>2, NextKinds

-----------------------------------------------------------------------------
(***************************************************************************)
(* Turns: what the readers of whole sessions make of a prompt.             *)
(***************************************************************************)
LEMMA TellsBy ==
    ASSUME NEW f \in Files, files[f] \in Seq(Line), NEW ev, NEW i \in DOMAIN files[f], NEW spent,
           ev.calls = files[f][i].calls,
           Row(files[f][i]), ~Repeats(f, i), harness = "kilo" => files[f][i].dated,
           AfterPrompt(files[f], i, spent),
           \A j \in DOMAIN files[f] : Row(files[f][j]) /\ files[f][j].dated =>
                \E k \in spent : /\ k \in DOMAIN files[f] /\ k <= j
                                 /\ files[f][k].entry = files[f][j].entry /\ files[f][k].kind = "call"
    PROVE  Told(f, ev)
<1>1. PICK q \in PromptLines(files[f]) : q < i /\ \A j \in spent : ~(q < j /\ j < i)
  BY DEF AfterPrompt
<1>2. q \in DOMAIN files[f] /\ files[f][q].kind = "prompt"
  BY DEF PromptLines, Holding
<1>3. \A j \in DOMAIN files[f] : j \in Nat
  OBVIOUS
<1>4. ASSUME NEW j \in DOMAIN files[f], q < j, j < i, Row(files[f][j]), files[f][j].dated
      PROVE  \E k \in DOMAIN files[f] :
                k < q /\ files[f][k].entry = files[f][j].entry /\ files[f][k].kind = "call"
  <2>1. PICK k \in spent : /\ k \in DOMAIN files[f] /\ k <= j
                           /\ files[f][k].entry = files[f][j].entry /\ files[f][k].kind = "call"
    BY <1>4
  <2>2. ~(q < k /\ k < i) /\ k # q
    BY <1>1, <1>2, <2>1
  <2> QED BY <1>2, <1>3, <1>4, <2>1, <2>2
<1> QED BY <1>1, <1>2, <1>4 DEF Told

LEMMA TellsByAll ==
    ASSUME NEW f \in Files, files[f] \in Seq(Line), NEW ev, NEW i \in DOMAIN files[f], NEW spent,
           ev.calls = files[f][i].calls,
           Row(files[f][i]), harness \notin Replays, harness = "kilo" => files[f][i].dated,
           AfterPrompt(files[f], i, spent),
           \A j \in DOMAIN files[f] : Row(files[f][j]) /\ files[f][j].dated => j \in spent
    PROVE  Told(f, ev)
<1>1. PICK q \in PromptLines(files[f]) : q < i /\ \A j \in spent : ~(q < j /\ j < i)
  BY DEF AfterPrompt
<1>2. q \in DOMAIN files[f] /\ files[f][q].kind = "prompt"
  BY DEF PromptLines, Holding
<1>3. \A j \in DOMAIN files[f] : q < j /\ j < i /\ Row(files[f][j]) /\ files[f][j].dated => FALSE
  BY <1>1
<1>4. ~Repeats(f, i)
  BY DEF Repeats, Row
<1> QED BY <1>1, <1>2, <1>3, <1>4 DEF Told

LEMMA ClaudeTells ==
    ASSUME TypeInv, NEW f \in Files, harness = "claude", NEW ev \in ReadingOf(f).events, ev.turn
    PROVE  ev \in events \/ Told(f, ev)
<1> DEFINE ls == files[f]
           Key(i) == IF ls[i].named THEN Id(ls[i]) ELSE Place(f, i)
           R == First(ClaudeRows(ls), Key, events)
           Turn(i) == AfterPrompt(ls, i, Seen(ls, "call"))
           E(i) == Event(f, session[f], ls[i], Key(i), Turn(i))
<1>1. ReadingOf(f).events = events \cup {E(i) : i \in R}
  BY DEF ReadingOf, Claude, Reading, Counted
<1>2. R \subseteq Rows(ls, {"good", "zero"})
  BY DEF First, ClaudeRows
<1>3. \A i : E(i).calls = ls[i].calls /\ (E(i).turn => AfterPrompt(ls, i, Seen(ls, "call")))
  BY DEF Event
<1> HIDE DEF R, E
<1>4. ASSUME NEW i \in R PROVE i \in DOMAIN ls /\ Row(ls[i])
  <2>1. i \in DOMAIN ls /\ ls[i].kind = "call" /\ ls[i].cell \in {"good", "zero"}
    BY <1>2, RowsAre
  <2> QED BY <2>1 DEF Row, Cells
<1>5. \A j \in DOMAIN ls : Row(ls[j]) => j \in Seen(ls, "call")
  BY DEF Row, Cells, Seen, Holding
<1>6. ls \in Seq(Line)
  BY DEF TypeInv
<1> HIDE DEF ls
<1>7. ASSUME NEW i \in R, ev = E(i) PROVE Told(f, ev)
  BY <1>3, <1>4, <1>5, <1>6, <1>7, TellsByAll DEF ls, Replays
<1> QED BY <1>1, <1>7

LEMMA GeminiTells ==
    ASSUME TypeInv, NEW f \in Files, harness = "gemini", NEW ev \in ReadingOf(f).events, ev.turn
    PROVE  ev \in events \/ Told(f, ev)
<1> DEFINE ls == files[f]
           R == GeminiRows(ls)
           E(i) == Event(f, session[f], ls[i], Place(f, i), GeminiTurn(ls, i))
<1>1. ReadingOf(f).events = events \cup {E(i) : i \in R}
  BY DEF ReadingOf, Gemini, Reading, Counted
<1>2. R \subseteq Rows(ls, {"good", "zero"})
  BY DEF GeminiRows
<1>3. \A i : E(i).calls = ls[i].calls /\ (E(i).turn => AfterPrompt(ls, i, GeminiRows(ls)))
  BY DEF Event, GeminiTurn
<1> HIDE DEF R, E
<1>4. ASSUME NEW i \in R PROVE i \in DOMAIN ls /\ Row(ls[i])
  <2>1. i \in DOMAIN ls /\ ls[i].kind = "call" /\ ls[i].cell \in {"good", "zero"}
    BY <1>2, RowsAre
  <2> QED BY <2>1 DEF Row, Cells
<1>5. \A j \in DOMAIN ls : Row(ls[j]) => j \in GeminiRows(ls)
  BY DEF Row, Cells, GeminiRows, Rows, Holding
<1>6. ls \in Seq(Line)
  BY DEF TypeInv
<1> HIDE DEF ls
<1>7. ASSUME NEW i \in R, ev = E(i) PROVE Told(f, ev)
  BY <1>3, <1>4, <1>5, <1>6, <1>7, TellsByAll DEF ls, Replays
<1> QED BY <1>1, <1>7

LEMMA PiTells ==
    ASSUME TypeInv, NEW f \in Files, harness = "pi", NEW ev \in ReadingOf(f).events, ev.turn
    PROVE  ev \in events \/ Told(f, ev)
<1> DEFINE ls == files[f]
           rows == {i \in Rows(ls, {"good", "zero"}) : ls[i].named}
           Key(i) == <<"message", session[f], Id(ls[i]), Usage(ls[i], FALSE), ls[i].cell>>
           R == First(rows, Key, events)
           Turn(i) == AfterPrompt(ls, i, Seen(ls, "call"))
           E(i) == Event(f, session[f], ls[i], Key(i), Turn(i))
<1>1. ReadingOf(f).events = events \cup {E(i) : i \in R}
  BY DEF ReadingOf, Pi, Reading, Counted
<1>2. R \subseteq Rows(ls, {"good", "zero"})
  BY DEF First
<1>3. \A i : E(i).calls = ls[i].calls /\ (E(i).turn => AfterPrompt(ls, i, Seen(ls, "call")))
  BY DEF Event
<1> HIDE DEF R, E
<1>4. ASSUME NEW i \in R PROVE i \in DOMAIN ls /\ Row(ls[i])
  <2>1. i \in DOMAIN ls /\ ls[i].kind = "call" /\ ls[i].cell \in {"good", "zero"}
    BY <1>2, RowsAre
  <2> QED BY <2>1 DEF Row, Cells
<1>5. \A j \in DOMAIN ls : Row(ls[j]) => j \in Seen(ls, "call")
  BY DEF Row, Cells, Seen, Holding
<1>6. ls \in Seq(Line)
  BY DEF TypeInv
<1> HIDE DEF ls
<1>7. ASSUME NEW i \in R, ev = E(i) PROVE Told(f, ev)
  BY <1>3, <1>4, <1>5, <1>6, <1>7, TellsByAll DEF ls, Replays
<1> QED BY <1>1, <1>7

LEMMA AmpTells ==
    ASSUME TypeInv, NEW f \in Files, harness = "amp", NEW ev \in ReadingOf(f).events, ev.turn
    PROVE  ev \in events \/ Told(f, ev)
<1> DEFINE ls == files[f]
           s == session[f]
           rows == AmpRows(ls, "call")
           ledger == AmpRows(ls, "record")
           LedgerKey(r) == AmpLedgerKey(f, s, ls, r)
           taken[n \in 0..Len(ls)] ==
               IF n = 0 THEN {}
               ELSE taken[n - 1] \cup
                    (IF n \in rows THEN AmpMatch(ls, n, ledger \ taken[n - 1], quirk) ELSE {})
           Key(i) == CASE ls[i].named -> AmpName(s, ls[i])
                       [] ~ls[i].named /\ taken[i] # taken[i - 1] ->
                               LedgerKey(CHOOSE r \in taken[i] \ taken[i - 1] : TRUE)
                       [] OTHER -> <<"ledger", s>>
           Turn(i) == AfterPrompt(ls, i, Rows(ls, {"good", "zero", "bad"}))
           R == First(rows, Key, events)
           E(i) == Event(f, s, ls[i], Key(i), Turn(i))
           messages == events \cup {E(i) : i \in R}
           left == First(ledger \ taken[Len(ls)], LedgerKey, messages)
           G(i) == Event(f, s, ls[i], LedgerKey(i), FALSE)
<1>1. ReadingOf(f).events = messages \cup {G(i) : i \in left}
  BY DEF ReadingOf, Amp, Reading, Counted, Never
<1>2. R \subseteq Rows(ls, {"good", "zero"})
  <2>1. R \subseteq rows
    <3> HIDE DEF rows, Key
    <3> QED BY DEF First
  <2> QED BY <2>1 DEF AmpRows, Rows, Holding
<1>3. /\ \A i : E(i).calls = ls[i].calls
                /\ (E(i).turn => AfterPrompt(ls, i, Rows(ls, {"good", "zero", "bad"})))
      /\ \A i : G(i).turn = FALSE
  <2> HIDE DEF Key, LedgerKey
  <2> QED BY DEF Event
<1>4. messages = events \cup {E(i) : i \in R}
  OBVIOUS
<1> HIDE DEF R, E, G, left, messages
<1>5. ASSUME NEW i \in R PROVE i \in DOMAIN ls /\ Row(ls[i])
  <2>1. i \in DOMAIN ls /\ ls[i].kind = "call" /\ ls[i].cell \in {"good", "zero"}
    BY <1>2, RowsAre
  <2> QED BY <2>1 DEF Row
<1>6. \A j \in DOMAIN ls : Row(ls[j]) => j \in Rows(ls, {"good", "zero", "bad"})
  BY DEF Row, Rows, Holding
<1>7. ls \in Seq(Line)
  BY DEF TypeInv
<1> HIDE DEF ls, taken, rows, ledger, Key, LedgerKey, Turn
<1>8. ASSUME NEW i \in R, ev = E(i) PROVE Told(f, ev)
  <2> DEFINE spent == Rows(ls, {"good", "zero", "bad"})
  <2>1. i \in DOMAIN ls /\ Row(ls[i]) /\ ev.calls = ls[i].calls /\ AfterPrompt(ls, i, spent)
    BY <1>3, <1>5, <1>8
  <2>2. \A j \in DOMAIN ls : Row(ls[j]) /\ ls[j].dated => j \in spent
    BY <1>6
  <2> HIDE DEF spent
  <2>3. harness # "kilo"
    OBVIOUS
  <2> QED BY <1>7, <2>1, <2>2, <2>3, TellsByAll DEF ls, Replays
<1> QED BY <1>1, <1>3, <1>4, <1>8

LEMMA KiloTells ==
    ASSUME TypeInv, OrderInv, NEW f \in Files, harness = "kilo", NEW ev \in ReadingOf(f).events, ev.turn
    PROVE  ev \in events \/ Told(f, ev)
<1> DEFINE ls == files[f]
           rows == KiloRows(ls)
           Key(i) == Id(ls[i])
           R == {i \in rows : /\ Key(i) \notin Keys(events)
                              /\ \A j \in rows : KiloBefore(ls, j, i) => Key(j) # Key(i)}
           Turn(i) == \E p \in PromptLines(ls) :
                        /\ KiloBefore(ls, p, i)
                        /\ \A j \in rows : ~(KiloBefore(ls, p, j) /\ KiloBefore(ls, j, i))
           E(i) == Event(f, session[f], ls[i], Key(i), Turn(i))
<1>1. ReadingOf(f).events = events \cup {E(i) : i \in R}
  BY DEF ReadingOf, Kilo, Reading, Counted
<1>2. /\ R \subseteq rows
      /\ \A i : i \in rows <=> i \in DOMAIN ls /\ ls[i].kind = "call" /\ ls[i].cell \in {"good", "zero"}
  BY RowsAre DEF KiloRows
<1>3. \A i : E(i).calls = ls[i].calls /\ (E(i).turn => Turn(i))
  BY DEF Event
<1>4. ls \in Seq(Line) /\ \A j \in DOMAIN ls : ls[j] \in Line /\ ls[j] \in Lines(f)
  BY DEF TypeInv, Lines
<1>5. \A p \in PromptLines(ls) : p \in DOMAIN ls /\ ls[p].kind = "prompt"
  BY DEF PromptLines, Holding
<1> HIDE DEF R, E, rows
<1>6. ASSUME NEW i \in R, ev = E(i) PROVE Told(f, ev)
  <2>1. PICK p \in PromptLines(ls) :
            /\ KiloBefore(ls, p, i)
            /\ \A j \in rows : ~(KiloBefore(ls, p, j) /\ KiloBefore(ls, j, i))
    BY <1>3, <1>6
  <2>2. i \in DOMAIN ls /\ ls[i].kind = "call" /\ ls[i].cell \in {"good", "zero"}
    BY <1>2
  <2>3. p \in DOMAIN ls /\ ls[p].dated /\ ls[p].kind = "prompt"
    <3>1. p \in DOMAIN ls /\ ls[p].kind = "prompt"
      BY <1>5
    <3>2. ls[p] \in Written
      BY <1>4, <3>1 DEF Written
    <3> QED BY <3>1, <3>2 DEF OrderInv, Tellers, Whole
  <2>4. \A j \in DOMAIN ls : j \in Nat /\ ls[j].dated \in BOOLEAN
    BY <1>4 DEF Line
  <2>5. ls[i].dated /\ p < i
    BY <2>1, <2>2, <2>3, <2>4 DEF KiloBefore
  <2>6. ASSUME NEW j \in DOMAIN ls, p < j, j < i, Row(ls[j]), ls[j].dated PROVE FALSE
    <3>1. j \in rows
      BY <1>2, <2>6 DEF Row
    <3>2. KiloBefore(ls, p, j) /\ KiloBefore(ls, j, i)
      BY <2>3, <2>5, <2>6 DEF KiloBefore
    <3> QED BY <2>1, <3>1, <3>2
  <2>7. Row(ls[i]) /\ ~Repeats(f, i)
    BY <2>2 DEF Row, Repeats, Replays
  <2>8. ev.calls = ls[i].calls
    BY <1>3, <1>6
  <2> QED BY <2>2, <2>3, <2>5, <2>6, <2>7, <2>8 DEF Told
<1> QED BY <1>1, <1>6

LEMMA LeastOf ==
    ASSUME NEW S \in SUBSET Nat, S # {}
    PROVE  \E m \in S : \A k \in S : m <= k
<1> DEFINE R == {ss \in Nat \X Nat : ss[1] < ss[2]}
<1>1. IsWellFoundedOn(R, Nat)
  BY NatLessThanWellFounded DEF OpToRel
<1>2. PICK m \in S : \A k \in S : <<k, m>> \notin R
  <2> HIDE DEF R
  <2> QED BY <1>1, WFMin
<1>3. ASSUME NEW k \in S PROVE m <= k
  <2>1. <<k, m>> \in Nat \X Nat /\ <<k, m>>[1] = k /\ <<k, m>>[2] = m
    OBVIOUS
  <2> QED BY <1>2, <2>1
<1> QED BY <1>3

\* Junie's events are new to its reader in one file only.
LEMMA JunieTells ==
    ASSUME WorldInv, KeyedInv, todo \subseteq Files, NEW f \in todo, harness = "junie",
           NEW ev \in ReadingOf(f).events, ev.turn
    PROVE  ev \in events \/ Told(f, ev)
<1> DEFINE ls == files[f]
           Key(i) == UsageKey(f, session[f], ls[i], quirk)
           rows == JunieRows(ls)
           R == First(rows, Key, events)
           spent == JunieSpent(ls, R)
           Turn(i) == AfterPrompt(ls, i, spent)
           E(i) == Event(f, session[f], ls[i], Key(i), Turn(i))
<1>0. TypeInv /\ f \in Files /\ ls \in Seq(Line) /\ ls = files[f]
      /\ \A g \in Files : g # 0
  <2>1. f \in Files /\ \A g \in Files : g # 0
    <3>1. \A n : 0 \notin 1..n
      OBVIOUS
    <3> QED BY <3>1, TranscriptsAssumption
  <2>2. TypeInv
    BY DEF WorldInv
  <2>3. ls = files[f] /\ ls \in Seq(Line)
    BY <2>1, <2>2 DEF TypeInv
  <2> HIDE DEF ls
  <2> QED BY <2>1, <2>2, <2>3
<1>1. ReadingOf(f).events = events \cup {E(i) : i \in R}
  BY DEF ReadingOf, Junie, Reading, Counted
<1>2. \A i : i \in rows <=> i \in DOMAIN ls /\ ls[i].kind = "call" /\ ls[i].cell = "good"
  <2>1. \A i : i \in Rows(files[f], {"good"}) <=>
               i \in DOMAIN files[f] /\ files[f][i].kind = "call" /\ files[f][i].cell \in {"good"}
    BY <1>0, RowsAre
  <2>2. rows = Rows(files[f], {"good"})
    BY DEF JunieRows
  <2> HIDE DEF rows
  <2> QED BY <2>1, <2>2
<1>3. /\ R \subseteq rows
      /\ \A i \in R : \A j \in rows : j < i => Key(j) # Key(i)
      /\ \A i \in rows : Key(i) \notin Keys(events) /\ (\A j \in rows : j < i => Key(j) # Key(i)) => i \in R
  <2> HIDE DEF Key, rows
  <2> QED BY DEF First
<1>4. \A i : E(i).calls = ls[i].calls /\ (E(i).turn => AfterPrompt(ls, i, spent))
  BY DEF Event
<1>5. \A i \in rows : i \in R => i \in spent
  BY DEF JunieSpent
<1> HIDE DEF R, E, rows, ls, spent
<1>6. \A i \in DOMAIN ls : i \in Nat
  BY <1>0
<1>7. \A l \in Written : /\ \E g \in Files : l \in Lines(g)
                         /\ l.kind \in {"call", "record"} => l.calls = {l.entry}
  BY <1>0, TellersLines DEF Tellers, Whole
<1>8. \A i \in DOMAIN ls : ls[i] \in Written
  BY <1>0, WrittenAt
<1>9. ASSUME NEW k \in DOMAIN ls, NEW l \in DOMAIN ls, ls[l].dated, Key(k) = Key(l)
      PROVE  ls[k].calls = ls[l].calls
  <2>1. Instant(f, ls[k]) = Instant(f, ls[l])
    BY <1>9 DEF UsageKey
  <2>2. Instant(f, ls[l]) = <<0, ls[l].calls>>
    BY <1>9 DEF Instant
  <2>3. Instant(f, ls[k]) = IF ls[k].dated THEN <<0, ls[k].calls>> ELSE <<f, {}>>
    BY DEF Instant
  <2> QED BY <1>0, <2>1, <2>2, <2>3
<1>10. ASSUME NEW j \in DOMAIN ls, Row(ls[j]), ls[j].dated
       PROVE  \E k \in spent : /\ k \in DOMAIN ls /\ k <= j
                               /\ ls[k].entry = ls[j].entry /\ ls[k].kind = "call"
  <2> DEFINE S == {k \in rows : k <= j /\ Key(k) = Key(j)}
  <2>1. j \in rows /\ j \in Nat /\ j <= j
    BY <1>2, <1>6, <1>10 DEF Row
  <2>2. S \in SUBSET Nat /\ S # {}
    BY <1>2, <1>6, <2>1
  <2>3. PICK k \in S : \A m \in S : k <= m
    BY <2>2, LeastOf
  <2>4. k \in rows /\ k <= j /\ Key(k) = Key(j) /\ k \in DOMAIN ls
    BY <1>2, <2>3
  <2>5. \A m \in rows : m < k => Key(m) # Key(k)
    BY <1>2, <1>6, <2>1, <2>3, <2>4
  <2>6. ls[k].calls = ls[j].calls
    BY <1>9, <1>10, <2>4
  <2>7. ls[k].kind = "call" /\ ls[k].entry = ls[j].entry
    BY <1>2, <1>7, <1>8, <2>1, <2>4, <2>6
  <2>8. ASSUME NEW old \in events, old.key = Key(k) PROVE FALSE
    <3>1. Accounted(old)
      BY <2>8 DEF KeyedInv, Keyed, Transcribed, AllNamed
    <3>2. old.file \in Files \ todo /\ FromLine(old)
      BY <3>1 DEF Accounted, Keyed, Transcribed
    <3>3. PICK i \in Nat, l \in Written :
            /\ old.key = KeyAt(old.file, old.session, i, l)
            /\ l.kind \in {"call", "record"}
            /\ i \in DOMAIN files[old.file] /\ files[old.file][i] = l
      BY <3>2 DEF FromLine, Rotates
    <3>4. old.key = UsageKey(old.file, old.session, l, quirk)
      BY <3>3 DEF KeyAt, Placed, Snapshots
    <3>5. Instant(old.file, l) = Instant(f, ls[j])
      <4>1. UsageKey(old.file, old.session, l, quirk) = UsageKey(f, session[f], ls[j], quirk)
        BY <2>4, <2>8, <3>4
      <4> QED BY <4>1 DEF UsageKey
    <3>6. l.calls = ls[j].calls
      <4>1. Instant(f, ls[j]) = <<0, ls[j].calls>>
        BY <1>10 DEF Instant
      <4>2. Instant(old.file, l) = IF l.dated THEN <<0, l.calls>> ELSE <<old.file, {}>>
        BY DEF Instant
      <4> QED BY <1>0, <3>2, <3>5, <4>1, <4>2
    <3>7. l.entry = ls[j].entry
      BY <1>2, <1>7, <1>8, <2>1, <3>3, <3>6
    <3>8. old.file = f
      BY <1>0, <2>1, <3>2, <3>3, <3>7, <1>10 DEF WorldInv, UniqueInv, Copies, Rotates
    <3> QED BY <3>2, <3>8
  <2>9. Key(k) \notin Keys(events)
    BY <2>8 DEF Keys
  <2>10. k \in spent
    BY <1>3, <1>5, <2>4, <2>5, <2>9
  <2> QED BY <2>4, <2>7, <2>10
<1>11. ASSUME NEW i \in R, ev = E(i) PROVE Told(f, ev)
  <2>1. i \in DOMAIN ls /\ ls[i].kind = "call" /\ ls[i].cell = "good" /\ ev.calls = ls[i].calls
        /\ AfterPrompt(ls, i, spent)
    BY <1>2, <1>3, <1>4, <1>11
  <2>2. Row(ls[i]) /\ harness # "kilo"
    BY <2>1 DEF Row
  <2>3. \A j \in DOMAIN ls : j < i => ls[j] # ls[i]
    <3> SUFFICES ASSUME NEW j \in DOMAIN ls, j < i, ls[j] = ls[i] PROVE FALSE
      OBVIOUS
    <3>1. j \in rows /\ Key(j) = Key(i)
      BY <1>2, <2>1
    <3> QED BY <1>3, <1>11, <3>1
  <2>4. ~Repeats(f, i)
    BY <1>0, <2>1, <2>3 DEF Repeats
  <2> QED BY <1>0, <1>10, <2>1, <2>2, <2>4, TellsBy
<1> QED BY <1>1, <1>11

LEMMA WholeTells ==
    ASSUME CountingInv, OrderInv, NEW f \in todo, harness \in Whole, NEW ev \in ReadingOf(f).events, ev.turn
    PROVE  ev \in events \/ Told(f, ev)
<1>1. WorldInv /\ TypeInv /\ KeyedInv /\ todo \subseteq Files /\ f \in Files
  BY DEF CountingInv, WorldInv
<1>2. harness \in {"claude", "gemini", "pi", "junie", "amp", "kilo"}
  BY DEF Whole
<1> QED BY <1>1, <1>2, ClaudeTells, GeminiTells, PiTells, AmpTells, KiloTells, JunieTells

\* Of the lines of a call in a file, the first.
LEMMA FirstOfCall ==
    ASSUME TypeInv, NEW f \in Files, NEW e, \E m \in Lines(f) : m.entry = e /\ m.kind = "call"
    PROVE  \E j \in DOMAIN files[f] :
                /\ files[f][j].entry = e /\ files[f][j].kind = "call"
                /\ \A k \in DOMAIN files[f] : files[f][k].entry = e /\ files[f][k].kind = "call" => j <= k
<1> DEFINE S == {j \in DOMAIN files[f] : files[f][j].entry = e /\ files[f][j].kind = "call"}
<1>1. files[f] \in Seq(Line)
  BY DEF TypeInv
<1>2. S \subseteq Nat /\ S # {}
  BY <1>1 DEF Lines
<1>3. PICK j \in S : \A k \in S : j <= k
  BY <1>2, LeastOf
<1> QED BY <1>3

LEMMA ToldIsStarted ==
    ASSUME TypeInv, OrderInv, harness \in Whole, ~TurnsBlurred, NEW f \in Files, NEW ev, Told(f, ev)
    PROVE  Started(ev)
<1> DEFINE ls == files[f]
<1>1. PICK i \in DOMAIN ls, q \in DOMAIN ls :
        /\ ev.calls = ls[i].calls
        /\ Row(ls[i]) /\ ~Repeats(f, i) /\ (harness = "kilo" => ls[i].dated)
        /\ ls[q].kind = "prompt" /\ q < i
        /\ \A j \in DOMAIN ls : q < j /\ j < i /\ Row(ls[j]) /\ ls[j].dated =>
                \E k \in DOMAIN ls : k < q /\ ls[k].entry = ls[j].entry /\ ls[k].kind = "call"
  BY DEF Told
<1>2. ls \in Seq(Line) /\ \A j \in DOMAIN ls : j \in Nat /\ ls[j] \in Lines(f)
  BY DEF TypeInv, Lines
<1> HIDE DEF ls
<1>3. /\ \A g \in Files : \A l \in Lines(g) :
            /\ l \in Written /\ l.entry \in Given(harness) /\ l.entry[1] = session[g]
            /\ l.kind \in {"call", "record"} => l.calls = {l.entry} /\ Kind(l.entry) = "call"
            /\ l.kind = "prompt" => l.entry \in Prompts
            /\ harness \notin {"junie", "kilo"} => l.dated
      /\ \A e \in Given(harness) : e[1] \in Nat /\ e[2] \in Nat \ {0} /\ e = <<e[1], e[2]>> /\ e \in Entries
      /\ \A l \in Written : \E g \in Files : l \in Lines(g)
  BY TellersLines DEF Tellers
<1>4. \A p \in Prompts : Kind(p) # "call"
  BY DEF Prompts, Calls
<1>5. harness \in Tellers
  BY DEF Tellers
<1>6. /\ \A a, b \in DOMAIN ls : a < b /\ ~Repeats(f, b) => ls[a].entry[2] <= ls[b].entry[2]
      /\ \A g, h \in Files : \A k \in Lines(g), l \in Lines(h) :
            SameSession(k.entry, l.entry) /\ k.kind = "call" /\ k.entry[2] <= l.entry[2] =>
                \E m \in Lines(h) : m.entry = k.entry /\ m.kind = "call"
      /\ harness # "claude" =>
            \A k, l \in Written : k.kind = "call" /\ l.kind = "call" /\ k.entry = l.entry => k = l
  BY <1>5 DEF OrderInv, ls
<1> DEFINE l == ls[i]
           p == ls[q].entry
<1>7. /\ l \in Lines(f) /\ l \in Written /\ l.kind = "call" /\ ev.calls = {l.entry} /\ p \in Prompts
      /\ l.entry \in Given(harness) /\ p \in Given(harness) /\ ls[q] \in Lines(f)
      /\ p[1] = l.entry[1] /\ p # l.entry /\ p[2] <= l.entry[2]
  <2>1. l \in Lines(f) /\ ls[q] \in Lines(f) /\ l.kind = "call"
    BY <1>1, <1>2 DEF Row
  <2>2. p[2] <= l.entry[2]
    BY <1>1, <1>6
  <2> QED BY <1>1, <1>3, <1>4, <2>1, <2>2
<1>8. Precedes(p, l.entry)
  BY <1>3, <1>7 DEF Precedes, SameSession
<1>9. ASSUME NEW k \in Written, Row(k), k.dated, Precedes(p, k.entry), Precedes(k.entry, l.entry)
      PROVE  FALSE
  <2>1. k.kind = "call" /\ k.entry[1] = l.entry[1] /\ p[2] < k.entry[2] /\ k.entry[2] < l.entry[2]
        /\ k.entry \in Given(harness)
    BY <1>3, <1>9 DEF Precedes, SameSession, Row
  <2>2. PICK g \in Files : k \in Lines(g)
    BY <1>3
  <2>3. k.entry[2] <= l.entry[2] /\ SameSession(k.entry, l.entry)
    BY <1>3, <1>7, <2>1 DEF SameSession
  <2>4. \E m \in Lines(f) : m.entry = k.entry /\ m.kind = "call"
    BY <1>6, <1>7, <2>1, <2>2, <2>3
  <2>5. PICK j \in DOMAIN ls :
            /\ ls[j].entry = k.entry /\ ls[j].kind = "call"
            /\ \A b \in DOMAIN ls : ls[b].entry = k.entry /\ ls[b].kind = "call" => j <= b
    BY <2>4, FirstOfCall DEF ls
  <2>6. ~Repeats(f, j)
    BY <1>2, <2>5 DEF Repeats, ls
  <2>7. ~Repeats(f, q)
    BY <1>1 DEF Repeats, ls
  <2>8. ~(i < j)
    <3>1. i < j => l.entry[2] <= ls[j].entry[2]
      BY <1>6, <2>6
    <3> QED BY <1>3, <1>7, <2>1, <2>5, <3>1
  <2>9. ~(j < q)
    <3>1. j < q => ls[j].entry[2] <= ls[q].entry[2]
      BY <1>6, <2>7
    <3> QED BY <1>3, <1>7, <2>1, <2>5, <3>1
  <2>10. j # i /\ j # q
    BY <1>1, <1>3, <1>7, <2>1, <2>5
  <2>11. q < j /\ j < i
    BY <1>2, <2>8, <2>9, <2>10
  <2>12. Row(ls[j]) /\ ls[j].dated
    <3>1. ls[j] \in Written /\ ls[j] \in Lines(f) /\ ls[j] \in Line
      BY <1>2, <1>3
    <3>2. CASE harness # "claude"
      <4>1. ls[j] = k
        BY <1>6, <2>1, <2>5, <3>1, <3>2
      <4> QED BY <1>9, <4>1
    <3>3. CASE harness = "claude"
      <4>1. ls[j].cell # "torn"
        BY <3>1, <3>3 DEF TurnsBlurred
      <4> QED BY <1>3, <2>5, <3>1, <3>3, <4>1 DEF Row, Line
    <3> QED BY <3>2, <3>3
  <2>13. PICK b \in DOMAIN ls : b < q /\ ls[b].entry = ls[j].entry /\ ls[b].kind = "call"
    BY <1>1, <2>11, <2>12
  <2> QED BY <1>2, <2>5, <2>11, <2>13
<1> HIDE DEF l, p
<1>10. Row(l) /\ (harness = "kilo" => l.dated)
  BY <1>1 DEF l
<1> QED BY <1>7, <1>8, <1>9, <1>10 DEF Started

LEMMA StartedStays ==
    ASSUME TypeInv, OrderInv, harness \in Whole, ~TurnsBlurred', odd \in Nat, HarnessStep,
           NEW ev, Started(ev)
    PROVE  Started(ev)'
<1>1. harness' = harness /\ harness \in MarksTurns /\ harness \in Tellers
  BY StepForm DEF Whole, MarksTurns, Tellers
<1>2. \A l : Row(l)' <=> Row(l)
  BY <1>1 DEF Row
<1>3. PICK l \in Written, p \in Prompts :
        /\ ev.calls = {l.entry}
        /\ Row(l) /\ (harness = "kilo" => l.dated)
        /\ Precedes(p, l.entry)
        /\ \A k \in Written : Row(k) /\ k.dated /\ Precedes(p, k.entry) => ~Precedes(k.entry, l.entry)
  BY DEF Started
<1>4. CASE \E f, g \in Files : Moves(f, g)
  <2>1. Written' = Written
    BY <1>1, <1>4, MoveKeepsOrder
  <2> QED BY <1>1, <1>2, <1>3, <2>1 DEF Started
<1>5. ASSUME NEW f \in Files, NEW n \in Line, Adds(f, n), Fresh(f, n) \/ Again(f, n) PROVE Started(ev)'
  <2>1. \A k : k \in Written' <=> k \in Written \/ k = n
    BY <1>1, <1>5, LinesAfterAdds, TellersLines
  <2>2. n.entry \in Given(harness)
    BY <1>1, <1>5, LoggedAfterAdds
  <2>3. /\ l.entry \in Given(harness) /\ Logged(l.entry)
        /\ \A g \in Files : \A k \in Lines(g) : k \in Written /\ (harness \notin {"junie", "kilo"} => k.dated)
    BY <1>1, TellersLines
  <2>4. ASSUME Row(n), n.dated, Precedes(p, n.entry), Precedes(n.entry, l.entry) PROVE FALSE
    <3>1. CASE Fresh(f, n)
      <4>1. Logged(n.entry)
        BY <1>1, <2>2, <2>3, <2>4 DEF OrderInv
      <4> QED BY <3>1, <4>1 DEF Fresh
    <3>2. CASE Again(f, n)
      <4>1. PICK k \in Lines(f) :
              /\ k.entry = n.entry
              /\ \/ harness = "amp" /\ n.kind = "record"
                 \/ harness \in Replays /\ n = k /\ n.kind = "call" /\ odd' # 0
                 \/ /\ harness = "claude" /\ k = LastOf(f) /\ k.kind = "call" /\ n.kind = "call"
                    /\ n.cell = "good"
        BY <3>2 DEF Again
      <4>2. k \in Written
        BY <2>3
      <4>3. n.kind # "record"
        BY <2>4 DEF Row
      <4>4. Row(k) /\ k.dated
        <5>1. CASE n = k
          BY <2>4, <5>1
        <5>2. CASE harness = "claude" /\ k.kind = "call"
          <6>1. k \in Line
            BY InLines
          <6>2. k.cell # "torn"
            BY <1>1, <2>1, <4>2, <5>2 DEF TurnsBlurred
          <6> QED BY <2>3, <5>2, <6>1, <6>2 DEF Row, Line
        <5> QED BY <4>1, <4>3, <5>1, <5>2
      <4> QED BY <1>3, <2>4, <4>1, <4>2, <4>4
    <3> QED BY <1>5, <3>1, <3>2
  <2>5. \A k \in Written' : Row(k) /\ k.dated /\ Precedes(p, k.entry) => ~Precedes(k.entry, l.entry)
    BY <1>3, <2>1, <2>4
  <2>6. l \in Written'
    BY <2>1
  <2> QED BY <1>1, <1>2, <1>3, <2>5, <2>6 DEF Started
<1> QED BY <1>1, <1>4, <1>5, WritesForm

LEMMA BlurStays ==
    ASSUME TypeInv, harness \in MarksTurns, HarnessStep, TurnsBlurred
    PROVE  TurnsBlurred'
<1>1. Written \subseteq Written' /\ harness' = harness
  BY WrittenGrows, StepForm DEF MarksTurns, Snapshots
<1>2. ASSUME harness = "qwen", NEW f \in Files PROVE Lines(f) \subseteq Lines(f)'
  <2>1. PICK g \in Files, l \in Line : Adds(g, l)
    BY <1>2, StepForm DEF Moves, Copies, Rotates
  <2> QED BY <1>2, <2>1, LinesAfterAdds DEF Snapshots
<1> QED BY <1>1, <1>2 DEF TurnsBlurred

LEMMA BlurTheSame ==
    ASSUME UNCHANGED <<harness, quirk, session, files, age>>
    PROVE  TurnsBlurred' <=> TurnsBlurred
BY DEF TurnsBlurred, Written, Lines

LEMMA NextTurn ==
    ASSUME CountingInv, OrderInv, odd \in Nat \/ harness \notin MarksTurns, TurnInv, [Next]_vars
    PROVE  TurnInv'
<1>0. TypeInv /\ todo \subseteq Files
  BY DEF CountingInv, WorldInv
<1>1. CASE HarnessStep
  <2>1. harness' = harness /\ events' = events
    BY <1>0, <1>1, StepForm DEF reader
  <2>2. SUFFICES ASSUME harness \in Whole, ~TurnsBlurred', NEW ev \in events, ev.turn PROVE Started(ev)'
    BY <2>1 DEF TurnInv
  <2>3. harness \in MarksTurns /\ odd \in Nat
    BY <2>2 DEF Whole, MarksTurns
  <2>4. ~TurnsBlurred
    BY <1>0, <1>1, <2>2, <2>3, BlurStays
  <2>5. Started(ev)
    BY <2>2, <2>4 DEF TurnInv
  <2> QED BY <1>0, <1>1, <2>2, <2>3, <2>5, StartedStays
<1>2. CASE ReaderStep \/ UNCHANGED vars
  <2>1. UNCHANGED <<harness, quirk, session, files, age>>
    BY <1>2, ReaderLeavesWorld
  <2>2. /\ Written' = Written /\ (TurnsBlurred' <=> TurnsBlurred)
        /\ \A ev : Started(ev)' <=> Started(ev)
    BY <2>1, BlurTheSame DEF Started, Row, Written, Lines
  <2> SUFFICES ASSUME harness \in Whole, ~TurnsBlurred, NEW ev \in events', ev.turn PROVE Started(ev)
    BY <2>1, <2>2 DEF TurnInv
  <2>3. \A old \in events : old.turn => Started(old)
    BY DEF TurnInv
  <2>4. ASSUME NEW f \in Files, Read(f) PROVE Started(ev)
    <3>1. f \in todo /\ events' = ReadingOf(f).events
      BY <2>4 DEF Read, Past
    <3>2. ev \in events \/ Told(f, ev)
      BY <3>1, WholeTells
    <3> QED BY <1>0, <2>3, <3>2, ToldIsStarted
  <2>5. CASE Begin
    BY <2>5 DEF Begin
  <2>6. CASE Select
    BY <2>6 DEF Select, Whole
  <2>7. CASE UNCHANGED vars \/ \E f \in Files : Unreadable(f)
    BY <2>3, <2>7 DEF vars, reader, Unreadable
  <2> QED BY <1>2, <2>4, <2>5, <2>6, <2>7 DEF ReaderStep
<1> QED BY <1>1, <1>2, NextKinds

-----------------------------------------------------------------------------
(***************************************************************************)
(* Turns: Qwen's, whose prompts may be in a file before.                   *)
(***************************************************************************)
LEMMA QwenFromLines ==
    ASSUME CountingInv, harness = "qwen", NEW ev \in events
    PROVE  ev.file \in Files /\ \E l \in Lines(ev.file) : ev.calls = {l.entry} /\ l.entry \in Calls
<1>1. TypeInv /\ KeyedInv
  BY DEF CountingInv, WorldInv
<1>2. Accounted(ev)
  BY <1>1 DEF KeyedInv, Keyed, Transcribed, AllNamed
<1>3. ev.file \in Files /\ FromLine(ev)
  BY <1>2 DEF Accounted, Keyed, Transcribed
<1>4. PICK i \in Nat, l \in Written :
        /\ ev.calls = l.calls /\ l.kind \in {"call", "record"}
        /\ i \in DOMAIN files[ev.file] /\ files[ev.file][i] = l
  BY <1>3 DEF FromLine, Rotates
<1>5. l \in Lines(ev.file)
  BY <1>4 DEF Lines
<1>6. l.calls = {l.entry} /\ l.entry \in Calls
  BY <1>1, <1>3, <1>4, <1>5, TellersLines DEF Tellers, Calls
<1> QED BY <1>3, <1>4, <1>5, <1>6

LEMMA QwenRead ==
    ASSUME CountingInv, OrderInv, QwenInv, harness = "qwen", NEW f \in Files, Read(f)
    PROVE  QwenInv'
<1> DEFINE ls == files[f]
           rows == QwenRows(ls)
           owed == session[f] \in carried
           Turn(i) == \/ AfterPrompt(ls, i, rows)
                      \/ owed /\ \A j \in rows : j >= i
           E(i) == Event(f, session[f], ls[i], Place(f, i), Turn(i))
<1>0. TypeInv /\ todo \subseteq Files /\ Files \subseteq Int
  <2>1. \A n : 1..n \subseteq Int
    OBVIOUS
  <2>2. Files \subseteq Int
    BY <2>1, TranscriptsAssumption
  <2> QED BY <2>2 DEF CountingInv, WorldInv
<1>1. /\ f \in todo /\ (\A g \in todo : f <= g) /\ todo' = todo \ {f}
      /\ events' = ReadingOf(f).events
      /\ UNCHANGED <<harness, quirk, session, files, age>>
  BY DEF Read, Past
<1>2. carried' = IF AfterPrompt(ls, Len(ls) + 1, rows) \/ (owed /\ rows = {})
                 THEN carried \cup {session[f]} ELSE carried \ {session[f]}
  BY DEF Read, QwenOwes
<1>3. events' = events \cup {E(i) : i \in rows}
  BY <1>1 DEF ReadingOf, Qwen, Reading, Counted
<1>4. \A i : E(i).file = f /\ E(i).calls = ls[i].calls /\ (E(i).turn => Turn(i))
  BY DEF Event
<1>5. \A i : i \in rows <=> i \in DOMAIN ls /\ ls[i].kind = "call" /\ ls[i].cell = "good"
  <2>1. \A i : i \in Rows(files[f], {"good"}) <=>
               i \in DOMAIN files[f] /\ files[f][i].kind = "call" /\ files[f][i].cell \in {"good"}
    BY RowsAre
  <2>2. rows = Rows(files[f], {"good"})
    BY DEF QwenRows
  <2> HIDE DEF rows
  <2> QED BY <2>1, <2>2
<1>6. ls \in Seq(Line) /\ Len(ls) \in Nat /\ \A i \in DOMAIN ls : i \in Nat /\ i < Len(ls) + 1 /\ ls[i] \in Lines(f)
  <2>1. ls \in Seq(Line)
    BY <1>0 DEF TypeInv
  <2> QED BY <2>1 DEF Lines
<1>7. /\ \A g \in Files : \A l \in Lines(g) :
            /\ l.entry \in Given(harness) /\ l.entry[1] = session[g]
            /\ l.kind = "call" => l.calls = {l.entry} /\ Kind(l.entry) = "call"
            /\ l.kind = "prompt" => l.entry \in Prompts /\ Kind(l.entry) # "call"
      /\ \A e \in Given(harness) : e[1] \in Nat /\ e[2] \in Nat \ {0} /\ e = <<e[1], e[2]>> /\ e \in Entries
  BY <1>0, TellersLines DEF Tellers, Prompts, Calls
<1>8. \A a, b \in DOMAIN ls : a < b /\ ls[b].kind # "record" => ls[a].entry[2] <= ls[b].entry[2]
  BY DEF OrderInv, Tellers, Repeats, Replays
<1>9. /\ (TurnsBlurred' <=> TurnsBlurred) /\ \A g : Lines(g)' = Lines(g)
  BY <1>1, BlurTheSame DEF Lines
<1> HIDE DEF rows, E, ls, owed
<1>10. \A ev \in events', g \in todo' : ev.file < g
  <2>1. \A g \in todo' : f < g
    BY <1>0, <1>1
  <2>2. \A ev \in events, g \in todo' : ev.file < g
    BY <1>1 DEF QwenInv
  <2> QED BY <1>3, <1>4, <2>1, <2>2
<1>11. ASSUME ~TurnsBlurred
       PROVE  (\A ev \in events' : ev.turn => Asked(ev)') /\ (\A s \in carried' : Owed(s)')
  <2>1. ASSUME NEW g \in Files, g < f, NEW l \in Lines(g), NEW k \in Lines(f)
        PROVE  ~Precedes(k.entry, l.entry)
    BY <1>11, <2>1 DEF TurnsBlurred
  <2>2. ASSUME NEW ev \in events, NEW d \in ev.calls, NEW k \in Lines(f)
        PROVE  ~Precedes(k.entry, d)
    <3>1. PICK l \in Lines(ev.file) : ev.calls = {l.entry}
      BY QwenFromLines
    <3>2. ev.file \in Files /\ ev.file < f
      BY <1>1, QwenFromLines DEF QwenInv
    <3> QED BY <2>1, <3>1, <3>2
  <2>3. /\ \A ev \in events : ev.turn => Asked(ev)
        /\ \A s \in carried : Owed(s)
    BY <1>11 DEF QwenInv
  <2>4. ASSUME NEW i \in rows
        PROVE  /\ i \in DOMAIN ls /\ ls[i] \in Lines(f) /\ ls[i].kind = "call" /\ ls[i].calls = {ls[i].entry}
               /\ ls[i].entry \in Given(harness) /\ ls[i].entry[1] = session[f] /\ Kind(ls[i].entry) = "call"
    BY <1>5, <1>6, <1>7
  <2>5. \A dv \in events' : \A d \in dv.calls :
            \/ \E ev \in events : d \in ev.calls
            \/ \E j \in rows : d = ls[j].entry
    BY <1>3, <1>4, <2>4
  <2>6. ASSUME NEW ev \in events, ev.turn PROVE Asked(ev)'
    <3>1. PICK e \in Given(harness), p \in Prompts :
            /\ ev.calls = {e} /\ Precedes(p, e)
            /\ \A dv \in events : \A d \in dv.calls : Precedes(p, d) => ~Precedes(d, e)
      BY <2>3, <2>6 DEF Asked
    <3>2. \A j \in rows : ~Precedes(ls[j].entry, e)
      BY <2>2, <2>4, <3>1
    <3>3. \A dv \in events' : \A d \in dv.calls : Precedes(p, d) => ~Precedes(d, e)
      BY <2>5, <3>1, <3>2
    <3> QED BY <1>1, <3>1, <3>3 DEF Asked
  <2>7. ASSUME NEW ev, NEW i \in rows, ev = E(i), ev.turn PROVE Asked(ev)'
    <3> DEFINE e == ls[i].entry
    <3>1. ev.calls = {e} /\ e \in Given(harness)
      BY <1>4, <2>4, <2>7
    <3>2. ASSUME NEW p \in Prompts, Precedes(p, e),
                 \A old \in events : \A d \in old.calls : ~Precedes(p, d),
                 \A j \in rows : Precedes(p, ls[j].entry) => ~Precedes(ls[j].entry, e)
          PROVE  Asked(ev)'
      <4>1. \A dv \in events' : \A d \in dv.calls : Precedes(p, d) => ~Precedes(d, e)
        BY <2>5, <3>2
      <4> HIDE DEF e
      <4> QED BY <1>1, <3>1, <3>2, <4>1 DEF Asked
    <3>3. CASE AfterPrompt(ls, i, rows)
      <4>1. PICK q \in PromptLines(ls) : q < i /\ \A j \in rows : ~(q < j /\ j < i)
        BY <3>3 DEF AfterPrompt
      <4>2. q \in DOMAIN ls /\ ls[q].kind = "prompt"
        BY DEF PromptLines, Holding
      <4> DEFINE p == ls[q].entry
      <4>3. p \in Prompts /\ Kind(p) # "call" /\ ls[q] \in Lines(f) /\ p \in Given(harness) /\ p[1] = session[f]
        BY <1>6, <1>7, <4>2
      <4>4. \A old \in events : \A d \in old.calls : ~Precedes(p, d)
        BY <2>2, <4>3
      <4>5. p[2] <= e[2]
        BY <1>8, <2>4, <4>1, <4>2
      <4>6. Precedes(p, e)
        BY <1>7, <2>4, <4>3, <4>5 DEF Precedes, SameSession
      <4>7. ASSUME NEW j \in rows, Precedes(p, ls[j].entry), Precedes(ls[j].entry, e) PROVE FALSE
        <5>1. j \in DOMAIN ls /\ i \in DOMAIN ls /\ ls[j].kind # "record" /\ ls[q].kind # "record"
              /\ ls[i].kind # "record" /\ j # q /\ j # i
          BY <2>4, <4>2, <4>7, <1>7 DEF Precedes
        <5>2. p[2] < ls[j].entry[2] /\ ls[j].entry[2] < e[2]
          BY <4>7 DEF Precedes
        <5>3. p[2] \in Nat /\ e[2] \in Nat /\ ls[j].entry[2] \in Nat
          BY <1>7, <2>4, <4>3
        <5>4. ~(j < q) /\ ~(i < j)
          BY <1>8, <4>2, <5>1, <5>2, <5>3
        <5> QED BY <1>6, <4>1, <4>2, <5>1, <5>4
      <4> HIDE DEF p, e
      <4> QED BY <3>2, <4>3, <4>4, <4>6, <4>7
    <3>4. CASE owed /\ \A j \in rows : j >= i
      <4>0. PICK g \in Files : \E l \in Lines(g) :
              /\ l.kind = "prompt" /\ l.entry[1] = session[f]
              /\ g < f
              /\ \A dv \in events : \A d \in dv.calls : ~Precedes(l.entry, d)
        BY <1>1, <2>3, <3>4 DEF Owed, owed
      <4>1. PICK l \in Lines(g) :
              /\ l.kind = "prompt" /\ l.entry[1] = session[f]
              /\ g < f
              /\ \A dv \in events : \A d \in dv.calls : ~Precedes(l.entry, d)
        BY <4>0
      <4>2. l.entry \in Prompts /\ Kind(l.entry) # "call" /\ l.entry \in Given(harness)
        BY <1>7, <4>1
      <4>3. ~Precedes(e, l.entry)
        BY <2>1, <2>4, <4>1
      <4>4. Precedes(l.entry, e)
        BY <1>7, <2>4, <4>1, <4>2, <4>3 DEF Precedes, SameSession
      <4>5. ASSUME NEW j \in rows, Precedes(ls[j].entry, e) PROVE FALSE
        <5>1. j # i /\ i < j /\ j \in DOMAIN ls /\ i \in DOMAIN ls /\ ls[j].kind # "record"
          BY <1>6, <1>7, <2>4, <3>4, <4>5 DEF Precedes
        <5>2. e[2] <= ls[j].entry[2]
          BY <1>8, <5>1
        <5> QED BY <1>7, <2>4, <4>5, <5>2 DEF Precedes
      <4> HIDE DEF e
      <4> QED BY <3>2, <4>1, <4>2, <4>4, <4>5
    <3> QED BY <1>4, <2>7, <3>3, <3>4
  <2>8. ASSUME NEW s \in carried' PROVE Owed(s)'
    <3>1. \A g \in todo' : g \in todo /\ f < g
      BY <1>0, <1>1
    <3>2. CASE s # session[f] \/ (owed /\ rows = {})
      <4>1. s \in carried
        BY <1>2, <2>8, <3>2 DEF owed
      <4>5. PICK g \in Files : \E l \in Lines(g) :
              /\ l.kind = "prompt" /\ l.entry[1] = s
              /\ \A h \in todo : g < h
              /\ \A dv \in events : \A d \in dv.calls : ~Precedes(l.entry, d)
        BY <2>3, <4>1 DEF Owed
      <4>2. PICK l \in Lines(g) :
              /\ l.kind = "prompt" /\ l.entry[1] = s
              /\ \A h \in todo : g < h
              /\ \A dv \in events : \A d \in dv.calls : ~Precedes(l.entry, d)
        BY <4>5
      <4>3. \A j \in rows : ~Precedes(l.entry, ls[j].entry)
        BY <2>4, <3>2, <4>2 DEF Precedes, SameSession
      <4>4. \A dv \in events' : \A d \in dv.calls : ~Precedes(l.entry, d)
        BY <2>5, <4>2, <4>3
      <4> QED BY <1>9, <3>1, <4>2, <4>4 DEF Owed
    <3>3. CASE s = session[f] /\ AfterPrompt(ls, Len(ls) + 1, rows)
      <4>1. PICK q \in PromptLines(ls) : \A j \in rows : ~(q < j /\ j < Len(ls) + 1)
        BY <3>3 DEF AfterPrompt
      <4>2. q \in DOMAIN ls /\ ls[q].kind = "prompt"
        BY DEF PromptLines, Holding
      <4> DEFINE p == ls[q].entry
      <4>3. p \in Given(harness) /\ ls[q] \in Lines(f) /\ p[1] = session[f]
        BY <1>6, <1>7, <4>2
      <4>4. \A old \in events : \A d \in old.calls : ~Precedes(p, d)
        BY <2>2, <4>3
      <4>5. ASSUME NEW j \in rows PROVE ~Precedes(p, ls[j].entry)
        <5>1. j \in DOMAIN ls /\ j < q
          BY <1>6, <2>4, <4>1, <4>2
        <5>2. ls[j].entry[2] <= p[2]
          BY <1>8, <4>2, <5>1
        <5> QED BY <1>7, <2>4, <4>3, <5>2 DEF Precedes
      <4>6. \A dv \in events' : \A d \in dv.calls : ~Precedes(p, d)
        BY <2>5, <4>4, <4>5
      <4> QED BY <1>9, <3>1, <3>3, <4>2, <4>3, <4>6 DEF Owed
    <3>4. s = session[f] => (owed /\ rows = {}) \/ AfterPrompt(ls, Len(ls) + 1, rows)
      BY <1>2, <2>8
    <3> QED BY <3>2, <3>3, <3>4
  <2> QED BY <1>3, <2>6, <2>7, <2>8
<1> QED BY <1>1, <1>9, <1>10, <1>11 DEF QwenInv

LEMMA NextQwen ==
    ASSUME CountingInv, OrderInv, QwenInv, [Next]_vars
    PROVE  QwenInv'
<1>0. TypeInv /\ todo \subseteq Files
  BY DEF CountingInv, WorldInv
<1>1. CASE HarnessStep
  <2>1. UNCHANGED <<harness, todo, carried, events>>
    BY <1>0, <1>1, StepForm DEF reader
  <2> SUFFICES ASSUME harness = "qwen" PROVE QwenInv'
    BY <2>1 DEF QwenInv
  <2>2. TurnsBlurred => TurnsBlurred'
    BY <1>0, <1>1, BlurStays DEF MarksTurns
  <2>3. \A f \in Files : Lines(f) \subseteq Lines(f)'
    <3>1. PICK g \in Files, l \in Line : Adds(g, l)
      BY <1>0, <1>1, StepForm DEF Moves, Copies, Rotates
    <3> QED BY <1>0, <3>1, LinesAfterAdds DEF Snapshots
  <2>4. \A ev \in events : Asked(ev) => Asked(ev)'
    BY <2>1 DEF Asked
  <2>5. \A s \in carried : Owed(s) => Owed(s)'
    BY <2>1, <2>3 DEF Owed
  <2> QED BY <2>1, <2>2, <2>4, <2>5 DEF QwenInv
<1>2. CASE ReaderStep \/ UNCHANGED vars
  <2>1. UNCHANGED <<harness, quirk, session, files, age>>
    BY <1>2, ReaderLeavesWorld
  <2>2. (TurnsBlurred' <=> TurnsBlurred) /\ \A g : Lines(g)' = Lines(g)
    BY <2>1, BlurTheSame DEF Lines
  <2> SUFFICES ASSUME harness = "qwen" PROVE QwenInv'
    BY <2>1 DEF QwenInv
  <2>3. ASSUME NEW f \in Files, Read(f) PROVE QwenInv'
    BY <2>3, QwenRead
  <2>4. CASE Begin
    <3>1. events' = {} /\ carried' = {}
      BY <2>4 DEF Begin
    <3> QED BY <3>1 DEF QwenInv
  <2>5. CASE Select
    BY <2>5 DEF Select
  <2>6. CASE UNCHANGED vars \/ \E f \in Files : Unreadable(f)
    <3>1. todo' \subseteq todo /\ events' = events /\ carried' = carried
      BY <2>6 DEF vars, reader, Unreadable, Past
    <3>2. \A ev \in events : Asked(ev)' <=> Asked(ev)
      BY <2>1, <3>1 DEF Asked
    <3>3. \A s : Owed(s) => Owed(s)'
      BY <2>2, <3>1 DEF Owed
    <3> QED BY <2>2, <3>1, <3>2, <3>3 DEF QwenInv
  <2> QED BY <1>2, <2>3, <2>4, <2>5, <2>6 DEF ReaderStep
<1> QED BY <1>1, <1>2, NextKinds

-----------------------------------------------------------------------------
(***************************************************************************)
(* Turns: fx's, which a commit ends.  Between two commits are the calls of *)
(* one prompt, and no delta of a total has calls of both sides.            *)
(***************************************************************************)
LEMMA FxAppend ==
    ASSUME TypeInv, harness = "fx", harness' = harness, CommitInv, NEW f \in Files, NEW l \in Line, Adds(f, l),
           l.kind = "call" => l.entry \in l.calls,
           l.kind = "commit" =>
                /\ \A i \in CallLines(files[f]) : \A e \in files[f][i].calls : e[2] < l.entry[2]
                /\ \A d \in Given(harness) : Kind(d) = "call" /\ Precedes(d, l.entry) =>
                        \E i \in CallLines(files[f]) : d \in files[f][i].calls
    PROVE  CommitInv'
<1> DEFINE ls == files[f]
           new == files'[f]
           n == Len(files[f]) + 1
<1>1. /\ n \in DOMAIN new /\ new[n] = l
      /\ \A g \in Files \ {f} : files'[g] = files[g]
      /\ \A i \in DOMAIN new : i = n \/ (i \in DOMAIN ls /\ new[i] = ls[i] /\ i < n)
      /\ \A i \in DOMAIN ls : i \in DOMAIN new /\ new[i] = ls[i] /\ i < n
  BY AfterAdds DEF NewAt, Snapshots
<1>2. ls \in Seq(Line) /\ n \in Nat /\ \A i \in DOMAIN ls : i \in Nat
  BY DEF TypeInv
<1> HIDE DEF ls, new, n
<1>3. /\ \A i : i \in CallLines(new) <=> i \in CallLines(ls) \/ (i = n /\ l.kind = "call")
      /\ \A c : c \in CommitLines(new) <=> c \in CommitLines(ls) \/ (c = n /\ l.kind = "commit")
      /\ \A i \in CallLines(ls) : new[i] = ls[i] /\ i < n /\ i \in Nat
      /\ \A c \in CommitLines(ls) : new[c] = ls[c] /\ c < n /\ c \in Nat
  BY <1>1, <1>2 DEF CallLines, CommitLines
<1>4. /\ \A i \in CallLines(ls) : ls[i].entry \in ls[i].calls
      /\ \A c \in CommitLines(ls) : Parted(Given(harness), ls, c)
  BY DEF CommitInv, ls
<1>5. \A i \in CallLines(new) : new[i].entry \in new[i].calls
  BY <1>1, <1>3, <1>4
<1>6. ASSUME NEW c \in CommitLines(ls) PROVE Parted(Given(harness), new, c)
  <2>1. \A i \in CallLines(new) : i < c => i \in CallLines(ls)
    BY <1>2, <1>3
  <2> QED BY <1>3, <1>4, <2>1 DEF Parted
<1>7. ASSUME l.kind = "commit" PROVE Parted(Given(harness), new, n)
  <2>1. CallLines(new) = CallLines(ls)
    BY <1>3, <1>7
  <2>2. /\ \A i \in CallLines(ls) : \A e \in ls[i].calls : e[2] < l.entry[2]
        /\ \A d \in Given(harness) : Kind(d) = "call" /\ Precedes(d, l.entry) =>
                \E i \in CallLines(ls) : d \in ls[i].calls
    BY <1>7 DEF ls
  <2> QED BY <1>1, <1>3, <2>1, <2>2 DEF Parted
<1>8. \A c \in CommitLines(new) : Parted(Given(harness), new, c)
  BY <1>3, <1>6, <1>7
<1>9. \A g \in Files : \A i \in CallLines(files'[g]) : files'[g][i].entry \in files'[g][i].calls
  BY <1>1, <1>5 DEF CommitInv, new
<1>10. \A g \in Files : \A c \in CommitLines(files'[g]) : Parted(Given(harness), files'[g], c)
  BY <1>1, <1>8 DEF CommitInv, new
<1>11. \A g \in Files : \A c \in CommitLines(files'[g]) : Parted(Given(harness'), files'[g], c)
  BY <1>10, Zenon
<1> QED BY <1>9, <1>11 DEF CommitInv

LEMMA LogKeepsCommits ==
    ASSUME TypeInv, LogInv, CommitInv, harness = "fx", NEW f \in Files, NEW e \in Entries, Log(f, e)
    PROVE  CommitInv'
<1>1. /\ e \in Given(harness) /\ ~Logged(e) /\ harness' = harness
      /\ \A d \in Given(harness) : Precedes(d, e) => Logged(d)
      /\ \/ session[f] = e[1]
         \/ session[f] = 0 /\ \A d \in Given(harness) : ~Precedes(d, e)
  BY DEF Log, Follows, Rewritten, SpansFiles
<1>2. PICK l \in LinesFor(e, f) : files' = [files EXCEPT ![f] = Append(files[f], l)]
  BY DEF Log, Rewritten, Snapshots
<1>3. l \in LinesOf(e, f)
  BY DEF LinesFor
<1>4. /\ l.entry = e
      /\ l.kind = (IF Kind(e) = "prompt" THEN "commit" ELSE "call")
      /\ Kind(e) # "prompt" => e \in l.calls
  BY <1>3 DEF LinesOf, CallKinds, KeepsLedger, Snapshots
<1>5. files[f] \in Seq(Line) /\ Totals(files[f]) /\ files \in [Files -> Seq(Line)]
  BY DEF TypeInv, LogInv
<1>6. /\ \A d \in Given(harness) : d[1] # 0 /\ d[2] \in Nat /\ d = <<d[1], d[2]>>
      /\ \A d \in Given(harness) : d[1] = e[1] /\ Logged(d) => d[2] < e[2]
  <2>1. \A d \in Given(harness) : d[1] # 0 /\ d[2] \in Nat /\ d = <<d[1], d[2]>>
    BY EntryTypes, GivenTypes DEF TypeInv
  <2>2. ASSUME NEW d \in Given(harness), d[1] = e[1], Logged(d) PROVE d[2] < e[2]
    <3>1. d # e /\ ~(e[2] < d[2])
      BY <1>1, <2>2 DEF LogInv, Precedes, SameSession
    <3> QED BY <1>1, <2>1, <2>2, <3>1
  <2> QED BY <2>1, <2>2
<1>7. PICK k \in Line : Adds(f, k)
  BY LogForm
<1>8. k = l
  <2>1. files' = [files EXCEPT ![f] = Append(files[f], k)]
    BY <1>7 DEF Adds, Snapshots
  <2>2. Append(files[f], k) = Append(files[f], l)
    BY <1>2, <1>5, <2>1
  <2>3. Append(files[f], k)[Len(files[f]) + 1] = k /\ Append(files[f], l)[Len(files[f]) + 1] = l
    BY <1>5
  <2> QED BY <2>2, <2>3
<1>9. k.entry = e /\ (k.kind = "call" => k.entry \in k.calls)
  BY <1>4, <1>8
<1>10. ASSUME NEW i \in CallLines(files[f]), NEW d \in files[f][i].calls PROVE d[2] < k.entry[2]
  <2>1. i \in DOMAIN files[f] /\ files[f][i] \in Lines(f)
    BY DEF CallLines, Lines
  <2>2. files[f][i] \in Written /\ Fits(files[f][i], session[f]) /\ session[f] # 0
    BY <2>1, InLines
  <2>3. d[1] = e[1] /\ Logged(d)
    BY <1>1, <2>2 DEF Fits, Logged
  <2>4. d \in Given(harness)
    BY <1>5 DEF Totals
  <2> QED BY <1>6, <1>9, <2>3, <2>4
<1>11. ASSUME NEW d \in Given(harness), Kind(d) = "call", Precedes(d, k.entry)
       PROVE  \E i \in CallLines(files[f]) : d \in files[f][i].calls
  <2>1. Logged(d) /\ session[f] = e[1] /\ d[1] = e[1]
    BY <1>1, <1>9, <1>11 DEF Precedes, SameSession
  <2>2. PICK m \in Written : m.entry = d \/ d \in m.calls
    BY <2>1 DEF Logged
  <2>3. PICK g \in Files : m \in Lines(g)
    BY DEF Written
  <2>4. Fits(m, session[g]) /\ session[g] # 0
    BY <2>3, InLines
  <2>5. session[g] = session[f]
    BY <2>1, <2>2, <2>4 DEF Fits
  <2>6. g = f
    BY <2>4, <2>5 DEF LogInv
  <2>7. PICK i \in DOMAIN files[f] : m = files[f][i]
    BY <2>3, <2>6 DEF Lines
  <2>8. m.kind = "call"
    BY <1>11, <2>2, <2>4 DEF Fits, KindsOf, KeepsLedger, Marks
  <2>9. i \in CallLines(files[f])
    BY <2>7, <2>8 DEF CallLines
  <2>10. d \in files[f][i].calls
    BY <2>2, <2>7, <2>9 DEF CommitInv
  <2> QED BY <2>9, <2>10
<1> QED BY <1>1, <1>7, <1>9, <1>10, <1>11, FxAppend

LEMMA ReplayKeepsCommits ==
    ASSUME TypeInv, CommitInv, harness = "fx", NEW f \in Files, Replay(f)
    PROVE  CommitInv'
<1>1. PICK i \in DOMAIN files[f] : files[f][i].kind = "call" /\ Rewritten(f, Append(files[f], files[f][i]))
  BY DEF Replay
<1>2. session' = session /\ harness' = harness
  BY <1>1 DEF Replay, Rewritten
<1>3. files[f][i] \in Lines(f)
  BY DEF Lines
<1>4. files[f][i] \in Line /\ Fits(files[f][i], session[f])
  BY <1>3, InLines
<1>5. Adds(f, files[f][i])
  BY <1>1, <1>2, <1>3, <1>4, AgainForm DEF Snapshots, Replays
<1>6. files[f][i].entry \in files[f][i].calls
  BY <1>1 DEF CommitInv, CallLines
<1> QED BY <1>1, <1>2, <1>4, <1>5, <1>6, FxAppend

LEMMA NextCommit ==
    ASSUME TypeInv, LogInv, CommitInv, [Next]_vars
    PROVE  CommitInv'
<1>1. CASE HarnessStep
  <2>1. harness' = harness
    BY <1>1, StepForm
  <2> QED BY <1>1, <2>1, FxSteps, LogKeepsCommits, ReplayKeepsCommits DEF CommitInv
<1>2. CASE ReaderStep \/ UNCHANGED vars
  <2>1. UNCHANGED <<harness, files>>
    BY <1>2, ReaderLeavesWorld
  <2> QED BY <2>1 DEF CommitInv
<1> QED BY <1>1, <1>2, NextKinds

LEMMA ReadKeepsFxTurns ==
    ASSUME CountingInv, CommitInv, FxTurnInv, harness = "fx", NEW f \in Files, Read(f)
    PROVE  FxTurnInv'
<1>0. TypeInv /\ LogInv /\ FxInv
  BY DEF CountingInv, WorldInv
<1>1. /\ f \in todo /\ events' = ReadingOf(f).events
      /\ UNCHANGED <<harness, quirk, session, files, age>>
  BY DEF Read, Past
<1>2. TurnsBlurred' <=> TurnsBlurred
  BY <1>1, BlurTheSame
<1> SUFFICES ASSUME ~TurnsBlurred PROVE FxTurnInv'
  BY <1>2 DEF FxTurnInv
<1> DEFINE ls == files[f]
           rows == {i \in FxUsage(ls) : FxDelta(ls, i) # {}}
           Ends(c) == ls[c].kind = "commit" /\ ls[c].cell # "torn"
           Turn(i) == \E c \in DOMAIN ls : /\ Ends(c) /\ i < c
                                           /\ \A j \in rows : j <= i \/ c < j
           E(i) == Event(f, session[f], [ls[i] EXCEPT !.calls = FxDelta(ls, i)], Place(f, i), Turn(i))
<1>3. events' = events \cup {E(i) : i \in rows}
  BY <1>1 DEF ReadingOf, Fx, Reading
<1>4. ls \in Seq(Line) /\ Totals(ls)
  BY <1>0 DEF TypeInv, LogInv
<1>5. rows \subseteq FxUsage(ls)
      /\ \A i \in FxUsage(ls) : i \in DOMAIN ls /\ i \in Nat /\ ls[i] \in Line /\ i \in CallLines(ls)
  BY <1>4 DEF FxUsage, Rows, Holding, CallLines
<1>6. ASSUME NEW i \in rows
      PROVE  E(i).file = f /\ E(i).calls = FxDelta(ls, i) /\ E(i).turn = Turn(i)
  <2>1. [ls[i] EXCEPT !.calls = FxDelta(ls, i)].calls = FxDelta(ls, i)
    BY <1>5 DEF Line
  <2> QED BY <2>1 DEF Event
<1>7. \A i \in rows : FxDelta(ls, i) \subseteq ls[i].calls
  BY DEF FxDelta, Latest
<1>8. \A i \in DOMAIN ls : ls[i] \in Lines(f) /\ ls[i] \in Written /\ ls[i] \in Line /\ Fits(ls[i], session[f])
                           /\ i \in Nat
  <2>1. \A i \in DOMAIN ls : ls[i] \in Lines(f) /\ i \in Nat
    BY <1>4 DEF Lines
  <2> QED BY <1>0, <2>1, InLines
<1>9. \A k \in CallLines(ls) : k \in FxUsage(ls)
  <2>1. \A k \in CallLines(ls) : k \in DOMAIN ls /\ ls[k].kind = "call"
    BY DEF CallLines
  <2>2. \A k \in CallLines(ls) : ls[k].cell = "good"
    BY <1>8, <2>1 DEF TurnsBlurred
  <2>3. \A k : k \in Rows(ls, {"good"}) <=> k \in DOMAIN ls /\ ls[k].kind = "call" /\ ls[k].cell \in {"good"}
    BY RowsAre
  <2> HIDE DEF ls
  <2> QED BY <2>1, <2>2, <2>3 DEF FxUsage
<1>10. \A c \in DOMAIN ls : ls[c].kind = "commit" => Parted(Given(harness), ls, c)
  BY DEF CommitInv, CommitLines
<1> HIDE DEF ls
<1>11. ASSUME NEW i \in rows, NEW j \in rows, i < j, Turn(i)
       PROVE  \E q \in Prompts : \A e \in FxDelta(ls, i), d \in FxDelta(ls, j) :
                    e \in Calls /\ d \in Calls /\ Precedes(e, q) /\ Precedes(q, d)
  <2>1. PICK c \in DOMAIN ls : Ends(c) /\ i < c /\ \A k \in rows : k <= i \/ c < k
    BY <1>11
  <2>2. i \in FxUsage(ls) /\ j \in FxUsage(ls) /\ i \in CallLines(ls) /\ j \in CallLines(ls) /\ i \in Nat /\ j \in Nat
        /\ i \in DOMAIN ls /\ j \in DOMAIN ls
    BY <1>5
  <2>3. c < j
    BY <1>11, <2>1, <2>2
  <2> DEFINE q == ls[c].entry
  <2>4. ls[c].kind = "commit" /\ Parted(Given(harness), ls, c) /\ c \in Nat
    BY <1>8, <1>10, <2>1
  <2>5. q \in Entries /\ Kind(q) = "prompt" /\ q[1] = session[f] /\ q \in Given(harness)
    BY <1>8, <2>1, <2>4 DEF Fits, Marks, Line
  <2>6. q \in Prompts
    BY <2>5 DEF Prompts, Calls
  <2>7. \A e \in FxDelta(ls, i) : e \in Calls /\ Precedes(e, q)
    <3>1. \A e \in ls[i].calls : e[2] < q[2]
      BY <2>1, <2>2, <2>4 DEF Parted
    <3>2. \A e \in ls[i].calls : e \in Calls /\ e[1] = session[f]
      BY <1>4, <1>8, <2>2 DEF Totals, Line, Fits
    <3> QED BY <1>7, <2>5, <3>1, <3>2 DEF Precedes, SameSession
  <2>8. ASSUME NEW d \in FxDelta(ls, j) PROVE d \in Calls /\ Precedes(q, d)
    <3>1. d \in ls[j].calls
      BY <1>7
    <3>2. d \in Calls /\ d \in Given(harness) /\ d[1] = session[f]
      BY <1>4, <1>8, <2>2, <3>1 DEF Totals, Line, Fits
    <3>3. Kind(d) = "call" /\ d = <<d[1], d[2]>> /\ d[2] \in Nat /\ q = <<q[1], q[2]>> /\ q[2] \in Nat
      BY <2>5, <3>2, EntryTypes DEF Calls
    <3>4. ASSUME Precedes(d, q) PROVE FALSE
      <4>1. PICK k \in CallLines(ls) : k < c /\ d \in ls[k].calls
        BY <2>4, <3>2, <3>3, <3>4 DEF Parted
      <4>2. k \in FxUsage(ls)
        BY <1>9, <4>1
      <4>3. k \in Nat
        BY <1>5, <4>2
      <4>4. k < j
        BY <2>2, <2>3, <2>4, <4>1, <4>3
      <4>5. FxDelta(ls, j) \cap ls[k].calls = {}
        BY <1>4, <2>2, <4>2, <4>4, DeltasApart
      <4> QED BY <4>1, <4>5
    <3>5. d # q
      BY <2>5, <3>3
    <3>6. ~(d[2] < q[2])
      BY <2>5, <3>2, <3>4 DEF Precedes, SameSession
    <3> QED BY <2>5, <3>2, <3>3, <3>5, <3>6 DEF Precedes, SameSession
  <2> HIDE DEF q
  <2> QED BY <2>6, <2>7, <2>8
<1> HIDE DEF rows, E
<1>12. ASSUME NEW ev \in events', NEW dv \in events', ev.turn, dv.turn, ev.file = dv.file
       PROVE  ev = dv \/ Between(ev, dv)
  <2>1. CASE ev \in events /\ dv \in events
    BY <1>12, <2>1 DEF FxTurnInv
  <2>2. \A old \in events : \A i \in rows : old.file # E(i).file
    BY <1>0, <1>1, <1>6 DEF FxInv
  <2>3. ASSUME NEW i \in rows, NEW j \in rows, ev = E(i), dv = E(j)
        PROVE  ev = dv \/ Between(ev, dv)
    <3>1. i \in Nat /\ j \in Nat /\ ev.calls = FxDelta(ls, i) /\ dv.calls = FxDelta(ls, j) /\ Turn(i) /\ Turn(j)
      BY <1>5, <1>6, <1>12, <2>3
    <3>2. CASE i < j
      BY <1>11, <3>1, <3>2 DEF Between
    <3>3. CASE j < i
      BY <1>11, <3>1, <3>3 DEF Between
    <3> QED BY <2>3, <3>1, <3>2, <3>3
  <2> QED BY <1>3, <1>12, <2>1, <2>2, <2>3
<1> QED BY <1>12 DEF FxTurnInv, Between

LEMMA NextFxTurn ==
    ASSUME CountingInv, CommitInv, FxTurnInv, [Next]_vars
    PROVE  FxTurnInv'
<1>0. TypeInv
  BY DEF CountingInv, WorldInv
<1>1. CASE HarnessStep
  <2>1. UNCHANGED <<harness, events>>
    BY <1>0, <1>1, StepForm DEF reader
  <2>2. harness = "fx" /\ TurnsBlurred => TurnsBlurred'
    BY <1>0, <1>1, BlurStays DEF MarksTurns
  <2> QED BY <2>1, <2>2 DEF FxTurnInv, Between
<1>2. CASE ReaderStep \/ UNCHANGED vars
  <2>1. UNCHANGED <<harness, quirk, session, files, age>>
    BY <1>2, ReaderLeavesWorld
  <2>2. TurnsBlurred' <=> TurnsBlurred
    BY <2>1, BlurTheSame
  <2> SUFFICES ASSUME harness = "fx" PROVE FxTurnInv'
    BY <2>1 DEF FxTurnInv
  <2>3. ASSUME NEW f \in Files, Read(f) PROVE FxTurnInv'
    BY <2>3, ReadKeepsFxTurns
  <2>4. CASE Begin
    <3>1. events' = {}
      BY <2>4 DEF Begin
    <3> QED BY <3>1 DEF FxTurnInv
  <2>5. CASE Select
    BY <2>5 DEF Select
  <2>6. CASE UNCHANGED vars \/ \E f \in Files : Unreadable(f)
    <3>1. events' = events
      BY <2>6 DEF vars, reader, Unreadable
    <3> QED BY <2>2, <3>1 DEF FxTurnInv, Between
  <2> QED BY <1>2, <2>3, <2>4, <2>5, <2>6 DEF ReaderStep
<1> QED BY <1>1, <1>2, NextKinds

-----------------------------------------------------------------------------
(***************************************************************************)
(* Turns: what follows from how each was started.                          *)
(***************************************************************************)
LEMMA LatestPrompt ==
    ASSUME NEW d \in Entries, NEW q \in Prompted(d)
    PROVE  q[2] <= PromptOf(d)[2]
<1> DEFINE S == {p[2] : p \in Prompted(d)}
<1>1. d[2] \in Nat /\ S \in SUBSET (1..d[2]) /\ S # {}
  BY EntryTypes DEF Prompted, Prompts, Precedes
<1>2. PICK m \in S : \A k \in S : k <= m
  BY <1>1, GreatestOf
<1>3. \E p \in Prompted(d) : \A o \in Prompted(d) : o[2] <= p[2]
  BY <1>2
<1> QED BY <1>3 DEF PromptOf

\* Of two calls that a prompt answers, the later has no prompt that the
\* earlier does not.
LEMMA PromptShared ==
    ASSUME NEW p, NEW e \in Entries, NEW d \in Entries, Answers(e, p), Answers(d, p),
           NEW q \in Prompts, Precedes(q, d)
    PROVE  Precedes(q, e)
<1>1. p \in Prompts /\ p[1] = e[1] /\ p[2] < e[2] /\ p[1] = d[1] /\ PromptOf(d) = p
  BY DEF Answers, Prompted, Precedes, SameSession
<1>2. q \in Prompted(d)
  BY DEF Prompted
<1>3. q[2] <= p[2]
  BY <1>1, <1>2, LatestPrompt
<1>4. q[2] \in Nat /\ p[2] \in Nat /\ e[2] \in Nat
  BY <1>1, EntryTypes DEF Prompts
<1> QED BY <1>1, <1>3, <1>4 DEF Precedes, SameSession

LEMMA WholeOnce ==
    ASSUME CountingInv, TurnInv, harness \in Whole, ~TurnsBlurred, NEW p \in Prompts,
           \A e \in Calls : Answers(e, p) => Known(e),
           NEW ev \in StartedBy(p), NEW dv \in StartedBy(p)
    PROVE  ev = dv
<1>0. TypeInv /\ WorldInv /\ KeyedInv /\ harness \in Keyed /\ harness \in Tellers
  BY DEF CountingInv, WorldInv, Whole, Keyed, Transcribed, Tellers
<1>1. ev \in events /\ ev.turn /\ dv \in events /\ dv.turn
  BY DEF StartedBy
<1>2. Started(ev) /\ Started(dv)
  BY <1>1 DEF TurnInv
<1>3. ASSUME NEW sv \in StartedBy(p), Started(sv)
      PROVE  \E l \in Written, q \in Prompts :
                /\ sv.calls = {l.entry} /\ Row(l) /\ l.dated /\ l.entry \in Calls
                /\ Answers(l.entry, p) /\ Precedes(q, l.entry)
                /\ \A k \in Written : Row(k) /\ k.dated /\ Precedes(q, k.entry) => ~Precedes(k.entry, l.entry)
  <2>1. PICK l \in Written, q \in Prompts :
            /\ sv.calls = {l.entry} /\ Row(l) /\ (harness = "kilo" => l.dated) /\ Precedes(q, l.entry)
            /\ \A k \in Written : Row(k) /\ k.dated /\ Precedes(q, k.entry) => ~Precedes(k.entry, l.entry)
    BY <1>3 DEF Started
  <2>2. Answers(l.entry, p)
    BY <2>1 DEF StartedBy
  <2>3. PICK f \in Files : l \in Lines(f)
    BY <1>0, TellersLines
  <2>4. /\ l.entry \in Entries /\ l.calls = {l.entry} /\ Kind(l.entry) = "call"
        /\ harness \notin {"junie", "kilo"} => l.dated
    BY <1>0, <2>1, <2>3, TellersLines DEF Row
  <2>5. l.entry \in Calls
    BY <2>4 DEF Calls
  <2>6. harness = "junie" => l.dated
    BY <2>2, <2>4, <2>5 DEF Known, KnownBy
  <2> QED BY <2>1, <2>2, <2>4, <2>5, <2>6
<1>4. PICK l \in Written, q \in Prompts :
        /\ ev.calls = {l.entry} /\ Row(l) /\ l.dated /\ l.entry \in Calls
        /\ Answers(l.entry, p) /\ Precedes(q, l.entry)
        /\ \A k \in Written : Row(k) /\ k.dated /\ Precedes(q, k.entry) => ~Precedes(k.entry, l.entry)
  BY <1>2, <1>3
<1>5. PICK m \in Written, r \in Prompts :
        /\ dv.calls = {m.entry} /\ Row(m) /\ m.dated /\ m.entry \in Calls
        /\ Answers(m.entry, p) /\ Precedes(r, m.entry)
        /\ \A k \in Written : Row(k) /\ k.dated /\ Precedes(r, k.entry) => ~Precedes(k.entry, m.entry)
  BY <1>2, <1>3
<1>6. l.entry \in Entries /\ m.entry \in Entries
  BY <1>4, <1>5 DEF Calls
<1>7. ~Precedes(m.entry, l.entry)
  BY <1>4, <1>5, <1>6, PromptShared
<1>8. ~Precedes(l.entry, m.entry)
  BY <1>4, <1>5, <1>6, PromptShared
<1>9. l.entry = m.entry
  BY <1>4, <1>5, <1>6, <1>7, <1>8, EntryTypes DEF Answers, Prompted, Precedes, SameSession
<1>10. Known(l.entry) /\ ev \in CountsOf(l.entry) /\ dv \in CountsOf(l.entry)
  BY <1>1, <1>4, <1>5, <1>9 DEF CountsOf
<1> QED BY <1>0, <1>4, <1>10, KeyedOnce

LEMMA QwenOnce ==
    ASSUME CountingInv, QwenInv, harness = "qwen", ~TurnsBlurred, NEW p \in Prompts,
           \A e \in Calls : Answers(e, p) => Known(e),
           NEW ev \in StartedBy(p), NEW dv \in StartedBy(p)
    PROVE  ev = dv
<1>0. TypeInv /\ WorldInv /\ KeyedInv /\ harness \in Keyed
  BY DEF CountingInv, WorldInv, Keyed, Transcribed
<1>1. ev \in events /\ ev.turn /\ dv \in events /\ dv.turn
  BY DEF StartedBy
<1>2. Asked(ev) /\ Asked(dv)
  BY <1>1 DEF QwenInv
<1>3. PICK e \in Given(harness), q \in Prompts :
        /\ ev.calls = {e} /\ Precedes(q, e)
        /\ \A sv \in events : \A d \in sv.calls : Precedes(q, d) => ~Precedes(d, e)
  BY <1>2 DEF Asked
<1>4. PICK d \in Given(harness), r \in Prompts :
        /\ dv.calls = {d} /\ Precedes(r, d)
        /\ \A sv \in events : \A c \in sv.calls : Precedes(r, c) => ~Precedes(c, d)
  BY <1>2 DEF Asked
<1>5. Answers(e, p) /\ Answers(d, p)
  BY <1>3, <1>4 DEF StartedBy
<1>6. e \in Calls /\ d \in Calls /\ e \in Entries /\ d \in Entries
  <2>1. \A sv \in events : \E l : sv.calls = {l.entry} /\ l.entry \in Calls
    BY QwenFromLines
  <2>2. Calls \subseteq Entries
    BY EntryTypes
  <2> QED BY <1>1, <1>3, <1>4, <2>1, <2>2
<1>7. ~Precedes(e, d) /\ ~Precedes(d, e)
  BY <1>1, <1>3, <1>4, <1>5, <1>6, PromptShared
<1>8. e = d
  BY <1>5, <1>6, <1>7, EntryTypes DEF Answers, Prompted, Precedes, SameSession
<1>9. Known(e) /\ ev \in CountsOf(e) /\ dv \in CountsOf(e)
  BY <1>1, <1>3, <1>4, <1>5, <1>6, <1>8 DEF CountsOf
<1> QED BY <1>0, <1>6, <1>9, KeyedOnce

LEMMA FxTurnOnce ==
    ASSUME CountingInv, FxTurnInv, harness = "fx", ~TurnsBlurred, NEW p \in Prompts,
           NEW ev \in StartedBy(p), NEW dv \in StartedBy(p)
    PROVE  ev = dv
<1>0. TypeInv /\ LogInv /\ FxInv
  BY DEF CountingInv, WorldInv
<1>1. ev \in events /\ ev.turn /\ dv \in events /\ dv.turn
  BY DEF StartedBy
<1>2. PICK e \in ev.calls : Answers(e, p)
  BY DEF StartedBy
<1>3. PICK d \in dv.calls : Answers(d, p)
  BY DEF StartedBy
<1>4. ev.session = dv.session
  BY <1>0, <1>1, <1>2, <1>3 DEF FxInv, Answers, Prompted, Precedes, SameSession
<1>5. ev.file = dv.file
  BY <1>0, <1>1, <1>4 DEF FxInv, LogInv
<1> SUFFICES ASSUME Between(ev, dv) PROVE FALSE
  BY <1>1, <1>5 DEF FxTurnInv
<1>6. PICK q \in Prompts :
        /\ e \in Calls /\ d \in Calls
        /\ (Precedes(e, q) /\ Precedes(q, d)) \/ (Precedes(d, q) /\ Precedes(q, e))
  BY DEF Between
<1>7. e \in Entries /\ d \in Entries
  BY <1>6 DEF Calls
<1>8. e[2] \in Nat /\ d[2] \in Nat /\ q[2] \in Nat
  BY <1>7, EntryTypes DEF Prompts
<1>9. CASE Precedes(e, q) /\ Precedes(q, d)
  <2>1. Precedes(q, e)
    BY <1>2, <1>3, <1>7, <1>9, PromptShared
  <2> QED BY <1>8, <1>9, <2>1 DEF Precedes
<1>10. CASE Precedes(d, q) /\ Precedes(q, e)
  <2>1. Precedes(q, d)
    BY <1>2, <1>3, <1>7, <1>10, PromptShared
  <2> QED BY <1>8, <1>10, <2>1 DEF Precedes
<1> QED BY <1>6, <1>9, <1>10

LEMMA OneTurn ==
    ASSUME CountingInv, TurnInv, QwenInv, FxTurnInv
    PROVE  OneTurnAPrompt
<1> SUFFICES ASSUME harness \in MarksTurns, ~TurnsBlurred, NEW p \in Prompts,
                    \A e \in Calls : Answers(e, p) => Known(e)
             PROVE  Cardinality(StartedBy(p)) <= 1
  BY DEF OneTurnAPrompt
<1>1. ASSUME NEW ev \in StartedBy(p), NEW dv \in StartedBy(p) PROVE ev = dv
  <2>1. harness \in Whole \/ harness = "qwen" \/ harness = "fx"
    BY DEF MarksTurns, Whole
  <2> QED BY <2>1, WholeOnce, QwenOnce, FxTurnOnce
<1>2. CASE StartedBy(p) = {}
  BY <1>2, FS_EmptySet
<1>3. CASE StartedBy(p) # {}
  <2>1. PICK ev \in StartedBy(p) : TRUE
    BY <1>3
  <2>2. StartedBy(p) = {ev}
    BY <1>1
  <2> QED BY <2>2, FS_Singleton
<1> QED BY <1>2, <1>3

LEMMA FirstStarts ==
    ASSUME CountingInv, EvenInv, TurnInv, QwenInv
    PROVE  FirstCallStarts
<1> SUFFICES ASSUME harness \in MarksTurns \ {"amp", "fx"}, odd = 0, ~TurnsBlurred,
                    NEW ev \in events, ev.turn, NEW e \in ev.calls, NEW d \in Calls,
                    Prompted(d) = Prompted(e), Precedes(d, e), NEW dv \in CountsOf(d)
             PROVE  FALSE
  BY DEF FirstCallStarts
<1>0. TypeInv /\ KeyedInv /\ dv \in events /\ d \in dv.calls
  BY DEF CountingInv, WorldInv, CountsOf
<1>1. CASE harness = "qwen"
  <2>1. PICK c \in Given(harness), q \in Prompts :
            /\ ev.calls = {c} /\ Precedes(q, c)
            /\ \A sv \in events : \A b \in sv.calls : Precedes(q, b) => ~Precedes(b, c)
    BY <1>1 DEF QwenInv, Asked
  <2>2. c = e /\ q \in Prompted(d)
    BY <2>1 DEF Prompted
  <2> QED BY <1>0, <2>1, <2>2 DEF Prompted
<1>2. CASE harness \in Whole
  <2>1. PICK l \in Written, q \in Prompts :
            /\ ev.calls = {l.entry} /\ Precedes(q, l.entry)
            /\ \A k \in Written : Row(k) /\ k.dated /\ Precedes(q, k.entry) => ~Precedes(k.entry, l.entry)
    BY <1>2 DEF TurnInv, Started
  <2>2. l.entry = e /\ Precedes(q, d)
    BY <2>1 DEF Prompted
  <2>3. harness \in Tellers \ {"amp"} /\ harness \in Keyed /\ AllNamed
    BY <1>2 DEF Tellers, Whole, Keyed, Transcribed, AllNamed
  <2>4. FromLine(dv)
    BY <1>0, <2>3 DEF KeyedInv, Accounted
  <2>5. PICK k \in Written : dv.calls = k.calls /\ k.kind \in {"call", "record"}
    BY <2>4 DEF FromLine
  <2>6. PICK f \in Files : k \in Lines(f)
    BY <1>0, <2>3, TellersLines
  <2>7. k.calls = {k.entry}
    BY <1>0, <2>3, <2>5, <2>6, TellersLines
  <2>8. k.kind = "call"
    <3>1. k.kind \in KindsOf(harness)
      BY <1>0, <2>6, InLines DEF Fits
    <3> QED BY <1>2, <2>3, <2>5, <3>1 DEF KindsOf, KeepsLedger, Whole
  <2>9. Row(k) /\ k.dated
    <3>1. k.cell = "good" /\ k.dated
      BY <2>3 DEF EvenInv
    <3> QED BY <2>8, <3>1 DEF Row, Cells
  <2>10. k.entry = d
    BY <1>0, <2>5, <2>7
  <2> QED BY <2>1, <2>2, <2>9, <2>10
<1> QED BY <1>1, <1>2 DEF MarksTurns, Whole

LEMMA InitTurns == Init => TurnsInv
<1> SUFFICES ASSUME Init PROVE TurnsInv
  OBVIOUS
<1>1. CountingInv
  BY InitCounting
<1>2. todo = {} /\ events = {} /\ carried = {} /\ odd = 0 /\ \A f \in Files : files[f] = <<>>
  BY DEF Init
<1>3. /\ \A l : l \notin Written
      /\ \A f \in Files : \A l : l \notin Lines(f)
  BY <1>2 DEF Written, Lines
<1>4. \A d : ~Logged(d)
  BY <1>3 DEF Logged
<1>5. OrderInv /\ EvenInv
  BY <1>2, <1>3, <1>4 DEF OrderInv, EvenInv
<1>6. TurnInv /\ QwenInv /\ FxTurnInv
  BY <1>2 DEF TurnInv, QwenInv, FxTurnInv
<1>7. CommitInv
  <2>1. \A f \in Files : CallLines(files[f]) = {} /\ CommitLines(files[f]) = {}
    BY <1>2 DEF CallLines, CommitLines
  <2> QED BY <2>1 DEF CommitInv
<1> QED BY <1>1, <1>5, <1>6, <1>7 DEF TurnsInv

LEMMA NextTurns == TurnsInv /\ [Next]_vars => TurnsInv'
<1> SUFFICES ASSUME TurnsInv, [Next]_vars PROVE TurnsInv'
  OBVIOUS
<1>1. /\ CountingInv /\ OrderInv /\ EvenInv /\ TurnInv /\ QwenInv /\ CommitInv /\ FxTurnInv
      /\ TypeInv /\ LogInv
  BY DEF TurnsInv, CountingInv, WorldInv
<1>2. CountingInv'
  BY <1>1, NextCounting
<1>3. OrderInv' /\ EvenInv'
  BY <1>1, NextOrder
<1>4. TurnInv'
  BY <1>1, NextTurn DEF EvenInv
<1>5. QwenInv'
  BY <1>1, NextQwen
<1>6. CommitInv' /\ FxTurnInv'
  BY <1>1, NextCommit, NextFxTurn
<1> QED BY <1>2, <1>3, <1>4, <1>5, <1>6 DEF TurnsInv

\* Whatever the harness does while the reader goes through its files, a prompt
\* starts one turn at most, if no line was blurred and its calls are ones the
\* reader knows: Transcripts' OneTurnAPrompt.
THEOREM PromptsStartATurn == Spec => []OneTurnAPrompt
<1>1. Init => TurnsInv
  BY InitTurns
<1>2. TurnsInv /\ [Next]_vars => TurnsInv'
  BY NextTurns
<1>3. TurnsInv => OneTurnAPrompt
  BY OneTurn DEF TurnsInv
<1> QED BY <1>1, <1>2, <1>3, PTL DEF Spec

\* ... and where no line is odd, with the first of its calls that is counted:
\* Transcripts' FirstCallStarts.
THEOREM FirstCallsStart == Spec => []FirstCallStarts
<1>1. Init => TurnsInv
  BY InitTurns
<1>2. TurnsInv /\ [Next]_vars => TurnsInv'
  BY NextTurns
<1>3. TurnsInv => FirstCallStarts
  BY FirstStarts DEF TurnsInv
<1> QED BY <1>1, <1>2, <1>3, PTL DEF Spec

-----------------------------------------------------------------------------
(***************************************************************************)
(* What was in a file when it was listed.                                  *)
(***************************************************************************)
LEMMA SnapLine ==
    ASSUME TypeInv, SnapInv, harness \in Snapshots, NEW f \in Files, files[f] # <<>>
    PROVE  /\ Len(files[f]) = 1 /\ DOMAIN files[f] = {1}
           /\ files[f] = <<files[f][1]>> /\ Lines(f) = {files[f][1]}
           /\ files[f][1] \in Line /\ files[f][1].kind = "call" /\ Fits(files[f][1], session[f])
           /\ files[f][1].full /\ files[f][1].named
<1>1. files[f] \in Seq(Line) /\ Len(files[f]) <= 1
  BY DEF TypeInv, SnapInv
<1>2. Len(files[f]) = 1 /\ DOMAIN files[f] = {1}
  <2>1. Len(files[f]) \in Nat /\ DOMAIN files[f] = 1..Len(files[f]) /\ (Len(files[f]) = 0 => files[f] = <<>>)
    BY <1>1
  <2>2. \A n \in Nat : n <= 1 /\ n # 0 => n = 1 /\ 1..n = {1}
    OBVIOUS
  <2> QED BY <1>1, <2>1, <2>2
<1>3. files[f] = <<files[f][1]>> /\ files[f][1] \in Line /\ Lines(f) = {files[f][1]}
  BY <1>1, <1>2 DEF Lines
<1>4. Fits(files[f][1], session[f])
  BY <1>2 DEF TypeInv
<1>5. files[f][1].kind \in {"prompt", "commit", "call"}
  BY <1>4 DEF Fits, KindsOf, Snapshots, KeepsLedger
<1>6. Given(harness) \subseteq Calls
  BY GivenTypes DEF TypeInv
<1>7. files[f][1].kind = "call"
  BY <1>4, <1>5, <1>6 DEF Fits, Marks, Calls
<1> QED BY <1>2, <1>3, <1>4, <1>7 DEF Fits, Snapshots, Streams, MayLackId

LEMMA SnapLog ==
    ASSUME TypeInv, SnapInv, harness \in Snapshots, NEW f \in Files, NEW e \in Entries, Log(f, e)
    PROVE  \E l \in Line :
              /\ files' = [files EXCEPT ![f] = <<l>>] /\ session' = [session EXCEPT ![f] = e[1]]
              /\ session[f] \in {0, e[1]} /\ l.entry = e
              /\ \/ files[f] = <<>> /\ l.calls = {e}
                 \/ /\ files[f] # <<>> /\ l.calls = {e} \cup files[f][1].calls
                    /\ l.cell \in {"good", "bad"}
<1>1. e \in Given(harness) /\ Follows(e, f)
  BY DEF Log
<1>2. PICK l \in LinesFor(e, f) :
        files' = [files EXCEPT ![f] = IF harness \in Snapshots THEN <<l>> ELSE Append(files[f], l)]
  BY DEF Log, Rewritten
<1>3. session' = [session EXCEPT ![f] = e[1]] /\ session[f] \in {0, e[1]}
  BY <1>1 DEF Log, Follows
<1>4. l \in LinesOf(e, f) /\ (files[f] # <<>> => l.cell \in {"good", "bad"})
  BY DEF LinesFor
<1>5. Kind(e) # "prompt"
  BY <1>1, GivenTypes DEF TypeInv, Calls
<1>6. l.entry = e
  BY <1>4 DEF LinesOf
<1>7. l.calls \in {{e} \cup total : total \in LastTotal(f)} \cup (IF files[f] = <<>> THEN {{e}} ELSE {})
  BY <1>4, <1>5 DEF LinesOf, Snapshots
<1>8. PICK k \in Line : Adds(f, k)
  BY LogForm
<1>9. files'[f] = <<l>> /\ files'[f] = <<k>>
  BY <1>2, <1>8 DEF Adds, TypeInv
<1>10. l \in Line
  BY <1>9
<1>11. files[f] = <<>> => LastTotal(f) = {}
  BY DEF LastTotal
<1>12. files[f] # <<>> => LastTotal(f) = {files[f][1].calls}
  <2> SUFFICES ASSUME files[f] # <<>> PROVE LastTotal(f) = {files[f][1].calls}
    OBVIOUS
  <2>1. DOMAIN files[f] = {1} /\ files[f][1].kind = "call"
    BY SnapLine
  <2>2. {j \in DOMAIN files[f] : /\ files[f][j].kind = "call"
                                 /\ \A k2 \in DOMAIN files[f] : k2 > j => files[f][k2].kind # "call"} = {1}
    BY <2>1
  <2> QED BY <2>2 DEF LastTotal
<1>13. files[f] = <<>> => l.calls = {e}
  BY <1>7, <1>11
<1>14. files[f] # <<>> => l.calls = {e} \cup files[f][1].calls
  BY <1>7, <1>12
<1> QED BY <1>2, <1>3, <1>4, <1>6, <1>10, <1>13, <1>14

LEMMA SnapSteps ==
    ASSUME TypeInv, SnapInv, harness \in Snapshots, HarnessStep
    PROVE  \E f \in Files : (\E e \in Entries : Log(f, e)) \/ \E g \in Files : Copy(f, g) /\ Moves(f, g)
<1>1. ASSUME NEW f \in Files, Finish(f) PROVE FALSE
  <2>1. files[f] \in Seq(Line) /\ files[f] # <<>> /\ ~LastOf(f).full
    BY <1>1 DEF Finish, TypeInv
  <2>2. LastOf(f) \in Lines(f)
    BY <2>1 DEF LastOf, Lines
  <2>3. Fits(LastOf(f), session[f])
    BY <2>2, InLines
  <2> QED BY <2>1, <2>3 DEF Fits, Streams, Snapshots
<1>2. \A f \in Files : ~Ledger(f) /\ ~Telemetry(f) /\ ~Replay(f)
  BY DEF Ledger, Telemetry, Replay, Replays, Snapshots
<1>3. \A f, g \in Files : Copy(f, g) => Moves(f, g)
  BY DEF Copy, Moves
<1> QED BY <1>1, <1>2, <1>3 DEF HarnessStep

\* Where files are not moved away nor rewritten, they grow; snapshots do too.
LEMMA LinesGrow ==
    ASSUME TypeInv, HarnessStep, harness \notin Rotates \cup Snapshots, NEW f \in Files
    PROVE  /\ session[f] # 0 => session'[f] = session[f]
           /\ \A i \in DOMAIN files[f] : i \in DOMAIN files'[f] /\ files'[f][i] = files[f][i]
           /\ Lines(f) \subseteq Lines(f)'
<1>1. ASSUME NEW g \in Files, NEW l \in Line, Adds(g, l)
      PROVE  /\ session[f] # 0 => session'[f] = session[f]
             /\ \A i \in DOMAIN files[f] : i \in DOMAIN files'[f] /\ files'[f][i] = files[f][i]
  <2>1. CASE f = g
    BY <1>1, <2>1, AfterAdds DEF Adds
  <2>2. CASE f # g
    BY <1>1, <2>2, AfterAdds
  <2> QED BY <2>1, <2>2
<1>2. ASSUME NEW g \in Files, NEW h \in Files, Moves(g, h)
      PROVE  /\ session[f] # 0 => session'[f] = session[f]
             /\ \A i \in DOMAIN files[f] : i \in DOMAIN files'[f] /\ files'[f][i] = files[f][i]
  <2>1. /\ files[h] = <<>> /\ session[h] = 0
        /\ files'[g] = files[g] /\ session'[g] = session[g]
        /\ \A k \in Files \ {g, h} : files'[k] = files[k] /\ session'[k] = session[k]
    BY <1>2, AfterMoves DEF Moves
  <2> QED BY <2>1
<1>3. /\ session[f] # 0 => session'[f] = session[f]
      /\ \A i \in DOMAIN files[f] : i \in DOMAIN files'[f] /\ files'[f][i] = files[f][i]
  BY <1>1, <1>2, StepForm
<1> QED BY <1>3 DEF Lines

LEMMA SnapGrow ==
    ASSUME TypeInv, SnapInv, HarnessStep, harness \in Snapshots, NEW f \in Files
    PROVE  /\ session[f] # 0 => session'[f] = session[f]
           /\ Knowable(f) \subseteq Knowable(f)'
           /\ Len(files'[f]) <= 1 /\ (session'[f] # 0 => files'[f] # <<>>)
<1>1. ASSUME NEW g \in Files, NEW e \in Entries, Log(g, e)
      PROVE  /\ session[f] # 0 => session'[f] = session[f]
             /\ Knowable(f) \subseteq Knowable(f)'
             /\ Len(files'[f]) <= 1 /\ (session'[f] # 0 => files'[f] # <<>>)
  <2>1. PICK l \in Line :
              /\ files' = [files EXCEPT ![g] = <<l>>] /\ session' = [session EXCEPT ![g] = e[1]]
              /\ session[g] \in {0, e[1]} /\ l.entry = e
              /\ \/ files[g] = <<>> /\ l.calls = {e}
                 \/ /\ files[g] # <<>> /\ l.calls = {e} \cup files[g][1].calls
                    /\ l.cell \in {"good", "bad"}
    BY <1>1, SnapLog
  <2>2. CASE f # g
    <3>1. files'[f] = files[f] /\ session'[f] = session[f]
      BY <2>1, <2>2 DEF TypeInv
    <3> QED BY <3>1 DEF Knowable, Lines, SnapInv
  <2>3. CASE f = g
    <3>1. files'[f] = <<l>> /\ session'[f] = e[1]
      BY <2>1, <2>3 DEF TypeInv
    <3>2. Lines(f)' = {l} /\ Len(files'[f]) <= 1 /\ files'[f] # <<>>
      BY <3>1 DEF Lines
    <3>3. CASE files[f] = <<>>
      <4>1. Knowable(f) = {}
        BY <3>3 DEF Knowable, Lines
      <4> QED BY <2>1, <2>3, <3>1, <3>2, <4>1
    <3>4. CASE files[f] # <<>>
      <4>1. Lines(f) = {files[f][1]}
        BY <3>4, SnapLine
      <4>2. Knowable(f) \subseteq l.calls /\ l.cell \in {"good", "bad", "torn"}
        BY <2>1, <2>3, <3>4, <4>1 DEF Knowable
      <4>3. Knowable(f)' = l.calls
        BY <3>2, <4>2 DEF Knowable
      <4> QED BY <2>1, <2>3, <3>1, <3>2, <4>2, <4>3
    <3> QED BY <3>3, <3>4
  <2> QED BY <2>2, <2>3
<1>2. ASSUME NEW g \in Files, NEW h \in Files, Moves(g, h)
      PROVE  /\ session[f] # 0 => session'[f] = session[f]
             /\ Knowable(f) \subseteq Knowable(f)'
             /\ Len(files'[f]) <= 1 /\ (session'[f] # 0 => files'[f] # <<>>)
  <2>1. /\ files[h] = <<>> /\ session[h] = 0 /\ session[g] # 0
        /\ files'[g] = files[g] /\ session'[g] = session[g]
        /\ files'[h] = files[g] /\ session'[h] = session[g]
        /\ \A k \in Files \ {g, h} : files'[k] = files[k] /\ session'[k] = session[k]
    BY <1>2, AfterMoves DEF Moves, Rotates, Snapshots
  <2>2. CASE f = h
    <3>1. Knowable(f) = {}
      BY <2>1, <2>2 DEF Knowable, Lines
    <3> QED BY <2>1, <2>2, <3>1 DEF SnapInv
  <2>3. CASE f # h
    <3>1. files'[f] = files[f] /\ session'[f] = session[f]
      BY <2>1, <2>3
    <3> QED BY <3>1 DEF Knowable, Lines, SnapInv
  <2> QED BY <2>2, <2>3
<1> QED BY <1>1, <1>2, SnapSteps

LEMMA KnowableGrows ==
    ASSUME TypeInv, SnapInv, HarnessStep, harness \notin Rotates, NEW f \in Files
    PROVE  (session[f] # 0 => session'[f] = session[f]) /\ Knowable(f) \subseteq Knowable(f)'
<1>1. CASE harness \in Snapshots
  BY <1>1, SnapGrow
<1>2. CASE harness \notin Snapshots
  <2>1. (session[f] # 0 => session'[f] = session[f]) /\ Lines(f) \subseteq Lines(f)'
    BY <1>2, LinesGrow
  <2>2. \A l \in Lines(f) : l.cell \in {"good", "bad", "torn"} => l.calls \subseteq Knowable(f)'
    BY <2>1 DEF Knowable
  <2>3. Knowable(f) \subseteq Knowable(f)'
    BY <2>2 DEF Knowable
  <2> QED BY <2>1, <2>3
<1> QED BY <1>1, <1>2

LEMMA KnowableCalls ==
    ASSUME TypeInv, NEW f \in Files
    PROVE  /\ Knowable(f) \subseteq Calls
           /\ session[f] = 0 => Knowable(f) = {}
           /\ \A e \in Knowable(f) : \E i \in DOMAIN files[f] :
                    files[f][i].cell \in {"good", "bad", "torn"} /\ e \in files[f][i].calls
<1>1. ASSUME NEW e \in Knowable(f)
      PROVE  \E i \in DOMAIN files[f] : files[f][i].cell \in {"good", "bad", "torn"} /\ e \in files[f][i].calls
  BY DEF Knowable, Lines
<1>2. \A i \in DOMAIN files[f] : files[f][i] \in Line
  BY DEF TypeInv
<1>3. session[f] = 0 => DOMAIN files[f] = {}
  BY DEF TypeInv
<1> QED BY <1>1, <1>2, <1>3 DEF Line

LEMMA NextListed ==
    ASSUME TypeInv, SnapInv, HeldInv, [Next]_vars
    PROVE  SnapInv' /\ HeldInv'
<1>1. CASE HarnessStep
  <2>1. harness' = harness /\ todo' = todo /\ held' = held /\ done' = done
    BY <1>1, StepForm DEF reader
  <2>2. SnapInv'
    BY <1>1, <2>1, SnapGrow DEF SnapInv
  <2>3. ASSUME harness \notin Rotates, NEW f \in Files
        PROVE  held[f] \subseteq Knowable(f)' /\ (session[f] # 0 => session'[f] # 0)
    <3>1. held[f] \subseteq Knowable(f)
      BY <2>3 DEF HeldInv
    <3>2. (session[f] # 0 => session'[f] = session[f]) /\ Knowable(f) \subseteq Knowable(f)'
      BY <1>1, <2>3, KnowableGrows
    <3> QED BY <3>1, <3>2
  <2> QED BY <2>1, <2>2, <2>3 DEF HeldInv
<1>2. CASE ReaderStep \/ UNCHANGED vars
  <2>1. UNCHANGED <<harness, session, files>>
    BY <1>2, ReaderLeavesWorld
  <2>2. \A f : Knowable(f)' = Knowable(f)
    BY <2>1 DEF Knowable, Lines
  <2>3. SnapInv'
    BY <2>1 DEF SnapInv
  <2>4. CASE Begin
    <3>1. todo' = {f \in Files : session[f] # 0} /\ held' = [f \in Files |-> Knowable(f)] /\ ~done'
      BY <2>4 DEF Begin
    <3>2. held' \in [Files -> SUBSET Calls]
      BY <3>1, KnowableCalls
    <3> QED BY <2>1, <2>2, <2>3, <3>1, <3>2 DEF HeldInv
  <2>5. CASE ~Begin
    <3>1. todo' \subseteq todo /\ held' = held
      BY <1>2, <2>5 DEF ReaderStep, Select, Read, Unreadable, Past, vars, reader
    <3>2. done' => todo' = {}
      BY <1>2, <2>5 DEF ReaderStep, Select, Read, Unreadable, Past, vars, reader, HeldInv
    <3> QED BY <2>1, <2>2, <2>3, <3>1, <3>2 DEF HeldInv
  <2> QED BY <2>4, <2>5
<1> QED BY <1>1, <1>2, NextKinds

LEMMA FilesAre == Files \subseteq Int
<1>1. Files = 1..Cardinality(Files)
  BY TranscriptsAssumption
<1>2. \A n : 1..n \subseteq Int
  OBVIOUS
<1> QED BY <1>1, <1>2

LEMMA AgreeSteps ==
    ASSUME TypeInv, harness \in Agreeing \cup Rotates, HarnessStep
    PROVE  \E f \in Files : (\E e \in Entries : Log(f, e)) \/ \E g \in Files : Copy(f, g) /\ Moves(f, g)
<1>1. ASSUME NEW f \in Files, Finish(f) PROVE FALSE
  <2>1. files[f] \in Seq(Line) /\ files[f] # <<>> /\ ~LastOf(f).full
    BY <1>1 DEF Finish, TypeInv
  <2>2. LastOf(f) \in Lines(f)
    BY <2>1 DEF LastOf, Lines
  <2>3. Fits(LastOf(f), session[f])
    BY <2>2, InLines
  <2> QED BY <2>1, <2>3 DEF Fits, Streams, Agreeing, Rotates
<1>2. \A f \in Files : ~Ledger(f) /\ ~Telemetry(f) /\ ~Replay(f)
  BY DEF Ledger, Telemetry, Replay, Replays, Agreeing, Rotates
<1>3. \A f, g \in Files : Copy(f, g) => Moves(f, g)
  BY DEF Copy, Moves
<1> QED BY <1>1, <1>2, <1>3 DEF HarnessStep

LEMMA LogKeepsAgree ==
    ASSUME TypeInv, AgreeInv, harness \in Agreeing, NEW f \in Files, NEW e \in Entries, Log(f, e)
    PROVE  AgreeInv'
<1>1. /\ e \in Given(harness) /\ Follows(e, f) /\ ~Logged(e) /\ harness' = harness
      /\ harness = "deepseek" => \A g \in Files : g < f => session[g] # e[1]
  BY DEF Log, Follows, Rewritten
<1>2. PICK l \in Line : Adds(f, l) /\ l.entry = e
  BY LogForm
<1>3. harness \notin Snapshots /\ harness \notin SpansFiles
  BY DEF Agreeing, Snapshots, SpansFiles
<1> DEFINE n == Len(files[f]) + 1
<1>4. /\ session'[f] = e[1] /\ session[f] \in {0, e[1]}
      /\ \A g \in Files \ {f} : files'[g] = files[g] /\ session'[g] = session[g]
      /\ DOMAIN files'[f] = 1..n /\ DOMAIN files[f] = 1..Len(files[f]) /\ files'[f][n] = l
      /\ Len(files[f]) \in Nat
      /\ \A i \in DOMAIN files[f] : i \in DOMAIN files'[f] /\ files'[f][i] = files[f][i]
  <2>1. files[f] \in Seq(Line)
    BY DEF TypeInv
  <2>2. files'[f] = Append(files[f], l)
    BY <1>2, <1>3, AfterAdds
  <2>3. /\ DOMAIN files'[f] = 1..n /\ DOMAIN files[f] = 1..Len(files[f]) /\ files'[f][n] = l
        /\ Len(files[f]) \in Nat
    BY <2>1, <2>2
  <2>4. /\ session'[f] = e[1] /\ session[f] \in {0, e[1]}
        /\ \A g \in Files \ {f} : files'[g] = files[g] /\ session'[g] = session[g]
        /\ \A i \in DOMAIN files[f] : i \in DOMAIN files'[f] /\ files'[f][i] = files[f][i]
    <3>1. session[f] \in {0, e[1]}
      BY <1>2 DEF Adds
    <3>2. \A i \in DOMAIN files[f] : i \in DOMAIN files'[f] /\ files'[f][i] = files[f][i]
      BY <1>2, <1>3, AfterAdds
    <3>3. session'[f] = e[1] /\ \A g \in Files \ {f} : files'[g] = files[g] /\ session'[g] = session[g]
      BY <1>2, AfterAdds
    <3> QED BY <3>1, <3>2, <3>3
  <2> QED BY <2>3, <2>4
<1>5. ASSUME NEW g \in Files, NEW i \in DOMAIN files[g], session[g] = e[1]
      PROVE  /\ files[g][i].entry \in Given(harness) /\ Logged(files[g][i].entry)
             /\ Precedes(files[g][i].entry, e)
  <2> DEFINE d == files[g][i].entry
  <2>1. d \in Given(harness) /\ d[1] = e[1]
    BY <1>5 DEF TypeInv, Fits
  <2>2. Logged(d)
    BY WrittenAt DEF Logged
  <2>3. d \in Entries /\ d = <<d[1], d[2]>> /\ d[2] \in Nat /\ e = <<e[1], e[2]>> /\ e[2] \in Nat
    BY <2>1, GivenTypes, EntryTypes DEF TypeInv
  <2>4. ~Precedes(e, d)
    BY <1>1, <2>1, <2>2 DEF AgreeInv
  <2>5. d # e
    BY <1>1, <2>2
  <2>6. d[2] < e[2]
    BY <2>1, <2>3, <2>4, <2>5 DEF Precedes, SameSession
  <2> QED BY <2>1, <2>2, <2>6 DEF Precedes, SameSession
<1>6. ASSUME NEW g \in Files, session[g] = e[1] PROVE n \notin DOMAIN files[g]
  <2> SUFFICES ASSUME n \in DOMAIN files[g] PROVE FALSE
    OBVIOUS
  <2> DEFINE d == files[g][n].entry
  <2>1. d \in Given(harness) /\ Precedes(d, e)
    BY <1>5, <1>6
  <2>2. {b \in Given(harness) : Precedes(b, e)} # {}
    BY <2>1
  <2>3. \/ session[f] = e[1] /\ \E k \in Lines(f) : \A b \in {b \in Given(harness) : Precedes(b, e)} : b[2] <= k.entry[2]
        \/ session[f] = 0 /\ ({b \in Given(harness) : Precedes(b, e)} = {} \/ harness \in SpansFiles)
    BY <1>1 DEF Follows
  <2>4. session[f] = e[1] /\ \E k \in Lines(f) : d[2] <= k.entry[2]
    BY <1>3, <2>1, <2>2, <2>3
  <2>5. PICK m \in DOMAIN files[f] : d[2] <= files[f][m].entry[2]
    BY <2>4 DEF Lines
  <2>6. m \in DOMAIN files[g] /\ m < n
    <3>1. files[g] \in Seq(Line)
      BY DEF TypeInv
    <3>2. DOMAIN files[g] = 1..Len(files[g]) /\ Len(files[g]) \in Nat
      BY <3>1
    <3> QED BY <1>4, <3>2
  <2>7. files[g][m] = files[f][m]
    BY <1>6, <2>4, <2>6 DEF AgreeInv
  <2>8. Precedes(files[g][m].entry, d)
    BY <2>6 DEF AgreeInv
  <2>9. d[2] \in Nat /\ files[g][m].entry[2] \in Nat
    <3>1. files[g][m].entry \in Given(harness)
      BY <2>6 DEF TypeInv, Fits
    <3> QED BY <2>1, <3>1, GivenTypes, EntryTypes DEF TypeInv
  <2> QED BY <2>5, <2>7, <2>8, <2>9 DEF Precedes
<1>7. session[f] = 0 => DOMAIN files[f] = {}
  BY DEF TypeInv
<1>8. Written \subseteq Written'
  BY <1>3, <1>4, WrittenAt, WrittenAtNext
<1>9. \A b : Logged(b) => Logged(b)'
  BY <1>8 DEF Logged
<1>10. \A b : Logged(b)' => Logged(b) \/ b = e
  <2>1. ASSUME NEW k \in Written' PROVE k \in Written \/ k = l
    <3>1. PICK g \in Files : \E i \in DOMAIN files'[g] : k = files'[g][i]
      BY WrittenAtNext
    <3>2. PICK i \in DOMAIN files'[g] : k = files'[g][i]
      BY <3>1
    <3>3. CASE g # f
      BY <1>4, <3>2, <3>3, WrittenAt
    <3>4. CASE g = f /\ i # n
      <4>1. i \in DOMAIN files[f]
        BY <1>4, <3>4
      <4> QED BY <1>4, <3>2, <3>4, <4>1, WrittenAt
    <3>5. CASE g = f /\ i = n
      BY <1>4, <3>2, <3>5
    <3> QED BY <3>3, <3>4, <3>5
  <2>2. l.calls \subseteq {e}
    <3>1. Fits(l, e[1])
      BY <1>2 DEF Adds
    <3>2. l.kind \notin {"agent"}
      BY <3>1 DEF Fits, KindsOf, KeepsLedger, Agreeing
    <3> QED BY <1>2, <3>1, <3>2 DEF Fits, Totalled, Snapshots, Agreeing
  <2> QED BY <1>2, <2>1, <2>2 DEF Logged
<1>11. \A d, b \in Given(harness) : Precedes(d, b) /\ Logged(b)' => Logged(d)'
  <2>1. \A d \in Given(harness) : Precedes(d, e) => Logged(d)
    BY <1>1 DEF Follows
  <2>2. \A d, b \in Given(harness) : Precedes(d, b) /\ Logged(b) => Logged(d)
    BY DEF AgreeInv
  <2> QED BY <1>9, <1>10, <2>1, <2>2
<1>12. ASSUME NEW g \in Files, NEW i \in DOMAIN files'[g], NEW j \in DOMAIN files'[g], i < j
       PROVE  Precedes(files'[g][i].entry, files'[g][j].entry)
  <2>1. CASE g # f
    BY <1>4, <1>12, <2>1 DEF AgreeInv
  <2>2. CASE g = f /\ j # n
    <3>1. i \in DOMAIN files[f] /\ j \in DOMAIN files[f]
      BY <1>4, <1>12, <2>2
    <3> QED BY <1>4, <1>12, <2>2, <3>1 DEF AgreeInv
  <2>3. CASE g = f /\ j = n
    <3>1. i \in DOMAIN files[f]
      BY <1>4, <1>12, <2>3
    <3>2. session[f] = e[1]
      BY <1>4, <1>7, <3>1
    <3> QED BY <1>2, <1>4, <1>5, <2>3, <3>1, <3>2
  <2> QED BY <2>1, <2>2, <2>3
<1>13. ASSUME NEW g \in Files, g # f, session'[g] = session'[f], NEW i \in DOMAIN files'[f] \cap DOMAIN files'[g]
       PROVE  files'[f][i] = files'[g][i]
  <2>1. session[g] = e[1] /\ files'[g] = files[g]
    BY <1>4, <1>13
  <2>2. i # n
    BY <1>6, <1>13, <2>1
  <2>3. i \in DOMAIN files[f] /\ i \in DOMAIN files[g]
    BY <1>4, <1>13, <2>1, <2>2
  <2>4. session[f] = e[1]
    BY <1>4, <1>7, <2>3
  <2> QED BY <1>4, <2>1, <2>3, <2>4 DEF AgreeInv
<1>14. \A g, h \in Files : session'[g] = session'[h] =>
            \A i \in DOMAIN files'[g] \cap DOMAIN files'[h] : files'[g][i] = files'[h][i]
  <2> SUFFICES ASSUME NEW g \in Files, NEW h \in Files, session'[g] = session'[h],
                      NEW i \in DOMAIN files'[g] \cap DOMAIN files'[h]
               PROVE  files'[g][i] = files'[h][i]
    OBVIOUS
  <2>1. CASE g = f \/ h = f
    BY <1>13, <2>1
  <2>2. CASE g # f /\ h # f
    BY <1>4, <2>2 DEF AgreeInv
  <2> QED BY <2>1, <2>2
<1>15. ASSUME harness = "deepseek", NEW g \in Files, NEW h \in Files, g < h,
              session'[g] = session'[h], session'[g] # 0
       PROVE  DOMAIN files'[h] \subseteq DOMAIN files'[g]
  <2>1. g # h
    BY <1>15, FilesAre
  <2>2. CASE h = f
    BY <1>1, <1>4, <1>15, <2>1, <2>2
  <2>3. CASE g = f
    <3>1. session[h] = e[1] /\ files'[h] = files[h]
      BY <1>4, <1>15, <2>1, <2>3
    <3>2. CASE session[f] = e[1]
      <4>1. DOMAIN files[h] \subseteq DOMAIN files[f]
        BY <1>15, <2>3, <3>1, <3>2, <1>4 DEF AgreeInv
      <4> QED BY <1>4, <2>3, <3>1, <4>1
    <3>3. CASE session[f] = 0
      <4>1. {b \in Given(harness) : Precedes(b, e)} = {}
        BY <1>1, <1>3, <3>3, EntryTypes DEF Follows
      <4>2. \A i \in DOMAIN files[h] : FALSE
        BY <1>5, <3>1, <4>1
      <4> QED BY <3>1, <4>2
    <3> QED BY <1>4, <3>2, <3>3
  <2>4. CASE g # f /\ h # f
    BY <1>4, <1>15, <2>4 DEF AgreeInv
  <2> QED BY <2>2, <2>3, <2>4
<1> QED BY <1>1, <1>11, <1>12, <1>14, <1>15 DEF AgreeInv

LEMMA CopyKeepsAgree ==
    ASSUME TypeInv, AgreeInv, harness \in Agreeing, harness' = harness,
           NEW f \in Files, NEW g \in Files, Copy(f, g), Moves(f, g)
    PROVE  AgreeInv'
<1>1. /\ f # g /\ files[g] = <<>>
      /\ files'[f] = files[f] /\ session'[f] = session[f]
      /\ files'[g] = files[f] /\ session'[g] = session[f]
      /\ \A h \in Files \ {f, g} : files'[h] = files[h] /\ session'[h] = session[h]
  BY AfterMoves DEF Rotates, Agreeing
<1> DEFINE Of(h) == IF h = g THEN f ELSE h
<1>2. \A h \in Files : Of(h) \in Files /\ files'[h] = files[Of(h)] /\ session'[h] = session[Of(h)]
  BY <1>1
<1> HIDE DEF Of
<1>3. Written' = Written
  <2>1. \A l : l \in Written' => l \in Written
    BY <1>2, WrittenAt, WrittenAtNext
  <2>2. \A h \in Files : \A i \in DOMAIN files[h] : h # g
    BY <1>1
  <2>3. \A l : l \in Written => l \in Written'
    BY <1>1, <2>2, WrittenAt, WrittenAtNext
  <2> QED BY <2>1, <2>3
<1>4. \A d : Logged(d)' <=> Logged(d)
  BY <1>3 DEF Logged
<1>5. ASSUME harness = "deepseek", NEW a \in Files, NEW b \in Files, a < b,
             session'[a] = session'[b], session'[a] # 0
      PROVE  DOMAIN files'[b] \subseteq DOMAIN files'[a]
  <2>1. g < f /\ \A h \in Files : session[h] = session[f] => f <= h
    BY <1>5 DEF Copy
  <2>2. a \in Int /\ b \in Int /\ f \in Int /\ g \in Int
    BY FilesAre
  <2>3. CASE a = g
    <3>1. session[b] = session[f] /\ files'[b] = files[b] /\ f <= b
      BY <1>1, <1>5, <2>1, <2>2, <2>3
    <3>2. f = b \/ f < b
      BY <2>2, <3>1
    <3>3. DOMAIN files[b] \subseteq DOMAIN files[f]
      BY <1>1, <1>5, <2>3, <3>1, <3>2 DEF AgreeInv
    <3> QED BY <1>1, <2>3, <3>1, <3>3
  <2>4. CASE b = g
    <3>1. session[a] = session[f] /\ a # g
      BY <1>1, <1>5, <2>2, <2>4
    <3>2. f <= a
      BY <2>1, <3>1
    <3> QED BY <1>5, <2>1, <2>2, <2>4, <3>2
  <2>5. CASE a # g /\ b # g
    BY <1>1, <1>5, <2>5 DEF AgreeInv
  <2> QED BY <2>3, <2>4, <2>5
<1>6. \A h \in Files : \A i, j \in DOMAIN files'[h] : i < j => Precedes(files'[h][i].entry, files'[h][j].entry)
  BY <1>2 DEF AgreeInv
<1>7. \A a, b \in Files : session'[a] = session'[b] =>
            \A i \in DOMAIN files'[a] \cap DOMAIN files'[b] : files'[a][i] = files'[b][i]
  BY <1>2 DEF AgreeInv
<1>8. \A d, e \in Given(harness) : Precedes(d, e) /\ Logged(e)' => Logged(d)'
  BY <1>4 DEF AgreeInv
<1> QED BY <1>5, <1>6, <1>7, <1>8 DEF AgreeInv

LEMMA NextAgree ==
    ASSUME TypeInv, AgreeInv, [Next]_vars
    PROVE  AgreeInv'
<1>1. CASE HarnessStep
  <2>1. harness' = harness
    BY <1>1, StepForm
  <2> QED BY <1>1, <2>1, AgreeSteps, LogKeepsAgree, CopyKeepsAgree DEF AgreeInv
<1>2. CASE ReaderStep \/ UNCHANGED vars
  <2>1. UNCHANGED <<harness, session, files>>
    BY <1>2, ReaderLeavesWorld
  <2>2. \A d : Logged(d)' <=> Logged(d)
    BY <2>1 DEF Logged, Written, Lines
  <2> QED BY <2>1, <2>2 DEF AgreeInv
<1> QED BY <1>1, <1>2, NextKinds

\* An event under the key of a line of a call is of that call.
LEMMA KeyTells ==
    ASSUME WorldInv, AgreeInv, harness \in Keyed, NEW e \in Calls, Known(e),
           NEW f \in Files, NEW i \in DOMAIN files[f], files[f][i].kind \in {"call", "record"},
           e \in files[f][i].calls,
           NEW ev, ev.file \in Files, FromLine(ev), ev.key = RowKey(f, i)
    PROVE  e \in ev.calls
<1> DEFINE l == files[f][i]
           s == session[f]
<1>1. PICK j \in Nat, k \in Written :
        /\ ev.key = KeyAt(ev.file, ev.session, j, k)
        /\ ev.calls = k.calls /\ k.entry[1] = ev.session
        /\ k.kind \in {"call", "record"}
        /\ harness \notin Rotates => j \in DOMAIN files[ev.file] /\ files[ev.file][j] = k
  BY DEF FromLine
<1>2. l \in Written
  BY WrittenAt
<1>3. KnownBy(l) /\ (harness = "amp" => KnownBy(k))
  BY <1>1, <1>2 DEF Known
<1>4. KeyAt(f, s, i, l) = KeyAt(ev.file, ev.session, j, k)
  BY <1>1 DEF RowKey
<1>5. f # 0 /\ ev.file # 0
  <2>1. Files = 1..Cardinality(Files)
    BY TranscriptsAssumption
  <2>2. \A n : 0 \notin 1..n
    OBVIOUS
  <2> QED BY <2>1, <2>2
<1> HIDE DEF l, s
<1> SUFFICES ASSUME TRUE PROVE k.calls = l.calls
  BY <1>1 DEF l
<1>16. CASE harness = "codebuff"
  <2>1. l.named
    BY <1>3, <1>16 DEF KnownBy
  <2>2. k.entry = l.entry
    BY <1>4, <1>16, <2>1 DEF KeyAt, Placed, Snapshots, Place
  <2> QED BY <1>1, <1>2, <1>16, <2>2, WrittenAt DEF WorldInv, UniqueInv, WriteOnce, Transcribed, Streams
<1>6. CASE harness = "claude"
  <2>1. l.named
    BY <1>3, <1>6 DEF KnownBy
  <2> QED BY <1>4, <1>6, <2>1 DEF KeyAt, Placed, Snapshots, Id, Place
<1>7. CASE harness \in Placed
  <2>1. Place(f, i) = Place(ev.file, j)
    BY <1>4, <1>7 DEF KeyAt, Placed, Snapshots
  <2>2. f = ev.file /\ i = j
    BY <2>1 DEF Place
  <2>3. harness \notin Rotates
    BY <1>7 DEF Placed, Rotates
  <2> QED BY <1>1, <2>2, <2>3 DEF l
<1>8. CASE harness = "pi"
  BY <1>4, <1>8 DEF KeyAt, Placed, Snapshots, Id
<1>9. CASE harness \in {"openclaw", "junie"}
  <2>1. UsageKey(f, s, l, quirk) = UsageKey(ev.file, ev.session, k, quirk)
    BY <1>4, <1>9 DEF KeyAt, Placed, Snapshots
  <2>2. Instant(f, l) = Instant(ev.file, k)
    BY <2>1 DEF UsageKey
  <2>3. l.dated
    BY <1>3, <1>9 DEF KnownBy
  <2>4. Instant(ev.file, k) = <<0, l.calls>>
    BY <2>2, <2>3 DEF Instant
  <2>5. k.dated
    BY <1>5, <2>4 DEF Instant
  <2> QED BY <2>4, <2>5 DEF Instant
<1>10. CASE harness = "commandcode"
  <2>1. l.named
    BY <1>3, <1>10 DEF KnownBy
  <2> QED BY <1>4, <1>10, <2>1 DEF KeyAt, Placed, Snapshots, Id, Place
<1>11. CASE harness = "kimi"
  <2>1. l.named /\ l.kind = "call"
    BY <1>3, <1>11 DEF KnownBy
  <2> QED BY <1>4, <1>11, <2>1 DEF KeyAt, Placed, Snapshots, Id, Place
<1>12. CASE harness = "amp"
  BY <1>4, <1>12 DEF KeyAt, Placed, Snapshots, AmpName, Id
<1>13. CASE harness = "kilo"
  BY <1>4, <1>13 DEF KeyAt, Placed, Snapshots, Id
<1>14. CASE harness = "augment"
  <2>1. l.named
    BY <1>3, <1>14 DEF KnownBy
  <2> QED BY <1>4, <1>14, <2>1 DEF KeyAt, Placed, Snapshots, Id
<1>15. CASE harness = "kiro"
  <2>1. /\ KeyAt(f, s, i, l) = IF l.named THEN <<"turn", s, i>>
                                          ELSE <<"print", i, Instant(f, l), Usage(l, quirk)>>
        /\ KeyAt(ev.file, ev.session, j, k) = IF k.named THEN <<"turn", ev.session, j>>
                                              ELSE <<"print", j, Instant(ev.file, k), Usage(k, quirk)>>
    BY <1>15 DEF KeyAt, Placed, Snapshots
  <2>2. CASE l.named
    <3>1. s = ev.session /\ i = j
      <4>1. <<"print", j, Instant(ev.file, k), Usage(k, quirk)>> # <<"turn", s, i>>
        OBVIOUS
      <4>2. k.named /\ <<"turn", s, i>> = <<"turn", ev.session, j>>
        BY <1>4, <2>1, <2>2, <4>1
      <4> QED BY <4>2
    <3>2. j \in DOMAIN files[ev.file] /\ files[ev.file][j] = k
      BY <1>1, <1>15 DEF Rotates
    <3>3. session[ev.file] = k.entry[1]
      <4>1. Fits(k, session[ev.file])
        BY <3>2 DEF WorldInv, TypeInv
      <4> QED BY <4>1 DEF Fits
    <3>4. session[ev.file] = session[f] /\ i \in DOMAIN files[ev.file]
      BY <1>1, <3>1, <3>2, <3>3 DEF s
    <3>5. files[f][i] = files[ev.file][i]
      BY <1>15, <3>4 DEF AgreeInv, Agreeing
    <3> QED BY <3>1, <3>2, <3>5 DEF l
  <2>3. CASE ~l.named
    <3>1. l.dated
      BY <1>3, <1>15, <2>3 DEF KnownBy
    <3>2. ~k.named
      <4>1. <<"print", i, Instant(f, l), Usage(l, quirk)>> # <<"turn", ev.session, j>>
        OBVIOUS
      <4> QED BY <1>4, <2>1, <2>3, <4>1
    <3>3. Instant(f, l) = Instant(ev.file, k)
      <4>1. <<"print", i, Instant(f, l), Usage(l, quirk)>> = <<"print", j, Instant(ev.file, k), Usage(k, quirk)>>
        BY <1>4, <2>1, <2>3, <3>2
      <4> QED BY <4>1
    <3>4. Instant(ev.file, k) = <<0, l.calls>>
      BY <3>1, <3>3 DEF Instant
    <3>5. k.dated
      BY <1>5, <3>4 DEF Instant
    <3> QED BY <3>4, <3>5 DEF Instant
  <2> QED BY <2>2, <2>3
<1> QED BY <1>6, <1>7, <1>8, <1>9, <1>10, <1>11, <1>12, <1>13, <1>14, <1>15, <1>16 DEF Keyed, Placed, Transcribed, Recorded

-----------------------------------------------------------------------------
(***************************************************************************)
(* What a reader makes of the lines of a file: a line with usage, usable   *)
(* or not, is in an event, one under its own key at least, or is reported. *)
(***************************************************************************)
LEMMA BookedBy ==
    ASSUME NEW f \in Files, NEW rows, NEW unusable, Reports(f, unusable),
           \A i \in rows : RowKey(f, i) \in Keys(ReadingOf(f).events),
           \A i \in DOMAIN files[f] :
                files[f][i].kind \in {"call", "record"} /\ files[f][i].cell \in {"good", "bad"}
                    => i \in rows \cup unusable
    PROVE  Booked(f)
<1> SUFFICES ASSUME NEW i \in DOMAIN files[f], files[f][i].kind \in {"call", "record"},
                    files[f][i].cell \in {"good", "bad", "torn"}, i \notin rows
             PROVE  files[f][i].calls \subseteq ReadingOf(f).reported
  BY DEF Booked
<1> DEFINE odd_lines == unusable \cup {j \in DOMAIN files[f] : files[f][j].cell = "torn"}
<1>1. i \in odd_lines
  OBVIOUS
<1>2. \A j \in odd_lines : files[f][j].calls \subseteq CallsOf(files[f], odd_lines)
  BY DEF CallsOf
<1> QED BY <1>1, <1>2 DEF Reports

\* Of the rows with one key the first has an event, or an event has the key.
LEMMA FirstBooks ==
    ASSUME NEW f \in Files, files[f] \in Seq(Line), NEW rows \in SUBSET DOMAIN files[f], NEW R, NEW out,
           \A i \in rows : /\ RowKey(f, i) \notin Keys(events)
                           /\ \A j \in rows : j < i => RowKey(f, j) # RowKey(f, i)
                           => i \in R,
           Keys(events) \subseteq Keys(out),
           \A i \in R : RowKey(f, i) \in Keys(out)
    PROVE  \A i \in rows : RowKey(f, i) \in Keys(out)
<1> SUFFICES ASSUME NEW i \in rows, RowKey(f, i) \notin Keys(events)
             PROVE  RowKey(f, i) \in Keys(out)
  OBVIOUS
<1> DEFINE same == {j \in rows : RowKey(f, j) = RowKey(f, i)}
<1>1. same \in SUBSET Nat /\ i \in same
  OBVIOUS
<1>2. PICK m \in same : \A k \in same : m <= k
  <2> HIDE DEF same
  <2> QED BY <1>1, LeastOf
<1>3. ASSUME NEW j \in rows, j < m PROVE RowKey(f, j) # RowKey(f, m)
  <2>1. j \in Nat /\ m \in Nat
    OBVIOUS
  <2> QED BY <1>2, <1>3, <2>1
<1>4. m \in R
  BY <1>3
<1> QED BY <1>4

\* Where there is no ledger a line with usage is a call's, its cell of those the
\* harness writes.
LEMMA UsageCells ==
    ASSUME TypeInv, harness \notin KeepsLedger \cup {"copilot"}, NEW f \in Files
    PROVE  \A i \in DOMAIN files[f] : files[f][i].kind \in {"call", "record"} =>
               files[f][i].kind = "call" /\ files[f][i].cell \in {"good"} \cup OddCells(harness)
<1> SUFFICES ASSUME NEW i \in DOMAIN files[f], files[f][i].kind \in {"call", "record"}
             PROVE  files[f][i].kind = "call" /\ files[f][i].cell \in {"good"} \cup OddCells(harness)
  OBVIOUS
<1>1. Fits(files[f][i], session[f])
  BY DEF TypeInv
<1> QED BY <1>1 DEF Fits, KindsOf, Marks

LEMMA ClaudeBooks ==
    ASSUME TypeInv, NEW f \in Files, harness = "claude" PROVE Booked(f)
<1> DEFINE ls == files[f]
           rows == ClaudeRows(ls)
           unusable == Rows(ls, {"bad"})
           Key(i) == IF ls[i].named THEN Id(ls[i]) ELSE Place(f, i)
           R == First(rows, Key, events)
           Turn(i) == AfterPrompt(ls, i, Seen(ls, "call"))
           E(i) == Event(f, session[f], ls[i], Key(i), Turn(i))
           out == ReadingOf(f).events
<1>0. ls \in Seq(Line) /\ \A i \in DOMAIN ls : Fits(ls[i], session[f])
  BY DEF TypeInv
<1>1. out = events \cup {E(i) : i \in R} /\ Reports(f, unusable)
  BY DEF ReadingOf, Claude, Reading, Counted, Reports
<1>2. rows \in SUBSET DOMAIN ls
  BY RowsAre DEF ClaudeRows
<1>3. \A i : Key(i) = RowKey(f, i)
  BY DEF RowKey, KeyAt, Placed, Snapshots
<1>4. \A i \in rows : Key(i) \notin Keys(events) /\ (\A j \in rows : j < i => Key(j) # Key(i)) => i \in R
  BY DEF First
<1>5. \A i : E(i).key = Key(i)
  BY DEF Event
<1>6. \A i \in DOMAIN ls : ls[i].kind \in {"call", "record"} /\ ls[i].cell \in {"good", "bad"} => i \in rows \cup unusable
  BY UsageCells, RowsAre DEF KeepsLedger, OddCells, ClaudeRows
<1> HIDE DEF R, E, rows, Key, Turn, unusable, out
<1>7. Keys(events) \subseteq Keys(out) /\ \A i \in R : RowKey(f, i) \in Keys(out)
  BY <1>1, <1>3, <1>5 DEF Keys
<1>8. \A i \in rows : RowKey(f, i) \in Keys(out)
  BY <1>0, <1>2, <1>3, <1>4, <1>7, FirstBooks
<1> QED BY <1>1, <1>6, <1>8, BookedBy DEF out

LEMMA PiBooks ==
    ASSUME TypeInv, NEW f \in Files, harness = "pi" PROVE Booked(f)
<1> DEFINE ls == files[f]
           rows == {i \in Rows(ls, {"good", "zero"}) : ls[i].named}
           unusable == Seen(ls, "call") \ rows
           Key(i) == <<"message", session[f], Id(ls[i]), Usage(ls[i], FALSE), ls[i].cell>>
           R == First(rows, Key, events)
           Turn(i) == AfterPrompt(ls, i, Seen(ls, "call"))
           E(i) == Event(f, session[f], ls[i], Key(i), Turn(i))
           out == ReadingOf(f).events
<1>0. ls \in Seq(Line) /\ \A i \in DOMAIN ls : Fits(ls[i], session[f])
  BY DEF TypeInv
<1>1. out = events \cup {E(i) : i \in R} /\ Reports(f, unusable)
  BY DEF ReadingOf, Pi, Reading, Counted, Reports
<1>2. rows \in SUBSET DOMAIN ls
  BY RowsAre
<1>3. \A i : Key(i) = RowKey(f, i)
  BY DEF RowKey, KeyAt, Placed, Snapshots
<1>4. \A i \in rows : Key(i) \notin Keys(events) /\ (\A j \in rows : j < i => Key(j) # Key(i)) => i \in R
  BY DEF First
<1>5. \A i : E(i).key = Key(i)
  BY DEF Event
<1>6. \A i \in DOMAIN ls : ls[i].kind \in {"call", "record"} /\ ls[i].cell \in {"good", "bad"} => i \in rows \cup unusable
  BY UsageCells, RowsAre DEF KeepsLedger, OddCells, Seen, Holding
<1> HIDE DEF R, E, rows, Key, Turn, unusable, out
<1>7. Keys(events) \subseteq Keys(out) /\ \A i \in R : RowKey(f, i) \in Keys(out)
  BY <1>1, <1>3, <1>5 DEF Keys
<1>8. \A i \in rows : RowKey(f, i) \in Keys(out)
  BY <1>0, <1>2, <1>3, <1>4, <1>7, FirstBooks
<1> QED BY <1>1, <1>6, <1>8, BookedBy DEF out

LEMMA OpenclawBooks ==
    ASSUME TypeInv, NEW f \in Files, harness = "openclaw" PROVE Booked(f)
<1> DEFINE ls == files[f]
           rows == OpenclawRows(ls)
           unusable == {}
           Key(i) == UsageKey(f, session[f], ls[i], quirk)
           R == First(rows, Key, events)
           Turn(i) == TRUE
           E(i) == Event(f, session[f], ls[i], Key(i), Turn(i))
           out == ReadingOf(f).events
<1>0. ls \in Seq(Line) /\ \A i \in DOMAIN ls : Fits(ls[i], session[f])
  BY DEF TypeInv
<1>1. out = events \cup {E(i) : i \in R} /\ Reports(f, unusable)
  BY DEF ReadingOf, Openclaw, Always, Reading, Counted, Reports
<1>2. rows \in SUBSET DOMAIN ls
  BY RowsAre DEF OpenclawRows
<1>3. \A i : Key(i) = RowKey(f, i)
  BY DEF RowKey, KeyAt, Placed, Snapshots
<1>4. \A i \in rows : Key(i) \notin Keys(events) /\ (\A j \in rows : j < i => Key(j) # Key(i)) => i \in R
  BY DEF First
<1>5. \A i : E(i).key = Key(i)
  BY DEF Event
<1>6. \A i \in DOMAIN ls : ls[i].kind \in {"call", "record"} /\ ls[i].cell \in {"good", "bad"} => i \in rows \cup unusable
  BY UsageCells, RowsAre DEF KeepsLedger, OddCells, OpenclawRows
<1> HIDE DEF R, E, rows, Key, Turn, unusable, out
<1>7. Keys(events) \subseteq Keys(out) /\ \A i \in R : RowKey(f, i) \in Keys(out)
  BY <1>1, <1>3, <1>5 DEF Keys
<1>8. \A i \in rows : RowKey(f, i) \in Keys(out)
  BY <1>0, <1>2, <1>3, <1>4, <1>7, FirstBooks
<1> QED BY <1>1, <1>6, <1>8, BookedBy DEF out

LEMMA JunieBooks ==
    ASSUME TypeInv, NEW f \in Files, harness = "junie" PROVE Booked(f)
<1> DEFINE ls == files[f]
           rows == JunieRows(ls)
           unusable == {}
           Key(i) == UsageKey(f, session[f], ls[i], quirk)
           R == First(rows, Key, events)
           Turn(i) == AfterPrompt(ls, i, JunieSpent(ls, R))
           E(i) == Event(f, session[f], ls[i], Key(i), Turn(i))
           out == ReadingOf(f).events
<1>0. ls \in Seq(Line) /\ \A i \in DOMAIN ls : Fits(ls[i], session[f])
  BY DEF TypeInv
<1>1. out = events \cup {E(i) : i \in R} /\ Reports(f, unusable)
  BY DEF ReadingOf, Junie, Reading, Counted, Reports
<1>2. rows \in SUBSET DOMAIN ls
  BY RowsAre DEF JunieRows
<1>3. \A i : Key(i) = RowKey(f, i)
  BY DEF RowKey, KeyAt, Placed, Snapshots
<1>4. \A i \in rows : Key(i) \notin Keys(events) /\ (\A j \in rows : j < i => Key(j) # Key(i)) => i \in R
  BY DEF First
<1>5. \A i : E(i).key = Key(i)
  BY DEF Event
<1>6. \A i \in DOMAIN ls : ls[i].kind \in {"call", "record"} /\ ls[i].cell \in {"good", "bad"} => i \in rows \cup unusable
  BY UsageCells, RowsAre DEF KeepsLedger, OddCells, JunieRows
<1> HIDE DEF R, E, rows, Key, Turn, unusable, out
<1>7. Keys(events) \subseteq Keys(out) /\ \A i \in R : RowKey(f, i) \in Keys(out)
  BY <1>1, <1>3, <1>5 DEF Keys
<1>8. \A i \in rows : RowKey(f, i) \in Keys(out)
  BY <1>0, <1>2, <1>3, <1>4, <1>7, FirstBooks
<1> QED BY <1>1, <1>6, <1>8, BookedBy DEF out

LEMMA CodebuffBooks ==
    ASSUME TypeInv, NEW f \in Files, harness = "codebuff" PROVE Booked(f)
<1> DEFINE ls == files[f]
           rows == CodebuffRows(ls)
           unusable == {}
           Key(i) == CodebuffKey(f, ls, i)
           R == First(rows, Key, events)
           Turn(i) == TRUE
           E(i) == Event(f, session[f], ls[i], Key(i), Turn(i))
           out == ReadingOf(f).events
<1>0. ls \in Seq(Line) /\ \A i \in DOMAIN ls : Fits(ls[i], session[f])
  BY DEF TypeInv
<1>1. out = events \cup {E(i) : i \in R} /\ Reports(f, unusable)
  BY DEF ReadingOf, Codebuff, Always, Reading, Counted, Reports
<1>2. rows \in SUBSET DOMAIN ls
  BY RowsAre DEF CodebuffRows
<1>3. \A i : Key(i) = RowKey(f, i)
  BY DEF RowKey, KeyAt, CodebuffKey, Placed, Snapshots
<1>4. \A i \in rows : Key(i) \notin Keys(events) /\ (\A j \in rows : j < i => Key(j) # Key(i)) => i \in R
  BY DEF First
<1>5. \A i : E(i).key = Key(i)
  BY DEF Event
<1>6. \A i \in DOMAIN ls : ls[i].kind \in {"call", "record"} /\ ls[i].cell \in {"good", "bad"} => i \in rows \cup unusable
  BY UsageCells, RowsAre DEF KeepsLedger, OddCells, CodebuffRows
<1> HIDE DEF R, E, rows, Key, Turn, unusable, out
<1>7. Keys(events) \subseteq Keys(out) /\ \A i \in R : RowKey(f, i) \in Keys(out)
  BY <1>1, <1>3, <1>5 DEF Keys
<1>8. \A i \in rows : RowKey(f, i) \in Keys(out)
  BY <1>0, <1>2, <1>3, <1>4, <1>7, FirstBooks
<1> QED BY <1>1, <1>6, <1>8, BookedBy DEF out

LEMMA AugmentBooks ==
    ASSUME TypeInv, NEW f \in Files, harness = "augment" PROVE Booked(f)
<1> DEFINE ls == files[f]
           rows == AugmentRows(ls)
           unusable == {}
           Key(i) == IF ls[i].named THEN <<"request", session[f], Id(ls[i])>> ELSE <<"turn", session[f], i>>
           R == First(rows, Key, events)
           Turn(i) == TRUE
           E(i) == Event(f, session[f], ls[i], Key(i), Turn(i))
           out == ReadingOf(f).events
<1>0. ls \in Seq(Line) /\ \A i \in DOMAIN ls : Fits(ls[i], session[f])
  BY DEF TypeInv
<1>1. out = events \cup {E(i) : i \in R} /\ Reports(f, unusable)
  BY DEF ReadingOf, Augment, AugmentKey, Always, Reading, Counted, Reports
<1>2. rows \in SUBSET DOMAIN ls
  BY RowsAre DEF AugmentRows
<1>3. \A i : Key(i) = RowKey(f, i)
  BY DEF RowKey, KeyAt, Placed, Snapshots
<1>4. \A i \in rows : Key(i) \notin Keys(events) /\ (\A j \in rows : j < i => Key(j) # Key(i)) => i \in R
  BY DEF First
<1>5. \A i : E(i).key = Key(i)
  BY DEF Event
<1>6. \A i \in DOMAIN ls : ls[i].kind \in {"call", "record"} /\ ls[i].cell \in {"good", "bad"} => i \in rows \cup unusable
  BY UsageCells, RowsAre DEF KeepsLedger, OddCells, AugmentRows
<1> HIDE DEF R, E, rows, Key, Turn, unusable, out
<1>7. Keys(events) \subseteq Keys(out) /\ \A i \in R : RowKey(f, i) \in Keys(out)
  BY <1>1, <1>3, <1>5 DEF Keys
<1>8. \A i \in rows : RowKey(f, i) \in Keys(out)
  BY <1>0, <1>2, <1>3, <1>4, <1>7, FirstBooks
<1> QED BY <1>1, <1>6, <1>8, BookedBy DEF out

LEMMA KiroBooks ==
    ASSUME TypeInv, NEW f \in Files, harness = "kiro" PROVE Booked(f)
<1> DEFINE ls == files[f]
           rows == Rows(ls, {"good"})
           unusable == {}
           Key(i) == IF ls[i].named THEN <<"turn", session[f], i>>
                     ELSE <<"print", i, Instant(f, ls[i]), Usage(ls[i], quirk)>>
           R == First(rows, Key, events)
           Turn(i) == TRUE
           E(i) == Event(f, session[f], ls[i], Key(i), Turn(i))
           out == ReadingOf(f).events
<1>0. ls \in Seq(Line) /\ \A i \in DOMAIN ls : Fits(ls[i], session[f])
  BY DEF TypeInv
<1>1. out = events \cup {E(i) : i \in R} /\ Reports(f, unusable)
  BY DEF ReadingOf, Kiro, KiroConversation, KiroKey, Always, Reading, Counted, Reports
<1>2. rows \in SUBSET DOMAIN ls
  BY RowsAre
<1>3. \A i : Key(i) = RowKey(f, i)
  BY DEF RowKey, KeyAt, Placed, Snapshots
<1>4. \A i \in rows : Key(i) \notin Keys(events) /\ (\A j \in rows : j < i => Key(j) # Key(i)) => i \in R
  BY DEF First
<1>5. \A i : E(i).key = Key(i)
  BY DEF Event
<1>6. \A i \in DOMAIN ls : ls[i].kind \in {"call", "record"} /\ ls[i].cell \in {"good", "bad"} => i \in rows \cup unusable
  BY UsageCells, RowsAre DEF KeepsLedger, OddCells
<1> HIDE DEF R, E, rows, Key, Turn, unusable, out
<1>7. Keys(events) \subseteq Keys(out) /\ \A i \in R : RowKey(f, i) \in Keys(out)
  BY <1>1, <1>3, <1>5 DEF Keys
<1>8. \A i \in rows : RowKey(f, i) \in Keys(out)
  BY <1>0, <1>2, <1>3, <1>4, <1>7, FirstBooks
<1> QED BY <1>1, <1>6, <1>8, BookedBy DEF out

LEMMA QwenBooks ==
    ASSUME TypeInv, NEW f \in Files, harness = "qwen" PROVE Booked(f)
<1> DEFINE ls == files[f]
           rows == QwenRows(ls)
           unusable == Rows(ls, {"bad"})
           Turn(i) == \/ AfterPrompt(ls, i, QwenRows(ls))
                      \/ session[f] \in carried /\ \A j \in QwenRows(ls) : j >= i
           E(i) == Event(f, session[f], ls[i], Place(f, i), Turn(i))
           out == ReadingOf(f).events
<1>1. out = events \cup {E(i) : i \in rows} /\ Reports(f, unusable)
  BY DEF ReadingOf, Qwen, Reading, Counted, Reports
<1>2. \A i : RowKey(f, i) = Place(f, i)
  BY DEF RowKey, KeyAt, Placed, Snapshots
<1>3. \A i : E(i).key = Place(f, i)
  BY DEF Event
<1>4. \A i \in DOMAIN ls : ls[i].kind \in {"call", "record"} /\ ls[i].cell \in {"good", "bad"} => i \in rows \cup unusable
  BY UsageCells, RowsAre DEF KeepsLedger, OddCells, QwenRows
<1> HIDE DEF E, rows, unusable, out
<1>5. \A i \in rows : RowKey(f, i) \in Keys(out)
  BY <1>1, <1>2, <1>3 DEF Keys
<1> QED BY <1>1, <1>4, <1>5, BookedBy DEF out

LEMMA GeminiBooks ==
    ASSUME TypeInv, NEW f \in Files, harness = "gemini" PROVE Booked(f)
<1> DEFINE ls == files[f]
           rows == GeminiRows(ls)
           unusable == Rows(ls, {"bad"})
           Turn(i) == GeminiTurn(ls, i)
           E(i) == Event(f, session[f], ls[i], Place(f, i), Turn(i))
           out == ReadingOf(f).events
<1>1. out = events \cup {E(i) : i \in rows} /\ Reports(f, unusable)
  BY DEF ReadingOf, Gemini, Reading, Counted, Reports
<1>2. \A i : RowKey(f, i) = Place(f, i)
  BY DEF RowKey, KeyAt, Placed, Snapshots
<1>3. \A i : E(i).key = Place(f, i)
  BY DEF Event
<1>4. \A i \in DOMAIN ls : ls[i].kind \in {"call", "record"} /\ ls[i].cell \in {"good", "bad"} => i \in rows \cup unusable
  BY UsageCells, RowsAre DEF KeepsLedger, OddCells, GeminiRows
<1> HIDE DEF E, rows, unusable, out
<1>5. \A i \in rows : RowKey(f, i) \in Keys(out)
  BY <1>1, <1>2, <1>3 DEF Keys
<1> QED BY <1>1, <1>4, <1>5, BookedBy DEF out

LEMMA RecordBooks ==
    ASSUME TypeInv, NEW f \in Files, harness \in {"opencodereview", "trae", "cherrystudio"}
    PROVE  Booked(f)
<1> DEFINE ls == files[f]
           rows == Rows(ls, {"good"})
           unusable == Rows(ls, {"bad"})
           turn == harness # "cherrystudio"
           E(i) == Event(f, session[f], ls[i], Place(f, i), turn)
           out == ReadingOf(f).events
<1>1. out = events \cup {E(i) : i \in rows} /\ Reports(f, unusable)
  <2>1. CASE harness = "opencodereview"
    BY <2>1 DEF ReadingOf, Opencodereview, OpencodereviewRows, EachRecord, Always, Reading, Counted, Reports
  <2>2. CASE harness = "trae"
    BY <2>2 DEF ReadingOf, Trae, TraeRows, EachRecord, Always, Reading, Counted, Reports
  <2>3. CASE harness = "cherrystudio"
    BY <2>3 DEF ReadingOf, Cherrystudio, EachRecord, Never, Reading, Counted, Reports
  <2> QED BY <2>1, <2>2, <2>3
<1>2. \A i : RowKey(f, i) = Place(f, i)
  BY DEF RowKey, KeyAt, Placed, Snapshots
<1>3. \A i : E(i).key = Place(f, i)
  BY DEF Event
<1>4. \A i \in DOMAIN ls : ls[i].kind \in {"call", "record"} /\ ls[i].cell \in {"good", "bad"} => i \in rows \cup unusable
  BY UsageCells, RowsAre DEF KeepsLedger, OddCells
<1> HIDE DEF E, rows, unusable, out
<1>5. \A i \in rows : RowKey(f, i) \in Keys(out)
  BY <1>1, <1>2, <1>3 DEF Keys
<1> QED BY <1>1, <1>4, <1>5, BookedBy DEF out

LEMMA FxSidecarBooks ==
    ASSUME TypeInv, NEW f \in Files, harness = "fx-sidecar" PROVE Booked(f)
<1> DEFINE ls == files[f]
           rows == IF FxValid(ls) THEN Rows(ls, {"good", "zero"}) ELSE {}
           unusable == IF FxValid(ls) THEN {} ELSE Seen(ls, "call")
           Turn(i) == FALSE
           E(i) == Event(f, session[f], ls[i], Place(f, i), Turn(i))
           out == ReadingOf(f).events
<1>1. out = events \cup {E(i) : i \in rows} /\ Reports(f, unusable)
  BY DEF ReadingOf, FxSidecar, Never, Reading, Counted, Reports
<1>2. \A i : RowKey(f, i) = Place(f, i)
  BY DEF RowKey, KeyAt, Placed, Snapshots
<1>3. \A i : E(i).key = Place(f, i)
  BY DEF Event
<1>4. \A i \in DOMAIN ls : ls[i].kind \in {"call", "record"} /\ ls[i].cell \in {"good", "bad"} => i \in rows \cup unusable
  BY UsageCells, RowsAre DEF KeepsLedger, OddCells, FxValid, Seen, Holding
<1> HIDE DEF E, rows, unusable, out
<1>5. \A i \in rows : RowKey(f, i) \in Keys(out)
  BY <1>1, <1>2, <1>3 DEF Keys
<1> QED BY <1>1, <1>4, <1>5, BookedBy DEF out

LEMMA CommandcodeBooks ==
    ASSUME TypeInv, NEW f \in Files, harness = "commandcode" PROVE Booked(f)
<1> DEFINE ls == files[f]
           rows == CommandcodeRows(ls)
           unusable == Rows(ls, {"good", "zero", "bad"}) \ rows
           Key(i) == IF ls[i].named THEN <<"in", f, Id(ls[i])>> ELSE Place(f, i)
           R == {i \in rows : \A j \in rows : j > i => Key(j) # Key(i)}
           E(i) == Event(f, session[f], ls[i], Key(i), TRUE)
           out == ReadingOf(f).events
<1>0. ls \in Seq(Line) /\ \A i \in DOMAIN ls : Fits(ls[i], session[f])
  BY DEF TypeInv
<1>1. out = events \cup {E(i) : i \in R} /\ Reports(f, unusable)
  BY DEF ReadingOf, Commandcode, Reading, Counted, Always, Reports
<1>2. rows \subseteq 1..Len(ls) /\ Len(ls) \in Nat
  <2>1. DOMAIN ls = 1..Len(ls) /\ Len(ls) \in Nat
    BY <1>0
  <2>2. rows \subseteq DOMAIN ls
    BY RowsAre DEF CommandcodeRows
  <2> QED BY <2>1, <2>2
<1>3. \A i : Key(i) = RowKey(f, i)
  BY DEF RowKey, KeyAt, Placed, Snapshots
<1>4. \A i \in rows : (\A j \in rows : j > i => Key(j) # Key(i)) => i \in R
  OBVIOUS
<1>5. \A i : E(i).key = Key(i)
  BY DEF Event
<1>6. \A i \in DOMAIN ls : ls[i].kind \in {"call", "record"} /\ ls[i].cell \in {"good", "bad"} => i \in rows \cup unusable
  BY UsageCells, RowsAre DEF KeepsLedger
<1> HIDE DEF R, E, rows, Key, unusable, out
<1>7. \A i \in R : Key(i) \in Keys(out)
  BY <1>1, <1>5 DEF Keys
<1>8. ASSUME NEW i \in rows PROVE Key(i) \in Keys(out)
  <2> DEFINE same == {j \in rows : Key(j) = Key(i)}
  <2>1. same \in SUBSET (1..Len(ls)) /\ i \in same
    BY <1>2
  <2>2. PICK m \in same : \A k \in same : k <= m
    <3> HIDE DEF same
    <3> QED BY <1>2, <2>1, GreatestOf
  <2>3. ASSUME NEW j \in rows, j > m PROVE Key(j) # Key(m)
    <3>1. j \in Nat /\ m \in Nat
      BY <1>2
    <3> QED BY <2>2, <2>3, <3>1
  <2>4. m \in R
    BY <1>4, <2>3
  <2> QED BY <1>7, <2>4
<1>9. \A i \in rows : RowKey(f, i) \in Keys(out)
  BY <1>3, <1>8
<1> QED BY <1>1, <1>6, <1>9, BookedBy DEF out

LEMMA KiloBooks ==
    ASSUME TypeInv, NEW f \in Files, harness = "kilo" PROVE Booked(f)
<1> DEFINE ls == files[f]
           rows == KiloRows(ls)
           unusable == Rows(ls, {"bad"})
           Key(i) == Id(ls[i])
           R == {i \in rows : /\ Key(i) \notin Keys(events)
                              /\ \A j \in rows : KiloBefore(ls, j, i) => Key(j) # Key(i)}
           Turn(i) == \E p \in PromptLines(ls) :
                        /\ KiloBefore(ls, p, i)
                        /\ \A j \in rows : ~(KiloBefore(ls, p, j) /\ KiloBefore(ls, j, i))
           E(i) == Event(f, session[f], ls[i], Key(i), Turn(i))
           out == ReadingOf(f).events
<1>0. ls \in Seq(Line) /\ \A i \in DOMAIN ls : Fits(ls[i], session[f])
  BY DEF TypeInv
<1>1. out = events \cup {E(i) : i \in R} /\ Reports(f, unusable)
  BY DEF ReadingOf, Kilo, Reading, Counted, Reports
<1>2. \A i \in rows : i \in Nat /\ i \in DOMAIN ls /\ ls[i].dated \in BOOLEAN
  <2>1. rows \subseteq DOMAIN ls
    BY RowsAre DEF KiloRows
  <2>2. \A i \in DOMAIN ls : i \in Nat /\ ls[i] \in Line
    BY <1>0
  <2> QED BY <2>1, <2>2 DEF Line
<1>3. \A i : Key(i) = RowKey(f, i)
  BY DEF RowKey, KeyAt, Placed, Snapshots
<1>4. \A i \in rows : Key(i) \notin Keys(events) /\ (\A j \in rows : KiloBefore(ls, j, i) => Key(j) # Key(i)) => i \in R
  OBVIOUS
<1>5. \A i : E(i).key = Key(i)
  BY DEF Event
<1>6. \A i \in DOMAIN ls : ls[i].kind \in {"call", "record"} /\ ls[i].cell \in {"good", "bad"} => i \in rows \cup unusable
  BY UsageCells, RowsAre DEF KeepsLedger, KiloRows
<1> HIDE DEF R, E, rows, Key, Turn, unusable, out
<1>7. Keys(events) \subseteq Keys(out) /\ \A i \in R : Key(i) \in Keys(out)
  BY <1>1, <1>5 DEF Keys
\* The first by date: undated ones come before the others.
<1>8. ASSUME NEW i \in rows, Key(i) \notin Keys(events) PROVE Key(i) \in Keys(out)
  <2> DEFINE same == {j \in rows : Key(j) = Key(i)}
             early == {j \in same : ~ls[j].dated}
  <2>1. same \in SUBSET Nat /\ i \in same /\ early \subseteq same /\ early \in SUBSET Nat
    BY <1>2
  <2>2. ASSUME NEW S \in {same, early}, S # {}, S = same => early = {}
        PROVE  Key(i) \in Keys(out)
    <3>1. PICK m \in S : \A k \in S : m <= k
      <4> HIDE DEF same, early
      <4> QED BY <2>1, <2>2, LeastOf
    <3>2. m \in same /\ m \in rows
      OBVIOUS
    <3>3. ASSUME NEW j \in rows, KiloBefore(ls, j, m), Key(j) = Key(m) PROVE FALSE
      <4>1. j \in same /\ j \in Nat /\ m \in Nat /\ ls[j].dated \in BOOLEAN /\ ls[m].dated \in BOOLEAN
        BY <1>2, <3>2, <3>3
      <4>2. j \in S => ~(j < m)
        BY <3>1, <4>1
      <4>3. CASE S = same
        <5>1. ls[j].dated /\ ls[m].dated
          BY <2>2, <3>2, <4>1, <4>3
        <5> QED BY <3>3, <4>1, <4>2, <4>3, <5>1 DEF KiloBefore
      <4>4. CASE S = early
        <5>1. ~ls[m].dated
          BY <4>4
        <5>2. ~ls[j].dated
          BY <3>3, <4>1, <5>1 DEF KiloBefore
        <5>3. j \in S
          BY <4>1, <4>4, <5>2
        <5> QED BY <3>3, <4>1, <4>2, <5>1, <5>2, <5>3 DEF KiloBefore
      <4> QED BY <4>3, <4>4
    <3>4. m \in R
      BY <1>4, <1>8, <3>2, <3>3
    <3> QED BY <1>7, <3>2, <3>4
  <2>3. CASE early = {}
    BY <2>1, <2>2, <2>3
  <2>4. CASE early # {}
    <3>1. early # same \/ early = same
      OBVIOUS
    <3>2. CASE early # same
      BY <2>2, <2>4, <3>2
    <3>3. CASE early = same
      <4>1. PICK m \in early : \A k \in early : m <= k
        <5> HIDE DEF same, early
        <5> QED BY <2>1, <2>4, LeastOf
      <4>2. ASSUME NEW j \in rows, KiloBefore(ls, j, m), Key(j) = Key(m) PROVE FALSE
        <5>1. j \in early /\ j \in Nat /\ m \in Nat
          BY <1>2, <3>3, <4>2
        <5> QED BY <4>1, <4>2, <5>1 DEF KiloBefore
      <4>3. m \in R
        BY <1>4, <1>8, <4>2
      <4> QED BY <1>7, <4>3
    <3> QED BY <3>2, <3>3
  <2> QED BY <2>3, <2>4
<1>9. \A i \in rows : RowKey(f, i) \in Keys(out)
  BY <1>3, <1>7, <1>8
<1> QED BY <1>1, <1>6, <1>9, BookedBy DEF out

\* The largest of the lines of a slot is kept, unless a larger event is.
LEMMA KimiBooks ==
    ASSUME TypeInv, NEW f \in Files, harness = "kimi"
    PROVE  Booked(f) /\ Keys(events) \subseteq Keys(ReadingOf(f).events)
<1> DEFINE ls == files[f]
           rows == KimiRows(ls)
           Slot(i) == KimiSlot(f, session[f], ls, i)
           best == {i \in rows : \A j \in rows \ {i} :
                    Slot(j) = Slot(i) => IF j < i THEN KimiReplaces(ls[i], ls[j])
                                                  ELSE ~KimiReplaces(ls[j], ls[i])}
           R == {i \in best : \A ev \in events : ev.key = Slot(i) => KimiReplaces(ls[i], ev)}
           X == {ev \in events : \E i \in R : ev.key = Slot(i)}
           E(i) == Event(f, session[f], ls[i], Slot(i), TRUE)
           out == ReadingOf(f).events
<1>0. ls \in Seq(Line) /\ \A i \in DOMAIN ls : Fits(ls[i], session[f])
  BY DEF TypeInv
<1>1. out = (events \ X) \cup {E(i) : i \in R} /\ Reports(f, {})
  BY DEF ReadingOf, Kimi, Reading, Counted, Always, Reports
<1>2. rows \subseteq 1..Len(ls) /\ Len(ls) \in Nat
  <2>1. DOMAIN ls = 1..Len(ls) /\ Len(ls) \in Nat
    BY <1>0
  <2>2. rows \subseteq DOMAIN ls
    BY DEF KimiRows, Rows, Holding
  <2> QED BY <2>1, <2>2
<1>3. \A i : Slot(i) = RowKey(f, i)
  BY DEF KimiSlot, RowKey, KeyAt, Placed, Snapshots
<1>4. /\ \A i \in rows : (\A j \in rows \ {i} : Slot(j) = Slot(i) => IF j < i THEN KimiReplaces(ls[i], ls[j])
                                                                    ELSE ~KimiReplaces(ls[j], ls[i])) => i \in best
      /\ \A i \in best : i \in R \/ \E ev \in events : ev.key = Slot(i)
      /\ \A ev \in events : ev \in X => \E i \in R : ev.key = Slot(i)
  OBVIOUS
<1>5. \A i : E(i).key = Slot(i)
  BY DEF Event
<1>6. \A i \in DOMAIN ls : ls[i].kind \in {"call", "record"} /\ ls[i].cell \in {"good", "bad"} => i \in rows \cup {}
  <2> SUFFICES ASSUME NEW i \in DOMAIN ls, ls[i].kind \in {"call", "record"}, ls[i].cell \in {"good", "bad"}
               PROVE  i \in rows
    OBVIOUS
  <2>1. Fits(ls[i], session[f])
    BY <1>0
  <2>2. ls[i].cell \in {"good"} \cup OddCells(harness)
    BY <2>1 DEF Fits, Marks
  <2>3. ls[i].cell = "good"
    BY <2>2 DEF OddCells
  <2> QED BY <2>3 DEF KimiRows, Rows, Holding
<1> HIDE DEF R, X, E, rows, best, Slot, out
<1>7. \A i \in R : Slot(i) \in Keys(out)
  BY <1>1, <1>5 DEF Keys
<1>8. ASSUME NEW ev \in events PROVE ev.key \in Keys(out)
  <2>1. CASE ev \in X
    BY <1>4, <1>7, <2>1
  <2>2. CASE ev \notin X
    <3>1. ev \in out
      BY <1>1, <2>2
    <3> QED BY <3>1 DEF Keys
  <2> QED BY <2>1, <2>2
<1>9. ASSUME NEW i \in rows PROVE Slot(i) \in Keys(out)
  <2> DEFINE same == {j \in rows : Slot(j) = Slot(i)}
             whole == {j \in same : ls[j].full}
             S == IF whole = {} THEN same ELSE whole
  <2>1. S \in SUBSET (1..Len(ls)) /\ S # {} /\ S \subseteq same /\ (whole # {} => S = whole)
        /\ (whole = {} => S = same)
    BY <1>2
  <2>2. PICK m \in S : \A k \in S : k <= m
    <3> HIDE DEF S
    <3> QED BY <1>2, <2>1, GreatestOf
  <2> HIDE DEF S
  <2>3. m \in rows /\ Slot(m) = Slot(i) /\ m \in Nat
    BY <1>2, <2>1, <2>2
  <2>4. ASSUME NEW j \in rows \ {m}, Slot(j) = Slot(m)
        PROVE  IF j < m THEN KimiReplaces(ls[m], ls[j]) ELSE ~KimiReplaces(ls[j], ls[m])
    <3>1. j \in same /\ j \in Nat /\ j # m
      BY <1>2, <2>3, <2>4
    <3>2. CASE whole = {}
      <4>1. ~ls[j].full /\ ~ls[m].full
        BY <2>1, <2>2, <3>1, <3>2
      <4>2. j < m
        BY <2>1, <2>2, <2>3, <3>1, <3>2
      <4> QED BY <4>1, <4>2 DEF KimiReplaces
    <3>3. CASE whole # {}
      <4>1. ls[m].full
        BY <2>1, <2>2, <3>3
      <4>2. j > m => ~ls[j].full
        BY <2>1, <2>2, <2>3, <3>1, <3>3
      <4> QED BY <2>3, <3>1, <4>1, <4>2 DEF KimiReplaces
    <3> QED BY <3>2, <3>3
  <2>5. m \in best
    BY <1>4, <2>3, <2>4
  <2> QED BY <1>4, <1>7, <1>8, <2>3, <2>5
<1>10. \A i \in rows : RowKey(f, i) \in Keys(out)
  BY <1>3, <1>9
<1>11. Booked(f)
  BY <1>1, <1>6, <1>10, BookedBy DEF out
<1>12. Keys(events) \subseteq Keys(out)
  BY <1>8 DEF Keys
<1> QED BY <1>11, <1>12 DEF out

LEMMA AmpTakes ==
    ASSUME NEW N \in Nat, NEW ls, NEW rows, NEW ledger, NEW alike
    PROVE  \E g : Takes(g, N, ls, rows, ledger, alike)
<1> DEFINE Step(n, t) == t \cup (IF n \in rows THEN AmpMatch(ls, n, ledger \ t, alike) ELSE {})
           Steps(k) == \E g : g = [n \in 0..k |-> IF n = 0 THEN {} ELSE Step(n, g[n - 1])]
           bad == {k \in Nat : ~Steps(k)}
<1>1. Steps(N)
  <2> HIDE DEF Step
  <2>1. SUFFICES ASSUME bad # {} PROVE FALSE
    OBVIOUS
  <2>2. PICK m \in bad : \A k \in bad : m <= k
    <3>1. bad \in SUBSET Nat
      OBVIOUS
    <3> HIDE DEF bad
    <3> QED BY <2>1, <3>1, LeastOf
  <2>3. CASE m = 0
    <3>1. [n \in 0..0 |-> {}] = [n \in 0..0 |-> IF n = 0 THEN {} ELSE Step(n, [k \in 0..0 |-> {}][n - 1])]
      OBVIOUS
    <3>2. Steps(0)
      BY <3>1
    <3> QED BY <2>2, <2>3, <3>2
  <2>4. CASE m # 0
    <3>1. m - 1 \in Nat /\ m \in Nat /\ m - 1 < m
      BY <2>4
    <3>2. Steps(m - 1)
      <4>1. ~(m <= m - 1)
        BY <3>1
      <4>2. m - 1 \notin bad
        BY <2>2, <4>1
      <4> HIDE DEF Steps
      <4> QED BY <3>1, <4>2
    <3>3. PICK h : h = [n \in 0..(m - 1) |-> IF n = 0 THEN {} ELSE Step(n, h[n - 1])]
      BY <3>2
    <3> DEFINE g == [n \in 0..m |-> IF n = m THEN Step(m, h[m - 1]) ELSE h[n]]
    <3>4. \A n \in 0..(m - 1) : h[n] = IF n = 0 THEN {} ELSE Step(n, h[n - 1])
      BY <3>3
    <3>5. \A n \in 0..m : n # m => n \in 0..(m - 1) /\ g[n] = h[n]
      BY <3>1
    <3>6. g[m] = Step(m, h[m - 1]) /\ g[m - 1] = h[m - 1]
      BY <3>1
    <3>7. \A n \in 0..m : n # 0 => n - 1 \in 0..m /\ n - 1 # m
      BY <3>1
    <3>8. \A n \in 0..m : g[n] = IF n = 0 THEN {} ELSE Step(n, g[n - 1])
      <4> SUFFICES ASSUME NEW n \in 0..m PROVE g[n] = IF n = 0 THEN {} ELSE Step(n, g[n - 1])
        OBVIOUS
      <4> HIDE DEF g
      <4>1. CASE n = m
        BY <2>4, <3>6, <4>1
      <4>2. CASE n # m
        BY <3>4, <3>5, <3>7, <4>2
      <4> QED BY <4>1, <4>2
    <3>9. g = [n \in 0..m |-> IF n = 0 THEN {} ELSE Step(n, g[n - 1])]
      <4>1. g = [n \in 0..m |-> g[n]]
        OBVIOUS
      <4> HIDE DEF g
      <4> QED BY <3>8, <4>1
    <3>10. Steps(m)
      <4> HIDE DEF g
      <4> QED BY <3>9
    <3> QED BY <2>2, <3>10
  <2> QED BY <2>3, <2>4
<1> QED BY <1>1 DEF Takes

\* A message takes an entry of its own calls, if it is not mistaken for another.
LEMMA AmpBooks ==
    ASSUME TypeInv, NEW f \in Files, harness = "amp", \A l \in Written : l.named, ~quirk
    PROVE  Booked(f)
<1> DEFINE ls == files[f]
           s == session[f]
           rows == AmpRows(ls, "call")
           ledger == AmpRows(ls, "record")
           LedgerKey(r) == AmpLedgerKey(f, s, ls, r)
           taken[n \in 0..Len(ls)] ==
               IF n = 0 THEN {}
               ELSE taken[n - 1] \cup
                    (IF n \in rows THEN AmpMatch(ls, n, ledger \ taken[n - 1], quirk) ELSE {})
           Key(i) == CASE ls[i].named -> AmpName(s, ls[i])
                       [] ~ls[i].named /\ taken[i] # taken[i - 1] ->
                               LedgerKey(CHOOSE r \in taken[i] \ taken[i - 1] : TRUE)
                       [] OTHER -> <<"ledger", s>>
           Turn(i) == AfterPrompt(ls, i, Rows(ls, {"good", "zero", "bad"}))
           said == First(rows, Key, events)
           E(i) == Event(f, s, ls[i], Key(i), Turn(i))
           messages == events \cup {E(i) : i \in said}
           left == First(ledger \ taken[Len(ls)], LedgerKey, messages)
           G(i) == Event(f, s, ls[i], LedgerKey(i), FALSE)
           unusable == Rows(ls, {"bad"})
           out == ReadingOf(f).events
<1>0. ls \in Seq(Line) /\ Len(ls) \in Nat /\ \A i \in DOMAIN ls : Fits(ls[i], s)
  BY DEF TypeInv
<1>1. out = messages \cup {G(i) : i \in left} /\ Reports(f, unusable)
  BY DEF ReadingOf, Amp, Reading, Counted, Never, Reports
<1>2. \A i \in DOMAIN ls : ls[i].named
  BY WrittenAt
<1>3. rows \subseteq DOMAIN ls /\ ledger \subseteq DOMAIN ls
  BY DEF AmpRows, Holding
<1>4. \A i \in DOMAIN ls : Key(i) = RowKey(f, i) /\ LedgerKey(i) = RowKey(f, i) /\ RowKey(f, i) = AmpName(s, ls[i])
  BY <1>2 DEF RowKey, KeyAt, Placed, Snapshots, AmpLedgerKey
<1>5. taken = [n \in 0..Len(ls) |->
                    IF n = 0 THEN {}
                    ELSE taken[n - 1] \cup
                         (IF n \in rows THEN AmpMatch(ls, n, ledger \ taken[n - 1], quirk) ELSE {})]
  <2> DEFINE body(g) == [n \in 0..Len(ls) |->
                            IF n = 0 THEN {}
                            ELSE g[n - 1] \cup
                                 (IF n \in rows THEN AmpMatch(ls, n, ledger \ g[n - 1], quirk) ELSE {})]
  <2>1. taken = CHOOSE g : g = body(g)
    BY DEF taken
  <2>2. \E g : g = body(g)
    <3>1. Len(ls) \in Nat
      BY <1>0
    <3>2. \E g : Takes(g, Len(ls), ls, rows, ledger, quirk)
      <4> HIDE DEF rows, ledger, ls
      <4> QED BY <3>1, AmpTakes
    <3> QED BY <3>2 DEF Takes
  <2> HIDE DEF body, taken
  <2>3. taken = body(taken)
    BY <2>1, <2>2
  <2> QED BY <2>3 DEF body
<1>6. \A i \in DOMAIN ls : ls[i].kind \in {"call", "record"} /\ ls[i].cell \in {"good", "bad"}
            => i \in (rows \cup ledger) \cup unusable
  <2> SUFFICES ASSUME NEW i \in DOMAIN ls, ls[i].kind \in {"call", "record"}, ls[i].cell \in {"good", "bad"}
               PROVE  i \in rows \cup ledger \cup unusable
    OBVIOUS
  <2>1. Fits(ls[i], s)
    BY <1>0
  <2>2. ls[i].kind = "record" => ls[i].cell = "good"
    BY <2>1 DEF Fits
  <2> QED BY <2>2, RowsAre DEF AmpRows, Holding
<1>7. \A i \in rows : Key(i) \notin Keys(events) /\ (\A j \in rows : j < i => Key(j) # Key(i)) => i \in said
  BY DEF First
<1>8. \A r \in ledger \ taken[Len(ls)] :
            LedgerKey(r) \notin Keys(messages) /\ (\A q \in ledger \ taken[Len(ls)] : q < r => LedgerKey(q) # LedgerKey(r))
                => r \in left
  BY DEF First
<1>9. \A i : E(i).key = Key(i) /\ G(i).key = LedgerKey(i)
  BY DEF Event
<1> HIDE DEF said, left, Key, LedgerKey, Turn, E, G, taken, out, unusable, rows, ledger
<1>10. /\ Keys(events) \subseteq Keys(messages) /\ Keys(messages) \subseteq Keys(out)
       /\ \A i \in said : Key(i) \in Keys(messages)
       /\ \A i \in left : LedgerKey(i) \in Keys(out)
  <2>1. messages \subseteq out /\ events \subseteq messages
    BY <1>1
  <2>2. \A i \in said : E(i) \in messages
    OBVIOUS
  <2>3. \A i \in left : G(i) \in out
    BY <1>1
  <2> HIDE DEF messages
  <2> QED BY <1>9, <2>1, <2>2, <2>3 DEF Keys
<1> HIDE DEF messages
<1>11. \A i \in rows : RowKey(f, i) \in Keys(messages)
  <2>1. /\ rows \in SUBSET DOMAIN ls
        /\ \A i \in rows : RowKey(f, i) \notin Keys(events) /\ (\A j \in rows : j < i => RowKey(f, j) # RowKey(f, i)) => i \in said
        /\ \A i \in said : i \in rows => RowKey(f, i) \in Keys(messages)
    BY <1>3, <1>4, <1>7, <1>10
  <2>2. \A i \in said \cap rows : RowKey(f, i) \in Keys(messages)
    BY <2>1
  <2>3. \A i \in rows : /\ RowKey(f, i) \notin Keys(events)
                        /\ \A j \in rows : j < i => RowKey(f, j) # RowKey(f, i)
                        => i \in said \cap rows
    BY <2>1
  <2> QED BY <1>0, <1>10, <2>1, <2>2, <2>3, FirstBooks
\* What is taken is taken by a message with the same calls.
<1>12. \A r \in taken[Len(ls)] : \E i \in rows : ls[i].calls = ls[r].calls
  <2> DEFINE Fair(n) == \A r \in taken[n] : \E i \in rows : ls[i].calls = ls[r].calls
             bad == {n \in 0..Len(ls) : ~Fair(n)}
  <2> SUFFICES ASSUME bad # {} PROVE FALSE
    BY <1>0
  <2>1. PICK m \in bad : \A k \in bad : m <= k
    <3>1. bad \in SUBSET Nat
      BY <1>0
    <3> HIDE DEF bad
    <3> QED BY <3>1, LeastOf
  <2>2. m # 0
    BY <1>5
  <2>3. m \in 0..Len(ls) /\ m - 1 \in 0..Len(ls) /\ ~(m <= m - 1)
    BY <1>0, <2>2
  <2>4. Fair(m - 1)
    <3> HIDE DEF Fair
    <3> QED BY <2>1, <2>3
  <2>5. taken[m] = taken[m - 1] \cup
                    (IF m \in rows THEN AmpMatch(ls, m, ledger \ taken[m - 1], quirk) ELSE {})
    BY <1>5, <2>2, <2>3
  <2>6. ASSUME m \in rows, NEW r \in AmpMatch(ls, m, ledger \ taken[m - 1], quirk)
        PROVE  ls[m].calls = ls[r].calls
    BY <2>6 DEF AmpMatch
  <2>7. Fair(m)
    BY <2>4, <2>5, <2>6
  <2> HIDE DEF Fair
  <2> QED BY <2>1, <2>7
<1>13. ASSUME NEW r \in ledger PROVE RowKey(f, r) \in Keys(out)
  <2>1. CASE r \in taken[Len(ls)]
    <3>1. PICK i \in rows : ls[i].calls = ls[r].calls
      BY <1>12, <2>1
    <3>2. RowKey(f, i) = RowKey(f, r)
      BY <1>3, <1>4, <3>1 DEF AmpName, Id
    <3> QED BY <1>10, <1>11, <3>2
  <2>2. CASE r \notin taken[Len(ls)] /\ LedgerKey(r) \in Keys(messages)
    BY <1>3, <1>4, <1>10, <2>2
  <2>3. CASE r \notin taken[Len(ls)] /\ LedgerKey(r) \notin Keys(messages)
    <3> DEFINE same == {q \in ledger \ taken[Len(ls)] : LedgerKey(q) = LedgerKey(r)}
    <3>1. same \in SUBSET Nat /\ same # {}
      <4>1. \A q \in ledger : q \in Nat
        BY <1>0, <1>3
      <4> QED BY <2>3, <4>1
    <3>2. PICK m \in same : \A k \in same : m <= k
      <4> HIDE DEF same
      <4> QED BY <3>1, LeastOf
    <3>3. ASSUME NEW q \in ledger \ taken[Len(ls)], q < m PROVE LedgerKey(q) # LedgerKey(m)
      <4>1. q \in Nat /\ m \in Nat
        BY <1>0, <1>3
      <4> QED BY <3>2, <3>3, <4>1
    <3>4. m \in left
      BY <1>8, <2>3, <3>2, <3>3
    <3>5. LedgerKey(r) \in Keys(out)
      BY <1>10, <3>2, <3>4
    <3> QED BY <1>3, <1>4, <3>5
  <2> QED BY <2>1, <2>2, <2>3
<1>14. \A i \in rows \cup ledger : RowKey(f, i) \in Keys(out)
  BY <1>10, <1>11, <1>13
<1> QED BY <1>1, <1>6, <1>14, BookedBy DEF out

-----------------------------------------------------------------------------
(***************************************************************************)
(* Rotations: what is not where it was when the files were listed is where *)
(* it was not then, in a file listed after all that have lost it.          *)
(***************************************************************************)
LEMMA DisplacedIsMoved ==
    ASSUME harness \in Rotates, NEW e, Displaced(e)
    PROVE  Moved(e)
BY DEF Displaced, Moved, Knowable

LEMMA CopyDisplaces ==
    ASSUME TypeInv, harness \in Rotates, held' = held, NEW f \in Files, NEW g \in Files,
           Copy(f, g), Moves(f, g), NEW e, InPlace(e) \/ Displaced(e)
    PROVE  (InPlace(e) \/ Displaced(e))' /\ (Displaced(e) => Displaced(e)')
<1>1. /\ f # g /\ files[g] = <<>> /\ files'[g] = files[f]
      /\ \A h \in Files \ {f, g} : files'[h] = files[h]
      /\ files'[f] = files[f] \/ (files'[f] = <<>> /\ f < g)
  <2>1. /\ f # g /\ files[g] = <<>> /\ files'[g] = files[f]
        /\ \A h \in Files \ {f, g} : files'[h] = files[h]
        /\ files'[f] = files[f] \/ files'[f] = <<>>
    BY AfterMoves
  <2>2. files'[f] # files[f] => f < g
    BY <2>1 DEF Copy, TypeInv
  <2> QED BY <2>1, <2>2
<1>2. /\ \A h : files[h] = <<>> => Knowable(h) = {}
      /\ \A h : files'[h] = <<>> => Knowable(h)' = {}
      /\ \A h, k : files'[h] = files[k] => Knowable(h)' = Knowable(k)
  BY DEF Knowable, Lines
<1>3. /\ Knowable(g) = {} /\ Knowable(g)' = Knowable(f)
      /\ \A h \in Files \ {f, g} : Knowable(h)' = Knowable(h)
      /\ Knowable(f)' = Knowable(f) \/ (Knowable(f)' = {} /\ f < g)
  BY <1>1, <1>2
<1>4. \A h \in Files : h \in Int
  BY FilesAre
<1>5. ASSUME InPlace(e) PROVE (InPlace(e) \/ Displaced(e))'
  <2>1. CASE e \in Knowable(f)
    <3>1. e \notin held[g] /\ \A h \in Files : e \in held[h] /\ e \notin Knowable(h)' => h < g
      BY <1>1, <1>3, <1>5 DEF InPlace
    <3>2. Displaced(e)'
      BY <1>3, <2>1, <3>1 DEF Displaced
    <3> QED BY <3>2
  <2>2. CASE e \notin Knowable(f)
    <3>1. \A h \in Files : e \in Knowable(h)' <=> e \in Knowable(h)
      BY <1>3, <2>2
    <3>2. InPlace(e)'
      BY <1>5, <3>1 DEF InPlace
    <3> QED BY <3>2
  <2> QED BY <2>1, <2>2
<1>6. ASSUME Displaced(e) PROVE Displaced(e)'
  <2>1. PICK w \in Files : /\ e \in Knowable(w) /\ e \notin held[w]
                           /\ \A h \in Files : e \in held[h] /\ e \notin Knowable(h) => h < w
    BY <1>6 DEF Displaced
  <2>2. w # g
    BY <1>3, <2>1
  <2>3. ASSUME e \in Knowable(f), e \notin Knowable(f)', w <= f
        PROVE  Displaced(e)'
    <3>1. f < g
      BY <1>3, <2>3
    <3>2. e \notin held[g]
      BY <1>3, <1>4, <2>1, <2>3, <3>1
    <3>3. ASSUME NEW h \in Files, e \in held[h], e \notin Knowable(h)' PROVE h < g
      <4>1. h = f \/ h < w
        BY <1>3, <2>1, <3>3, <3>2
      <4> QED BY <1>4, <2>3, <3>1, <4>1
    <3> QED BY <1>3, <2>3, <3>2, <3>3 DEF Displaced
  <2>4. ASSUME e \in Knowable(w)', e \in held[f] /\ e \notin Knowable(f)' => f < w
        PROVE  Displaced(e)'
    <3>1. ASSUME NEW h \in Files, e \in held[h], e \notin Knowable(h)' PROVE h < w
      <4>1. CASE h = f
        BY <2>4, <3>1, <4>1
      <4>2. CASE h # f
        BY <1>3, <2>1, <3>1, <4>2
      <4> QED BY <4>1, <4>2
    <3> QED BY <2>1, <2>4, <3>1 DEF Displaced
  <2>5. CASE e \in Knowable(f) /\ e \notin Knowable(f)' /\ w <= f
    BY <2>3, <2>5
  <2>6. CASE ~(e \in Knowable(f) /\ e \notin Knowable(f)' /\ w <= f)
    <3>1. e \in Knowable(w)'
      <4>1. CASE w = f
        BY <1>4, <2>1, <2>6, <4>1
      <4> QED BY <1>3, <2>1, <2>2, <4>1
    <3>2. e \in held[f] /\ e \notin Knowable(f)' => f < w
      BY <1>4, <2>1, <2>6
    <3> QED BY <2>4, <3>1, <3>2
  <2> QED BY <2>5, <2>6
<1> QED BY <1>5, <1>6

LEMMA LogLeavesPlaces ==
    ASSUME TypeInv, harness \in Rotates, held' = held, NEW f \in Files, NEW d \in Entries, Log(f, d),
           NEW e, NEW g \in Files, e \in held[g], InPlace(e) \/ Displaced(e)
    PROVE  (InPlace(e) \/ Displaced(e))' /\ (Displaced(e) => Displaced(e)')
<1>1. PICK l \in Line : Adds(f, l) /\ ~Logged(l.entry) /\ l.entry = d
  BY LogForm
<1>2. PICK h \in Files : e \in Knowable(h)
  BY DEF InPlace, Displaced
<1>3. Logged(e)
  BY <1>2 DEF Logged, Knowable, Written
<1>4. e \notin l.calls
  <2>1. Fits(l, l.entry[1])
    BY <1>1 DEF Adds
  <2>2. l.kind # "agent" /\ harness \notin Totalled
    BY <2>1 DEF Fits, KindsOf, KeepsLedger, Rotates, Totalled, Snapshots
  <2>3. l.calls \subseteq {d}
    BY <1>1, <2>1, <2>2 DEF Fits
  <2> QED BY <1>1, <1>3, <2>3
<1>5. harness \notin Snapshots
  BY DEF Rotates, Snapshots
<1>6. ASSUME NEW k \in Files PROVE e \in Knowable(k)' <=> e \in Knowable(k)
  <2>1. CASE k # f
    <3>1. files'[k] = files[k]
      BY <1>1, <2>1, AfterAdds
    <3> QED BY <3>1 DEF Knowable, Lines
  <2>2. CASE k = f
    <3>1. /\ \A i \in DOMAIN files[f] : i \in DOMAIN files'[f] /\ files'[f][i] = files[f][i]
          /\ \A i \in DOMAIN files'[f] : files'[f][i] = l \/ (i \in DOMAIN files[f] /\ files'[f][i] = files[f][i])
      BY <1>1, <1>5, AfterAdds
    <3>2. Lines(f) \subseteq Lines(f)' /\ \A m \in Lines(f)' : m = l \/ m \in Lines(f)
      BY <3>1 DEF Lines
    <3> QED BY <1>4, <2>2, <3>2 DEF Knowable
  <2> QED BY <2>1, <2>2
<1>7. InPlace(e) => InPlace(e)'
  BY <1>6 DEF InPlace
<1>8. Displaced(e) => Displaced(e)'
  BY <1>6 DEF Displaced
<1> QED BY <1>7, <1>8

LEMMA HarnessMoves ==
    ASSUME TypeInv, MoveInv, HarnessStep, harness \in Rotates, NEW g \in Files, NEW e \in held[g]
    PROVE  (InPlace(e) \/ Displaced(e))' /\ (Displaced(e) => Displaced(e)')
<1>1. held' = held
  BY StepForm DEF reader
<1>2. InPlace(e) \/ Displaced(e)
  BY DEF MoveInv
<1>3. PICK f \in Files : (\E d \in Entries : Log(f, d)) \/ \E h \in Files : Copy(f, h) /\ Moves(f, h)
  BY AgreeSteps
<1> QED BY <1>1, <1>2, <1>3, LogLeavesPlaces, CopyDisplaces

LEMMA NextMove ==
    ASSUME TypeInv, MoveInv, [Next]_vars
    PROVE  MoveInv'
<1>1. CASE HarnessStep
  <2>1. harness' = harness /\ held' = held
    BY <1>1, StepForm DEF reader
  <2> QED BY <1>1, <2>1, HarnessMoves DEF MoveInv
<1>2. CASE ReaderStep \/ UNCHANGED vars
  <2>1. UNCHANGED <<harness, session, files>>
    BY <1>2, ReaderLeavesWorld
  <2>2. \A f : Knowable(f)' = Knowable(f)
    BY <2>1 DEF Knowable, Lines
  <2>3. CASE Begin
    <3>1. held' = [f \in Files |-> Knowable(f)]
      BY <2>3 DEF Begin
    <3>2. \A e : InPlace(e)'
      BY <2>2, <3>1 DEF InPlace
    <3> QED BY <3>2 DEF MoveInv
  <2>4. CASE ~Begin
    <3>1. held' = held
      BY <1>2, <2>4 DEF ReaderStep, Select, Read, Unreadable, Past, vars, reader
    <3>2. \A e : (InPlace(e)' <=> InPlace(e)) /\ (Displaced(e)' <=> Displaced(e))
      BY <2>2, <3>1 DEF InPlace, Displaced
    <3> QED BY <2>1, <3>1, <3>2 DEF MoveInv
  <2> QED BY <2>3, <2>4
<1> QED BY <1>1, <1>2, NextKinds

-----------------------------------------------------------------------------
(***************************************************************************)
(* What was in the files read so far is in an event, reported or excused.  *)
(***************************************************************************)
LEMMA SnapKnown ==
    ASSUME TypeInv, harness \in Snapshots, NEW e PROVE Known(e)
<1> SUFFICES ASSUME NEW l \in Written PROVE l.named /\ harness # "amp" /\ (KnownBy(l) <=> l.named)
  BY DEF Known, Borrowed, Borrows, Snapshots
<1>1. PICK f \in Files : \E i \in DOMAIN files[f] : l = files[f][i]
  BY WrittenAt
<1>2. Fits(l, session[f])
  BY <1>1 DEF TypeInv
<1> QED BY <1>2 DEF Fits, Snapshots, MayLackId, KnownBy

LEMMA KnownShrinks ==
    ASSUME TypeInv, HarnessStep, NEW e, ~Known(e) PROVE ~Known(e)'
<1>1. harness' = harness /\ quirk' = quirk
  BY StepForm
<1>2. harness \notin Snapshots
  BY SnapKnown
<1>3. Written \subseteq Written'
  BY <1>2, WrittenGrows
<1>4. \A l : KnownBy(l)' <=> KnownBy(l)
  BY <1>1 DEF KnownBy
<1> QED BY <1>1, <1>3, <1>4 DEF Known, Borrowed, Borrows

LEMMA HarnessLeavesSettled ==
    ASSUME TypeInv, SnapInv, HeldInv, MoveInv, HarnessStep, NEW f \in Files, NEW e \in held[f], Settled(f, e)
    PROVE  Settled(f, e)'
<1>1. harness' = harness /\ quirk' = quirk /\ events' = events /\ reported' = reported /\ passed' = passed
  BY StepForm DEF reader
<1>2. CASE CountsOf(e) # {} \/ e \in reported \/ f \in passed
  BY <1>1, <1>2 DEF Settled, CountsOf
<1>3. CASE ~Known(e)
  BY <1>3, KnownShrinks DEF Settled
<1>4. CASE Mistaken
  BY <1>1, <1>4 DEF Settled, Mistaken
<1>5. CASE Hidden(f)
  <2>1. harness \notin Rotates /\ harness \in {"goose", "zed", "mux"}
    BY <1>5 DEF Hidden, Rotates
  <2>2. session[f] # 0
    BY <2>1, KnowableCalls DEF HeldInv
  <2>3. session'[f] = session[f]
    BY <2>1, <2>2, KnowableGrows
  <2> QED BY <1>1, <1>5, <2>3 DEF Settled, Hidden
<1>6. CASE Restarted(f) \/ CutOff(f)
  <2>1. harness \in {"fx", "deepseek"}
    BY <1>6 DEF Restarted, CutOff
  <2>2. Lines(f) \subseteq Lines(f)'
    BY <2>1, LinesGrow DEF Rotates, Snapshots
  <2> QED BY <1>1, <1>6, <2>2 DEF Settled, Restarted, CutOff
<1>7. CASE harness \in Rotates /\ Displaced(e)
  BY <1>1, <1>7, HarnessMoves DEF Settled
<1> QED BY <1>2, <1>3, <1>4, <1>5, <1>6, <1>7 DEF Settled

\* A reading loses no event, but for Kimi's smaller ones and Droid's older.
LEMMA EventsGrow ==
    ASSUME harness \in Harnesses, harness \notin {"kimi", "droid", "copilot"}, NEW f \in Files
    PROVE  events \subseteq ReadingOf(f).events
<1>1. CASE harness = "claude" BY <1>1 DEF ReadingOf, Claude, Reading
<1>2. CASE harness = "qwen" BY <1>2 DEF ReadingOf, Qwen, Reading
<1>3. CASE harness = "gemini" BY <1>3 DEF ReadingOf, Gemini, Reading
<1>4. CASE harness = "pi" BY <1>4 DEF ReadingOf, Pi, Reading
<1>5. CASE harness = "openclaw" BY <1>5 DEF ReadingOf, Openclaw, Reading
<1>6. CASE harness = "commandcode" BY <1>6 DEF ReadingOf, Commandcode, Reading
<1>7. CASE harness = "opencodereview" BY <1>7 DEF ReadingOf, Opencodereview, EachRecord, Reading
<1>8. CASE harness = "trae" BY <1>8 DEF ReadingOf, Trae, EachRecord, Reading
<1>9. CASE harness = "cherrystudio" BY <1>9 DEF ReadingOf, Cherrystudio, EachRecord, Reading
<1>10. CASE harness = "junie" BY <1>10 DEF ReadingOf, Junie, Reading
<1>11. CASE harness = "amp" BY <1>11 DEF ReadingOf, Amp, Reading
<1>12. CASE harness = "codebuff" BY <1>12 DEF ReadingOf, Codebuff, Reading
<1>13. CASE harness = "augment" BY <1>13 DEF ReadingOf, Augment, Reading
<1>14. CASE harness = "kilo" BY <1>14 DEF ReadingOf, Kilo, Reading
<1>15. CASE harness = "kiro" BY <1>15 DEF ReadingOf, Kiro, Reading
<1>16. CASE harness = "deepseek" BY <1>16 DEF ReadingOf, Deepseek
<1>17. CASE harness = "goose" BY <1>17 DEF ReadingOf, Goose, FirstTotal, Reading
<1>18. CASE harness = "zed" BY <1>18 DEF ReadingOf, Zed, FirstTotal, Reading
<1>19. CASE harness = "mux" BY <1>19 DEF ReadingOf, Mux, FirstTotal, Reading
<1>20. CASE harness = "fx-sidecar" BY <1>20 DEF ReadingOf, FxSidecar, Reading
<1>21. CASE harness = "fx" BY <1>21 DEF ReadingOf, Fx, Reading
<1> QED BY <1>1, <1>2, <1>3, <1>4, <1>5, <1>6, <1>7, <1>8, <1>9, <1>10, <1>11, <1>12, <1>13, <1>14, <1>15,
           <1>16, <1>17, <1>18, <1>19, <1>20, <1>21, Which DEF Transcribed, Recorded, Snapshots

LEMMA AllBooks ==
    ASSUME TypeInv, NEW f \in Files, harness \in Keyed \ {"deepseek"}, AllNamed, ~Mistaken
    PROVE  Booked(f)
<1>1. CASE harness = "claude" BY <1>1, ClaudeBooks
<1>2. CASE harness = "qwen" BY <1>2, QwenBooks
<1>3. CASE harness = "gemini" BY <1>3, GeminiBooks
<1>4. CASE harness = "pi" BY <1>4, PiBooks
<1>5. CASE harness = "openclaw" BY <1>5, OpenclawBooks
<1>6. CASE harness = "commandcode" BY <1>6, CommandcodeBooks
<1>7. CASE harness \in {"opencodereview", "trae", "cherrystudio"} BY <1>7, RecordBooks
<1>8. CASE harness = "junie" BY <1>8, JunieBooks
<1>9. CASE harness = "amp" BY <1>9, AmpBooks DEF AllNamed, Mistaken
<1>10. CASE harness = "codebuff" BY <1>10, CodebuffBooks
<1>11. CASE harness = "augment" BY <1>11, AugmentBooks
<1>12. CASE harness = "kilo" BY <1>12, KiloBooks
<1>13. CASE harness = "kiro" BY <1>13, KiroBooks
<1>14. CASE harness = "kimi" BY <1>14, KimiBooks
<1>15. CASE harness = "fx-sidecar" BY <1>15, FxSidecarBooks
<1> QED BY <1>1, <1>2, <1>3, <1>4, <1>5, <1>6, <1>7, <1>8, <1>9, <1>10, <1>11, <1>12, <1>13,
           <1>14, <1>15 DEF Keyed, Transcribed, Recorded

LEMMA KeyFound ==
    ASSUME WorldInv, AgreeInv, KeyedInv, todo \subseteq Files, NEW g \in Files, Read(g),
           harness \in Keyed, NEW e \in Calls, Known(e),
           NEW f \in Files, NEW i \in DOMAIN files[f], files[f][i].kind \in {"call", "record"},
           e \in files[f][i].calls, RowKey(f, i) \in Keys(events')
    PROVE  CountsOf(e)' # {}
<1>1. PICK ev \in events' : ev.key = RowKey(f, i)
  BY DEF Keys
<1>2. UNCHANGED <<harness, quirk, session, files>>
  BY DEF Read, Past
<1>3. Written' = Written /\ (AllNamed' <=> AllNamed) /\ (FromLine(ev)' <=> FromLine(ev))
  BY <1>2 DEF Written, Lines, AllNamed, FromLine, KeyAt, UsageKey
<1>4. AllNamed
  BY DEF Known, KnownBy, AllNamed
<1>5. KeyedInv' /\ todo' \subseteq Files
  BY ReadKeepsKeyed DEF WorldInv, Read, Past
<1>6. Accounted(ev)'
  BY <1>2, <1>3, <1>4, <1>5 DEF KeyedInv
<1>7. ev.file \in Files /\ FromLine(ev)
  BY <1>2, <1>3, <1>6 DEF Accounted
<1>8. e \in ev.calls
  BY <1>1, <1>7, KeyTells
<1> QED BY <1>8 DEF CountsOf

LEMMA KeyedReadSettles ==
    ASSUME WorldInv, AgreeInv, KeyedInv, todo \subseteq Files, NEW f \in Files, Read(f),
           harness \in Keyed \ {"deepseek"}, NEW e \in Knowable(f), Known(e), ~Mistaken
    PROVE  CountsOf(e)' # {} \/ e \in reported'
<1>1. TypeInv /\ AllNamed
  BY DEF Known, KnownBy, AllNamed, WorldInv
<1>2. e \in Calls
  BY <1>1, KnowableCalls
<1>3. PICK i \in DOMAIN files[f] : files[f][i].cell \in {"good", "bad", "torn"} /\ e \in files[f][i].calls
  BY <1>1, KnowableCalls
<1>4. files[f][i].kind \in {"call", "record"}
  <2>1. Fits(files[f][i], session[f])
    BY <1>1 DEF TypeInv
  <2>2. KindsOf(harness) \subseteq Marks \cup {"call", "record"}
    BY DEF Keyed, KindsOf, Marks
  <2> QED BY <1>3, <2>1, <2>2 DEF Fits
<1>5. Booked(f)
  BY <1>1, AllBooks
<1>6. CASE RowKey(f, i) \in Keys(ReadingOf(f).events)
  <2>1. RowKey(f, i) \in Keys(events')
    BY <1>6 DEF Read
  <2> QED BY <1>2, <1>3, <1>4, <2>1, KeyFound
<1>7. CASE files[f][i].calls \subseteq ReadingOf(f).reported
  BY <1>3, <1>7 DEF Read
<1> QED BY <1>3, <1>4, <1>5, <1>6, <1>7 DEF Booked

\* What is counted stays counted, but for Droid's older files and Copilot's records.
LEMMA ReadKeepsCounts ==
    ASSUME WorldInv, AgreeInv, KeyedInv, todo \subseteq Files, NEW f \in Files, Read(f),
           harness \notin {"droid", "copilot"}, NEW e \in Calls, Known(e), CountsOf(e) # {}
    PROVE  CountsOf(e)' # {}
<1>1. PICK ev \in events : e \in ev.calls
  BY DEF CountsOf
<1>2. events' = ReadingOf(f).events
  BY DEF Read
<1>3. CASE harness # "kimi"
  <2>1. events \subseteq events'
    BY <1>2, <1>3, EventsGrow DEF WorldInv, TypeInv
  <2> QED BY <1>1, <2>1 DEF CountsOf
<1>4. CASE harness = "kimi"
  <2>1. AllNamed /\ harness \in Keyed /\ harness \notin Rotates
    BY <1>4 DEF AllNamed, Keyed, Transcribed, Rotates
  <2>2. Accounted(ev)
    BY <2>1 DEF KeyedInv
  <2>3. ev.file \in Files /\ FromLine(ev)
    BY <2>1, <2>2 DEF Accounted
  <2>4. PICK j \in Nat, k \in Written :
        /\ ev.key = KeyAt(ev.file, ev.session, j, k)
        /\ ev.calls = k.calls /\ k.entry[1] = ev.session
        /\ k.kind \in {"call", "record"}
        /\ harness \notin Rotates => j \in DOMAIN files[ev.file] /\ files[ev.file][j] = k
    BY <2>3 DEF FromLine
  <2>5. j \in DOMAIN files[ev.file] /\ files[ev.file][j] = k
    BY <2>1, <2>4
  <2>6. Fits(k, session[ev.file])
    BY <2>3, <2>5 DEF WorldInv, TypeInv
  <2>7. ev.key = RowKey(ev.file, j)
    BY <2>4, <2>5, <2>6 DEF RowKey, Fits
  <2>8. ev.key \in Keys(events')
    <3>1. Keys(events) \subseteq Keys(events')
      BY <1>2, <1>4, KimiBooks DEF WorldInv
    <3>2. ev.key \in Keys(events)
      BY DEF Keys
    <3> QED BY <3>1, <3>2
  <2>9. files[ev.file][j].kind \in {"call", "record"} /\ e \in files[ev.file][j].calls
    BY <1>1, <2>4, <2>5
  <2> QED BY <2>1, <2>3, <2>5, <2>7, <2>8, <2>9, KeyFound
<1> QED BY <1>3, <1>4

-----------------------------------------------------------------------------
(***************************************************************************)
(* Goose, Zed and Mux: what is in no event yet is in a store that is still *)
(* to be read, after all that gave one.                                    *)
(***************************************************************************)
LEMMA StoreReading ==
    ASSUME harness \in Stores, NEW f \in Files
    PROVE  /\ ReadingOf(f).events = events \cup {StoreEvent(f, i) : i \in StoreRows(f)}
           /\ CallsOf(files[f], IF StoreKnown(f) THEN {} ELSE Rows(files[f], {"bad"})) \subseteq ReadingOf(f).reported
<1> DEFINE Key(i) == <<"session", session[f]>>
           rows == Rows(files[f], {"good"})
           R == First(rows, Key, events)
           unusable == IF StoreKnown(f) THEN {} ELSE Rows(files[f], {"bad"})
<1>1. /\ ReadingOf(f).events = events \cup {StoreEvent(f, i) : i \in R}
      /\ ReadingOf(f).reported = CallsOf(files[f], unusable \cup {i \in DOMAIN files[f] : files[f][i].cell = "torn"})
  <2>1. CASE harness = "goose"
    BY <2>1 DEF ReadingOf, Goose, FirstTotal, Reading, Counted, Never, StoreEvent, StoreKnown
  <2>2. CASE harness = "zed"
    BY <2>2 DEF ReadingOf, Zed, ZedRows, FirstTotal, Reading, Counted, Never, StoreEvent, StoreKnown
  <2>3. CASE harness = "mux"
    BY <2>3 DEF ReadingOf, Mux, FirstTotal, Reading, Counted, Never, StoreEvent, StoreKnown
  <2> QED BY <2>1, <2>2, <2>3 DEF Stores
<1>2. R = {i \in rows : ~StoreKnown(f) /\ \A j \in rows : ~(j < i)}
  BY DEF First, StoreKnown
<1>3. R = StoreRows(f)
  BY <1>2 DEF StoreRows
<1> HIDE DEF R
<1> QED BY <1>1, <1>3 DEF CallsOf

LEMMA ReadKeepsBelow ==
    ASSUME BelowInv, harness \in Stores, todo \subseteq Files, NEW f \in Files, Read(f)
    PROVE  BelowInv'
<1>1. /\ f \in todo /\ (\A g \in todo : f <= g) /\ todo' = todo \ {f} /\ harness' = harness
      /\ events' = ReadingOf(f).events
  BY DEF Read, Past
<1>2. events' = events \cup {StoreEvent(f, i) : i \in StoreRows(f)}
  BY <1>1, StoreReading
<1>3. \A i : StoreEvent(f, i).file = f
  BY DEF StoreEvent, Event
<1>4. \A g \in todo \ {f} : f < g
  BY <1>1, FilesAre
<1> QED BY <1>1, <1>2, <1>3, <1>4 DEF BelowInv

LEMMA StoreReadSettles ==
    ASSUME WorldInv, SnapInv, KeyedInv, BelowInv, harness \in Stores, NEW f \in Files, Read(f),
           NEW e \in Knowable(f)
    PROVE  CountsOf(e)' # {} \/ e \in reported' \/ Hidden(f)'
<1>1. /\ f \in todo /\ harness' = harness /\ session' = session
      /\ events' = ReadingOf(f).events /\ reported' = reported \cup ReadingOf(f).reported
  BY DEF Read, Past
<1> DEFINE ls == files[f]
           known == StoreKnown(f)
<1>2. /\ events' = events \cup {StoreEvent(f, i) : i \in StoreRows(f)}
      /\ CallsOf(ls, IF known THEN {} ELSE Rows(ls, {"bad"})) \subseteq reported'
  BY <1>1, StoreReading
<1>3. TypeInv /\ harness \in Snapshots /\ AllNamed
  BY DEF WorldInv, Stores, Snapshots, AllNamed
<1>4. DOMAIN ls = {1} /\ ls[1].kind = "call" /\ Fits(ls[1], session[f]) /\ Lines(f) = {ls[1]}
  <2>1. files[f] # <<>>
    BY DEF Knowable, Lines
  <2> QED BY <1>3, <2>1, SnapLine
<1>5. e \in ls[1].calls /\ ls[1].cell \in {"good", "bad"}
  <2>1. e \in ls[1].calls /\ ls[1].cell \in {"good", "bad", "torn"}
    BY <1>4 DEF Knowable
  <2>2. ls[1].cell # "torn"
    BY <1>4 DEF Fits, Marks, OddCells, Stores
  <2> QED BY <2>1, <2>2
<1>6. CASE known
  <2>1. PICK ev \in events : ev.key = <<"session", session[f]>>
    BY <1>6 DEF Keys, StoreKnown
  <2>2. ev.key = <<"session", ev.session>>
    BY <1>3 DEF KeyedInv, Accounted
  <2>3. ev.session = session[f] /\ ev.file < f
    BY <1>1, <2>1, <2>2 DEF BelowInv
  <2> QED BY <1>1, <1>2, <2>3 DEF Hidden, Stores
<1>7. CASE ~known /\ ls[1].cell = "bad"
  <2>1. 1 \in Rows(ls, {"bad"})
    BY <1>4, <1>7 DEF Rows, Holding
  <2> QED BY <1>2, <1>5, <1>7, <2>1 DEF CallsOf
<1>8. CASE ~known /\ ls[1].cell = "good"
  <2>1. Rows(ls, {"good"}) = {1}
    BY <1>4, <1>8 DEF Rows, Holding
  <2>2. 1 \in StoreRows(f)
    BY <1>8, <2>1 DEF StoreRows
  <2>3. StoreEvent(f, 1) \in events'
    BY <1>2, <2>2
  <2>4. e \in StoreEvent(f, 1).calls
    BY <1>5 DEF StoreEvent, Event
  <2> QED BY <2>3, <2>4 DEF CountsOf
<1> QED BY <1>5, <1>6, <1>7, <1>8

-----------------------------------------------------------------------------
(***************************************************************************)
(* DeepSeek: what an older log of a session has is in the newest one, or   *)
(* past where that one breaks off.                                         *)
(***************************************************************************)
LEMMA DeepReadLine ==
    ASSUME TypeInv, harness = "deepseek", NEW f \in Files, Read(f), session[f] \notin carried,
           NEW i \in DOMAIN files[f], files[f][i].cell \in {"good", "bad", "torn"}, NEW e \in files[f][i].calls
    PROVE  \/ CountsOf(e)' # {} \/ e \in reported'
           \/ quirk /\ \E j \in 1..i : files[f][j].cell = "torn"
<1> DEFINE ls == files[f]
           read == DeepseekLines(ls, quirk)
           rows == {k \in read \cap Rows(ls, {"good"}) : ls[k].dated}
           unusable == {k \in read \cap Rows(ls, {"good", "bad", "torn"}) : k \notin rows}
           E(k) == Event(f, session[f], ls[k], Place(f, k), TRUE)
<1>1. ReadingOf(f).events = events \cup {E(k) : k \in rows} /\ ReadingOf(f).reported = CallsOf(ls, unusable)
  BY DEF ReadingOf, Deepseek, Counted, Always
<1>2. events' = ReadingOf(f).events /\ reported' = reported \cup ReadingOf(f).reported
  BY DEF Read
<1>3. ls[i].kind = "call"
  <2>1. Fits(ls[i], session[f])
    BY DEF TypeInv
  <2> QED BY <2>1 DEF Fits, Marks, KindsOf, KeepsLedger
<1>4. i \in Rows(ls, {"good", "bad", "torn"}) /\ (ls[i].cell = "good" => i \in Rows(ls, {"good"}))
  BY <1>3 DEF Rows, Holding
<1>5. CASE i \notin read
  BY <1>5 DEF DeepseekLines
<1>6. CASE i \in rows
  <2>1. E(i) \in events' /\ e \in E(i).calls
    BY <1>1, <1>2, <1>6 DEF Event
  <2> QED BY <2>1 DEF CountsOf
<1>7. CASE i \in read /\ i \notin rows
  <2>1. i \in unusable
    BY <1>4, <1>7
  <2> QED BY <1>1, <1>2, <2>1 DEF CallsOf
<1> QED BY <1>5, <1>6, <1>7

LEMMA ReadKeepsMore ==
    ASSUME harness \in Harnesses, harness \notin {"kimi", "droid", "copilot"}, NEW f \in Files, Read(f), NEW e
    PROVE  /\ CountsOf(e) # {} => CountsOf(e)' # {}
           /\ e \in reported => e \in reported'
<1>1. events \subseteq events' /\ reported \subseteq reported'
  BY EventsGrow DEF Read
<1> QED BY <1>1 DEF CountsOf

LEMMA DeepReads ==
    ASSUME TypeInv, HeldInv, AgreeInv, DeepInv, harness = "deepseek", NEW f \in Files, Read(f),
           NEW g \in todo, session[g] = session[f], NEW e \in held[g]
    PROVE  CountsOf(e)' # {} \/ e \in reported' \/ CutOff(g)
<1>1. f \in todo /\ (\A h \in todo : f <= h) /\ f \in Int /\ g \in Files /\ g \in Int /\ session[f] # 0
  BY FilesAre DEF Read, Past, HeldInv
<1>2. CASE session[f] \in carried
  <2>1. CountsOf(e) # {} \/ e \in reported \/ CutOff(g)
    BY <1>2 DEF DeepInv
  <2>2. /\ CountsOf(e) # {} => CountsOf(e)' # {}
        /\ e \in reported => e \in reported'
    BY ReadKeepsMore DEF TypeInv
  <2> QED BY <2>1, <2>2
<1>3. CASE session[f] \notin carried
  <2>1. e \in Knowable(g)
    BY <1>1 DEF HeldInv, Rotates
  <2>2. PICK i \in DOMAIN files[g] : files[g][i].cell \in {"good", "bad", "torn"} /\ e \in files[g][i].calls
    BY <1>1, <2>1, KnowableCalls
  <2>3. f = g \/ f < g
    BY <1>1
  <2>4. DOMAIN files[g] \subseteq DOMAIN files[f] /\ \A j \in DOMAIN files[g] : files[f][j] = files[g][j]
    BY <1>1, <2>3 DEF AgreeInv, Agreeing
  <2>5. \/ CountsOf(e)' # {} \/ e \in reported'
        \/ quirk /\ \E j \in 1..i : files[f][j].cell = "torn"
    BY <1>3, <2>2, <2>4, DeepReadLine
  <2>6. 1..i \subseteq DOMAIN files[g]
    <3>1. files[g] \in Seq(Line)
      BY <1>1 DEF TypeInv
    <3>2. DOMAIN files[g] = 1..Len(files[g]) /\ Len(files[g]) \in Nat
      BY <3>1
    <3> QED BY <3>2
  <2>7. CASE quirk /\ \E j \in 1..i : files[f][j].cell = "torn"
    <3>1. PICK j \in 1..i : files[f][j].cell = "torn"
      BY <2>7
    <3>2. files[g][j] \in Lines(g) /\ files[g][j].cell = "torn"
      BY <2>4, <2>6, <3>1 DEF Lines
    <3> QED BY <2>7, <3>2 DEF CutOff
  <2> QED BY <2>5, <2>7
<1> QED BY <1>2, <1>3

LEMMA NextDeep ==
    ASSUME TypeInv, SnapInv, HeldInv, AgreeInv, DeepInv, [Next]_vars
    PROVE  DeepInv'
<1> SUFFICES ASSUME harness' = "deepseek", NEW f \in todo', session'[f] \in carried', NEW e \in held'[f]
             PROVE  CountsOf(e)' # {} \/ e \in reported' \/ CutOff(f)'
  BY DEF DeepInv
<1>1. CASE HarnessStep
  <2>1. UNCHANGED <<harness, quirk, todo, held, carried, events, reported>>
    BY <1>1, StepForm DEF reader
  <2>2. harness \notin Rotates \cup Snapshots /\ f \in Files /\ session[f] # 0
    BY <2>1 DEF Rotates, Snapshots, HeldInv
  <2>3. session'[f] = session[f] /\ Lines(f) \subseteq Lines(f)'
    BY <1>1, <2>2, LinesGrow
  <2>4. CountsOf(e) # {} \/ e \in reported \/ CutOff(f)
    BY <2>1, <2>3 DEF DeepInv
  <2> QED BY <2>1, <2>3, <2>4 DEF CountsOf, CutOff
<1>2. CASE ReaderStep \/ UNCHANGED vars
  <2>1. UNCHANGED <<harness, quirk, session, files>>
    BY <1>2, ReaderLeavesWorld
  <2>2. CutOff(f)' <=> CutOff(f)
    BY <2>1 DEF CutOff, Lines
  <2>3. CASE Begin
    BY <2>3 DEF Begin
  <2>4. CASE UNCHANGED vars
    BY <2>1, <2>2, <2>4 DEF vars, reader, DeepInv, CountsOf
  <2>5. CASE Select
    BY <2>1, <2>5 DEF Select
  <2>6. ASSUME NEW g \in Files, Unreadable(g)
        PROVE  CountsOf(e)' # {} \/ e \in reported' \/ CutOff(f)'
    <3>1. f \in todo /\ held' = held /\ carried' = carried /\ events' = events /\ reported \subseteq reported'
      BY <2>6 DEF Unreadable, Past
    <3>2. CountsOf(e) # {} \/ e \in reported \/ CutOff(f)
      BY <2>1, <3>1 DEF DeepInv
    <3> QED BY <2>2, <3>1, <3>2 DEF CountsOf
  <2>7. ASSUME NEW g \in Files, Read(g)
        PROVE  CountsOf(e)' # {} \/ e \in reported' \/ CutOff(f)'
    <3>1. f \in todo /\ held' = held
      BY <2>7 DEF Read, Past
    <3>2. carried' = carried \cup {session[g]}
      BY <2>1, <2>7 DEF Read
    <3>3. CASE session[f] = session[g]
      BY <2>1, <2>2, <2>7, <3>1, <3>3, DeepReads
    <3>4. CASE session[f] # session[g]
      <4>1. CountsOf(e) # {} \/ e \in reported \/ CutOff(f)
        BY <2>1, <3>1, <3>2, <3>4 DEF DeepInv
      <4>2. /\ CountsOf(e) # {} => CountsOf(e)' # {}
            /\ e \in reported => e \in reported'
        BY <2>1, <2>7, ReadKeepsMore DEF TypeInv
      <4> QED BY <2>2, <4>1, <4>2
    <3> QED BY <3>3, <3>4
  <2> QED BY <1>2, <2>3, <2>4, <2>5, <2>6, <2>7 DEF ReaderStep
<1> QED BY <1>1, <1>2, NextKinds

-----------------------------------------------------------------------------
(***************************************************************************)
(* fx: where the totals go on from each other, a call is in what the first *)
(* total with it adds.                                                     *)
(***************************************************************************)
LEMMA LatestHas ==
    ASSUME NEW s, NEW t, IsFiniteSet(t), s \subseteq t, \A d \in s, b \in t \ s : d[2] < b[2],
           \A d \in t : d[2] \in Nat, NEW e \in t \ s
    PROVE  /\ ~(Cardinality(t) < Cardinality(s))
           /\ e \in Latest(t, Cardinality(t) - Cardinality(s))
<1>1. /\ IsFiniteSet(t \ s) /\ Cardinality(t \ s) = Cardinality(t) - Cardinality(t \cap s)
      /\ t \cap s = s
  BY FS_Difference
<1>2. Cardinality(s) <= Cardinality(t) /\ IsFiniteSet(s)
  BY FS_Subset
<1>3. Cardinality(t \ s) = Cardinality(t) - Cardinality(s) /\ Cardinality(s) \in Nat /\ Cardinality(t) \in Nat
  BY <1>1, <1>2, FS_CardinalityType
<1> DEFINE later == {d \in t : d[2] > e[2]}
           rest == (t \ s) \ {e}
<1>4. ASSUME NEW d \in later PROVE d \in rest
  <2>1. d \in t /\ d[2] \in Nat /\ e[2] \in Nat /\ d[2] > e[2]
    OBVIOUS
  <2>2. d \notin s
    BY <2>1
  <2>3. d # e
    BY <2>1
  <2> QED BY <2>1, <2>2, <2>3
<1>5. IsFiniteSet(rest) /\ Cardinality(rest) = Cardinality(t \ s) - 1
  <2>1. e \in t \ s
    OBVIOUS
  <2> QED BY <1>1, <2>1, FS_RemoveElement
<1>6. later \subseteq rest
  BY <1>4
<1> HIDE DEF later, rest
<1>7. Cardinality(later) <= Cardinality(rest) /\ IsFiniteSet(later)
  BY <1>5, <1>6, FS_Subset
<1>8. Cardinality(later) \in Nat /\ Cardinality(rest) \in Nat /\ Cardinality(t \ s) \in Nat
  BY <1>1, <1>5, <1>7, FS_CardinalityType
<1>9. Cardinality(later) < Cardinality(t) - Cardinality(s)
  BY <1>3, <1>5, <1>7, <1>8
<1>10. e \in Latest(t, Cardinality(t) - Cardinality(s))
  BY <1>9 DEF Latest, later
<1> QED BY <1>2, <1>3, <1>10

LEMMA DeltaHas ==
    ASSUME NEW ls \in Seq(Line), Totals(ls), NEW i \in FxUsage(ls), NEW e \in ls[i].calls,
           \A d \in ls[i].calls : d[2] \in Nat,
           \A k \in FxUsage(ls) : k < i => e \notin ls[k].calls,
           \A k \in CallLines(ls) : ls[k].calls \subseteq ls[i].calls \/ ls[i].calls \subseteq ls[k].calls
    PROVE  e \in FxDelta(ls, i)
<1>1. \A k \in FxUsage(ls) : k \in CallLines(ls) /\ k \in DOMAIN ls
  BY DEF FxUsage, Rows, Holding, CallLines
<1>2. Len(ls) \in Nat /\ DOMAIN ls = 1..Len(ls)
  OBVIOUS
<1> DEFINE before == {k \in FxUsage(ls) : k < i}
           p == CHOOSE k \in before : \A m \in before : m <= k
           s == IF before = {} THEN {} ELSE ls[p].calls
           t == ls[i].calls
           previous == IF before = {} THEN 0
                       ELSE Cardinality(ls[CHOOSE k \in before : \A m \in before : m <= k].calls)
<1>3. FxDelta(ls, i) = Latest(t, IF Cardinality(t) < previous THEN Cardinality(t)
                                 ELSE Cardinality(t) - previous)
  BY Zenon DEF FxDelta
<1>4. previous = Cardinality(s)
  <2>1. CASE before = {}
    <3>1. Cardinality({}) = 0
      BY FS_EmptySet
    <3> QED BY <2>1, <3>1
  <2>2. CASE before # {}
    BY <2>2
  <2> QED BY <2>1, <2>2
<1>5. IsFiniteSet(t)
  BY <1>1 DEF Totals
<1>6. s \subseteq t /\ e \notin s /\ \A d \in s, b \in t \ s : d[2] < b[2]
  <2>1. CASE before = {}
    BY <2>1
  <2>2. CASE before # {}
    <3>1. before \subseteq 1..Len(ls)
      BY <1>1, <1>2
    <3>2. \E k \in before : \A m \in before : m <= k
      BY <1>2, <2>2, <3>1, GreatestOf
    <3>3. p \in before
      BY <3>2
    <3>4. p \in FxUsage(ls) /\ p < i /\ s = ls[p].calls
      BY <2>2, <3>3
    <3> HIDE DEF before, p, s, previous
    <3>5. e \notin s /\ Continues(s, t)
      BY <1>1, <3>4 DEF Totals
    <3>6. s \subseteq t
      BY <1>1, <3>4, <3>5
    <3> QED BY <3>5, <3>6 DEF Continues
  <2> QED BY <2>1, <2>2
<1> HIDE DEF before, p, s, t, previous
<1>7. /\ ~(Cardinality(t) < Cardinality(s))
      /\ e \in Latest(t, Cardinality(t) - Cardinality(s))
  <2>1. e \in t \ s /\ \A d \in t : d[2] \in Nat
    BY <1>6 DEF t
  <2> QED BY <1>5, <1>6, <2>1, LatestHas
<1> QED BY <1>3, <1>4, <1>7

LEMMA FxReadSettles ==
    ASSUME TypeInv, LogInv, harness = "fx", NEW f \in Files, Read(f), NEW e \in Knowable(f), ~Restarted(f)
    PROVE  CountsOf(e)' # {} \/ e \in reported'
<1>1. events' = ReadingOf(f).events /\ reported' = reported \cup ReadingOf(f).reported
  BY DEF Read
<1> DEFINE ls == files[f]
           rows == {i \in FxUsage(ls) : FxDelta(ls, i) # {}}
           Commits(c) == ls[c].kind = "commit" /\ ls[c].cell # "torn"
           Turn(i) == \E c \in DOMAIN ls : /\ Commits(c) /\ i < c
                                           /\ \A j \in rows : j <= i \/ c < j
           E(i) == Event(f, session[f], [ls[i] EXCEPT !.calls = FxDelta(ls, i)], Place(f, i), Turn(i))
           unusable == Rows(ls, {"bad"}) \cup {i \in DOMAIN ls : ls[i].cell = "torn"}
<1>2. events' = events \cup {E(i) : i \in rows} /\ CallsOf(ls, unusable) \subseteq reported'
  BY <1>1 DEF ReadingOf, Fx, Reading
<1>3. ls \in Seq(Line) /\ Totals(ls) /\ Len(ls) \in Nat /\ DOMAIN ls = 1..Len(ls)
  BY DEF TypeInv, LogInv
<1>4. PICK i \in DOMAIN ls : ls[i].cell \in {"good", "bad", "torn"} /\ e \in ls[i].calls
  BY KnowableCalls
<1>5. \A j \in DOMAIN ls : e \in ls[j].calls => ls[j].kind = "call"
  <2> SUFFICES ASSUME NEW j \in DOMAIN ls, e \in ls[j].calls PROVE ls[j].kind = "call"
    OBVIOUS
  <2>1. Fits(ls[j], session[f])
    BY DEF TypeInv
  <2> QED BY <2>1 DEF Fits, Marks, KindsOf, KeepsLedger
<1>6. CASE ls[i].cell \in {"bad", "torn"}
  <2>1. i \in unusable
    BY <1>4, <1>5, <1>6 DEF Rows, Holding
  <2> QED BY <1>2, <1>4, <2>1 DEF CallsOf
<1>7. CASE ls[i].cell = "good"
  <2> DEFINE S == {j \in FxUsage(ls) : e \in ls[j].calls}
  <2>1. i \in S
    BY <1>4, <1>5, <1>7 DEF FxUsage, Rows, Holding
  <2>2. FxUsage(ls) \subseteq DOMAIN ls /\ FxUsage(ls) \subseteq CallLines(ls)
    BY DEF FxUsage, Rows, Holding, CallLines
  <2>3. S \in SUBSET Nat /\ S # {}
    BY <1>3, <2>1, <2>2
  <2>4. PICK m \in S : \A k \in S : m <= k
    BY <2>3, LeastOf
  <2>5. m \in FxUsage(ls) /\ e \in ls[m].calls /\ m \in DOMAIN ls
    BY <2>2
  <2>6. \A k \in FxUsage(ls) : k < m => e \notin ls[k].calls
    <3> SUFFICES ASSUME NEW k \in FxUsage(ls), k < m, e \in ls[k].calls PROVE FALSE
      OBVIOUS
    <3>1. k \in S /\ m \in S
      BY <2>5
    <3>2. k \in Nat /\ m \in Nat /\ m <= k
      BY <2>3, <2>4, <3>1
    <3> QED BY <3>2
  <2>7. \A k \in CallLines(ls) : ls[k].calls \subseteq ls[m].calls \/ ls[m].calls \subseteq ls[k].calls
    <3> SUFFICES ASSUME NEW k \in CallLines(ls)
                 PROVE  ls[k].calls \subseteq ls[m].calls \/ ls[m].calls \subseteq ls[k].calls
      OBVIOUS
    <3>1. ls[k] \in Lines(f) /\ ls[m] \in Lines(f) /\ ls[k].kind = "call" /\ ls[m].kind = "call"
      BY <2>2, <2>5 DEF Lines, CallLines
    <3> QED BY <3>1 DEF Restarted
  <2>8. \A d \in ls[m].calls : d[2] \in Nat
    <3>1. ls[m] \in Line
      BY <1>3, <2>5
    <3>2. ls[m].calls \subseteq Entries
      BY <3>1 DEF Line, Calls
    <3> QED BY <3>2, EntryTypes
  <2>9. e \in FxDelta(ls, m)
    BY <1>3, <2>5, <2>6, <2>7, <2>8, DeltaHas
  <2>10. m \in rows
    BY <2>5, <2>9
  <2>11. E(m).calls = FxDelta(ls, m)
    <3>1. ls[m] \in Line
      BY <1>3, <2>5
    <3>2. [ls[m] EXCEPT !.calls = FxDelta(ls, m)].calls = FxDelta(ls, m)
      BY <3>1 DEF Line
    <3> QED BY <3>2 DEF Event
  <2>12. E(m) \in events'
    BY <1>2, <2>10
  <2> HIDE DEF E
  <2> QED BY <2>9, <2>11, <2>12 DEF CountsOf
<1> QED BY <1>4, <1>6, <1>7

-----------------------------------------------------------------------------
(***************************************************************************)
(* Droid: of the files of a session the one written last has all the calls *)
(* of the others.                                                          *)
(***************************************************************************)
LEMMA LogKeepsDroid ==
    ASSUME TypeInv, SnapInv, DroidInv, harness = "droid", NEW f \in Files, NEW e \in Entries, Log(f, e)
    PROVE  /\ DroidInv' /\ e \notin Total(f)
           /\ \A g \in Files : ~(e \in Total(g))
           /\ \A g \in Files \ {f} : files'[g] = files[g] /\ session'[g] = session[g]
           /\ Total(f)' = {e} \cup Total(f) /\ (session[f] # 0 => session'[f] = session[f])
<1>1. /\ harness \in Snapshots /\ harness' = harness /\ e \in Given("droid") /\ ~Logged(e)
      /\ age' = {p \in age : f \notin {p[1], p[2]}} \cup ({f} \X (Files \ {f}))
  BY DEF Snapshots, Log, Rewritten, Touched, Follows
<1> DEFINE before == {d \in Given(harness) : Precedes(d, e)}
<1>2. \/ session[f] = e[1] /\ \E k \in Lines(f) : \A d \in before : d[2] <= k.entry[2]
      \/ session[f] = 0 /\ before = {}
  BY <1>1 DEF Log, Follows, SpansFiles
<1>3. PICK l \in Line :
        /\ files' = [files EXCEPT ![f] = <<l>>] /\ session' = [session EXCEPT ![f] = e[1]]
        /\ session[f] \in {0, e[1]} /\ l.entry = e
        /\ \/ files[f] = <<>> /\ l.calls = {e}
           \/ files[f] # <<>> /\ l.calls = {e} \cup files[f][1].calls
  BY <1>1, SnapLog
<1>4. /\ \A d \in Given("droid") : d = <<d[1], d[2]>> /\ d[1] # 0 /\ d[2] \in Nat /\ d \in Calls
      /\ harness \in Harnesses
  BY GivenTypes, EntryTypes DEF TypeInv, Snapshots
<1>5. /\ files'[f] = <<l>> /\ session'[f] = e[1]
      /\ \A g \in Files \ {f} : files'[g] = files[g] /\ session'[g] = session[g]
  BY <1>3 DEF TypeInv
<1>6. Lines(f)' = {l} /\ \A g \in Files \ {f} : Lines(g)' = Lines(g)
  BY <1>5 DEF Lines
<1>7. \A g \in Files : \A k \in Lines(g) :
        /\ k.calls = Upto(k.entry) /\ k.entry \in Given("droid") /\ k.entry[1] = session[g]
        /\ e \notin k.calls
  <2> SUFFICES ASSUME NEW g \in Files, NEW k \in Lines(g)
               PROVE  /\ k.calls = Upto(k.entry) /\ k.entry \in Given("droid") /\ k.entry[1] = session[g]
                      /\ e \notin k.calls
    OBVIOUS
  <2>1. Fits(k, session[g]) /\ k \in Written
    BY InLines
  <2> QED BY <1>1, <2>1 DEF Fits, DroidInv, Logged
<1>8. l.calls = Upto(e)
  <2>1. CASE files[f] = <<>>
    <3>1. Lines(f) = {}
      BY <2>1 DEF Lines
    <3>2. before = {}
      BY <1>2, <3>1
    <3>3. ASSUME NEW d \in Given("droid"), d[1] = e[1], d[2] <= e[2] PROVE d = e
      <4>1. ~(d[2] < e[2])
        BY <3>2, <3>3 DEF Precedes, SameSession
      <4>2. d[2] = e[2]
        BY <1>1, <1>4, <3>3, <4>1
      <4> QED BY <1>1, <1>4, <3>3, <4>2
    <3>4. Upto(e) = {e}
      <4>1. e[2] <= e[2]
        BY <1>1, <1>4
      <4> QED BY <1>1, <3>3, <4>1 DEF Upto
    <3> QED BY <1>3, <2>1, <3>4
  <2>2. CASE files[f] # <<>>
    <3> DEFINE k == files[f][1]
    <3>1. Lines(f) = {k}
      BY <1>1, <2>2, SnapLine
    <3>2. k.calls = Upto(k.entry) /\ k.entry \in Given("droid") /\ k.entry[1] = session[f] /\ e \notin k.calls
      BY <1>7, <3>1
    <3>3. session[f] = e[1] /\ \A d \in before : d[2] <= k.entry[2]
      BY <1>2, <1>4, <3>1, <3>2
    <3>4. k.entry[2] < e[2]
      <4>1. k.entry[2] \in Nat /\ e[2] \in Nat
        BY <1>1, <1>4, <3>2
      <4>2. ~(e[2] <= k.entry[2])
        BY <1>1, <3>2, <3>3 DEF Upto
      <4> QED BY <4>1, <4>2
    <3>5. ASSUME NEW d \in Given("droid"), d[1] = e[1]
          PROVE  d[2] <= e[2] <=> d = e \/ d[2] <= k.entry[2]
      <4>1. d[2] \in Nat /\ e[2] \in Nat /\ k.entry[2] \in Nat
        BY <1>1, <1>4, <3>2
      <4>2. d[2] < e[2] => d[2] <= k.entry[2]
        BY <1>1, <3>3, <3>5 DEF Precedes, SameSession
      <4>3. d[2] = e[2] => d = e
        BY <1>1, <1>4, <3>5
      <4> QED BY <3>4, <4>1, <4>2, <4>3
    <3>6. Upto(e) = {e} \cup Upto(k.entry)
      BY <1>1, <3>2, <3>3, <3>5 DEF Upto
    <3> QED BY <1>3, <2>2, <3>2, <3>6
  <2> QED BY <2>1, <2>2
<1>9. Total(f)' = Upto(e) /\ \A g \in Files \ {f} : Total(g)' = Total(g)
  BY <1>6, <1>8 DEF Total
<1>10. \A g \in Files : e \notin Total(g)
  BY <1>7 DEF Total
<1>11. Total(f)' = {e} \cup Total(f)
  <2>1. CASE files[f] = <<>>
    <3>1. Lines(f) = {}
      BY <2>1 DEF Lines
    <3> QED BY <1>3, <1>6, <2>1, <3>1 DEF Total
  <2>2. CASE files[f] # <<>>
    <3>1. Lines(f) = {files[f][1]}
      BY <1>1, <2>2, SnapLine
    <3> QED BY <1>3, <1>6, <2>2, <3>1 DEF Total
  <2> QED BY <2>1, <2>2
<1>12. ASSUME NEW g \in Files \ {f}, session[g] = e[1] PROVE Total(g) \subseteq Upto(e)
  <2> SUFFICES ASSUME NEW k \in Lines(g), NEW d \in k.calls PROVE d \in Upto(e)
    BY DEF Total
  <2>1. /\ d \in Given("droid") /\ d[1] = e[1] /\ d[2] <= k.entry[2] /\ k.entry[1] = e[1]
        /\ k.entry \in Given("droid") /\ e \notin Upto(k.entry)
    BY <1>7, <1>12 DEF Upto
  <2>2. ~(e[2] <= k.entry[2])
    BY <1>1, <2>1 DEF Upto
  <2>3. d[2] \in Nat /\ e[2] \in Nat /\ k.entry[2] \in Nat
    BY <1>1, <1>4, <2>1
  <2>4. d[2] <= e[2]
    BY <2>1, <2>2, <2>3
  <2> QED BY <2>1, <2>4 DEF Upto
<1>13. \A g \in Files \ {f} : Newer(f, g)' /\ ~Newer(g, f)'
  BY <1>1 DEF Newer
<1>14. \A g, h \in Files \ {f} : Newer(g, h)' <=> Newer(g, h)
  BY <1>1 DEF Newer
<1>15. \A g \in Files : \A k \in Lines(g)' : k.calls = Upto(k.entry)
  BY <1>3, <1>6, <1>7, <1>8
<1>16. ASSUME NEW g \in Files, NEW h \in Files, g # h, session'[g] = session'[h], session'[g] # 0
       PROVE  Newer(g, h)' \/ Newer(h, g)'
  <2>1. CASE g = f \/ h = f
    BY <1>13, <1>16, <2>1
  <2>2. CASE g # f /\ h # f
    BY <1>5, <1>14, <1>16, <2>2 DEF DroidInv
  <2> QED BY <2>1, <2>2
<1>17. ASSUME NEW g \in Files, NEW h \in Files, session'[g] = session'[h], session'[g] # 0, Newer(g, h)'
       PROVE  Total(h)' \subseteq Total(g)'
  <2>1. CASE g = h
    BY <2>1
  <2>2. CASE g # h /\ h = f
    BY <1>13, <1>17, <2>2
  <2>3. CASE g # h /\ g = f
    BY <1>5, <1>9, <1>12, <1>17, <2>3
  <2>4. CASE g # f /\ h # f
    BY <1>5, <1>9, <1>14, <1>17, <2>4 DEF DroidInv
  <2> QED BY <2>1, <2>2, <2>3, <2>4
<1>18. DroidInv'
  BY <1>15, <1>16, <1>17 DEF DroidInv
<1>19. session[f] # 0 => session'[f] = session[f]
  BY <1>3, <1>5
<1> QED BY <1>5, <1>10, <1>11, <1>18, <1>19

LEMMA CopyKeepsDroid ==
    ASSUME TypeInv, DroidInv, harness = "droid", harness' = harness,
           NEW f \in Files, NEW g \in Files, Copy(f, g), Moves(f, g)
    PROVE  /\ DroidInv' /\ session[g] = 0
           /\ \A h \in Files \ {g} : files'[h] = files[h] /\ session'[h] = session[h]
<1>1. /\ age' = {p \in age : g \notin {p[1], p[2]}} \cup ({g} \X (Files \ {g}))
      /\ \A h \in Files : session[h] = session[f] => ~Newer(h, f)
      /\ session[f] # 0 /\ session[g] = 0
  BY DEF Copy, Touched
<1>2. /\ f # g /\ files'[g] = files[f] /\ session'[g] = session[f]
      /\ \A h \in Files \ {g} : files'[h] = files[h] /\ session'[h] = session[h]
  BY AfterMoves DEF Rotates
<1>3. /\ Lines(g)' = Lines(f) /\ Total(g)' = Total(f)
      /\ \A h \in Files \ {g} : Lines(h)' = Lines(h) /\ Total(h)' = Total(h)
  BY <1>2 DEF Lines, Total
<1>4. \A h \in Files \ {g} : Newer(g, h)' /\ ~Newer(h, g)'
  BY <1>1 DEF Newer
<1>5. \A h, k \in Files \ {g} : Newer(h, k)' <=> Newer(h, k)
  BY <1>1 DEF Newer
<1>6. ASSUME NEW h \in Files \ {g}, session[h] = session[f] PROVE Total(h) \subseteq Total(f)
  <2>1. CASE h = f
    BY <2>1
  <2>2. CASE h # f
    <3>1. Newer(f, h)
      BY <1>1, <1>6, <2>2 DEF DroidInv
    <3> QED BY <1>1, <1>6, <3>1 DEF DroidInv
  <2> QED BY <2>1, <2>2
<1>7. \A h \in Files : \A l \in Lines(h)' : l.calls = Upto(l.entry)
  BY <1>3 DEF DroidInv
<1>8. ASSUME NEW h \in Files, NEW k \in Files, h # k, session'[h] = session'[k], session'[h] # 0
      PROVE  Newer(h, k)' \/ Newer(k, h)'
  <2>1. CASE h = g \/ k = g
    BY <1>4, <1>8, <2>1
  <2>2. CASE h # g /\ k # g
    BY <1>2, <1>5, <1>8, <2>2 DEF DroidInv
  <2> QED BY <2>1, <2>2
<1>9. ASSUME NEW h \in Files, NEW k \in Files, session'[h] = session'[k], session'[h] # 0, Newer(h, k)'
      PROVE  Total(k)' \subseteq Total(h)'
  <2>1. CASE h = k
    BY <2>1
  <2>2. CASE h # k /\ k = g
    BY <1>4, <1>9, <2>2
  <2>3. CASE h # k /\ h = g
    BY <1>2, <1>3, <1>6, <1>9, <2>3
  <2>4. CASE h # g /\ k # g
    BY <1>2, <1>3, <1>5, <1>9, <2>4 DEF DroidInv
  <2> QED BY <2>1, <2>2, <2>3, <2>4
<1>10. DroidInv'
  BY <1>7, <1>8, <1>9 DEF DroidInv
<1> QED BY <1>1, <1>2, <1>10

LEMMA HarnessKeepsDroid ==
    ASSUME TypeInv, SnapInv, HeldInv, DroidInv, DroidEvents, harness = "droid", HarnessStep
    PROVE  DroidInv' /\ DroidEvents'
<1>1. harness' = harness /\ events' = events /\ todo' = todo /\ held' = held
  BY StepForm DEF reader
<1>2. harness \in Snapshots /\ harness \notin Rotates
  BY DEF Snapshots, Rotates
<1>3. ASSUME NEW f \in Files, NEW e \in Entries, Log(f, e) PROVE DroidInv' /\ DroidEvents'
  <2>1. /\ DroidInv' /\ e \notin Total(f)
        /\ \A g \in Files : ~(e \in Total(g))
        /\ \A g \in Files \ {f} : files'[g] = files[g] /\ session'[g] = session[g]
        /\ Total(f)' = {e} \cup Total(f) /\ (session[f] # 0 => session'[f] = session[f])
    BY <1>3, LogKeepsDroid
  <2>2. \A g \in Files \ {f} : Total(g)' = Total(g)
    BY <2>1 DEF Total, Lines
  <2>3. \A g \in todo : \A d \in held[g] : d # e
    <3> SUFFICES ASSUME NEW g \in todo, NEW d \in held[g] PROVE d # e
      OBVIOUS
    <3>1. g \in Files /\ d \in Knowable(g)
      BY <1>2 DEF HeldInv
    <3>2. d \in Total(g)
      BY <3>1 DEF Knowable, Total
    <3> QED BY <2>1, <3>1, <3>2
  <2>4. \A g \in Files : session[g] # 0 => session'[g] = session[g]
    BY <2>1
  <2>5. \A g \in todo : session[g] # 0 /\ g \in Files
    BY <1>2 DEF HeldInv
  <2>6. ASSUME NEW ev \in events
        PROVE  /\ ev.file \in Files /\ ev.session # 0 /\ session'[ev.file] = ev.session
               /\ ev.key = <<"session", ev.session>>
               /\ ev.calls \subseteq Total(ev.file)'
               /\ \A g \in todo : session'[g] = ev.session =>
                       \A d \in held[g] : d \in ev.calls \/ d \notin Total(ev.file)'
    <3>1. /\ ev.file \in Files /\ ev.session # 0 /\ session[ev.file] = ev.session
          /\ ev.key = <<"session", ev.session>>
          /\ ev.calls \subseteq Total(ev.file)
          /\ \A g \in todo : session[g] = ev.session =>
                  \A d \in held[g] : d \in ev.calls \/ d \notin Total(ev.file)
      BY DEF DroidEvents
    <3>2. Total(ev.file) \subseteq Total(ev.file)' /\ Total(ev.file)' \subseteq {e} \cup Total(ev.file)
      BY <2>1, <2>2, <3>1
    <3>3. session'[ev.file] = ev.session
      BY <2>4, <3>1
    <3>4. \A g \in todo : session'[g] = ev.session =>
             \A d \in held[g] : d \in ev.calls \/ d \notin Total(ev.file)'
      BY <2>3, <2>4, <2>5, <3>1, <3>2
    <3> QED BY <3>1, <3>2, <3>3, <3>4
  <2> QED BY <1>1, <2>1, <2>6 DEF DroidEvents
<1>4. ASSUME NEW f \in Files, NEW g \in Files, Copy(f, g), Moves(f, g) PROVE DroidInv' /\ DroidEvents'
  <2>1. /\ DroidInv' /\ session[g] = 0
        /\ \A h \in Files \ {g} : files'[h] = files[h] /\ session'[h] = session[h]
    BY <1>1, <1>4, CopyKeepsDroid
  <2>2. \A h \in Files \ {g} : Total(h)' = Total(h)
    BY <2>1 DEF Total, Lines
  <2>3. \A h \in todo : session[h] # 0 /\ h \in Files /\ h # g
    BY <1>2, <2>1 DEF HeldInv
  <2>4. \A ev \in events : ev.file # g
    BY <2>1 DEF DroidEvents
  <2>5. DroidEvents'
    BY <1>1, <2>1, <2>2, <2>3, <2>4 DEF DroidEvents
  <2> QED BY <2>1, <2>5
<1> QED BY <1>2, <1>3, <1>4, SnapSteps

LEMMA DroidLine ==
    ASSUME TypeInv, SnapInv, DroidInv, harness = "droid", NEW f \in Files, session[f] # 0
    PROVE  /\ files[f] # <<>> /\ Lines(f) = {files[f][1]} /\ 1 \in DOMAIN files[f]
           /\ files[f][1].cell \in {"good", "zero", "bad"} /\ files[f][1].full
           /\ files[f][1].kind = "call"
           /\ files[f][1].entry \in Given("droid") /\ files[f][1].entry[1] = session[f]
           /\ Total(f) = Upto(files[f][1].entry) /\ files[f][1].entry \in Total(f)
<1>1. harness \in Snapshots
  BY DEF Snapshots
<1>2. files[f] # <<>>
  BY <1>1 DEF SnapInv
<1>3. /\ Lines(f) = {files[f][1]} /\ DOMAIN files[f] = {1} /\ files[f][1].kind = "call"
      /\ Fits(files[f][1], session[f])
  BY <1>1, <1>2, SnapLine
<1>4. /\ files[f][1].cell \in {"good", "zero", "bad"} /\ files[f][1].full
      /\ files[f][1].entry \in Given("droid") /\ files[f][1].entry[1] = session[f]
  BY <1>3 DEF Fits, Marks, OddCells, Streams
<1>5. Total(f) = Upto(files[f][1].entry)
  BY <1>3 DEF Total, DroidInv
<1>6. files[f][1].entry \in Upto(files[f][1].entry)
  <2>1. files[f][1].entry[2] \in Nat /\ harness \in Harnesses
    BY <1>4, GivenTypes, EntryTypes DEF TypeInv, Snapshots
  <2> QED BY <1>4, <2>1 DEF Upto
<1> QED BY <1>2, <1>3, <1>4, <1>5, <1>6

LEMMA DroidReads ==
    ASSUME TypeInv, SnapInv, DroidInv, DroidEvents, harness = "droid", NEW f \in Files, Read(f)
    PROVE  /\ files[f][1].cell = "bad" => Total(f) \subseteq reported'
           /\ \/ /\ events' = events
                 /\ \/ files[f][1].cell = "bad"
                    \/ \E ev \in events \ Older(f) : ev.session = session[f]
              \/ /\ files[f][1].cell \in {"good", "zero"}
                 /\ \E ev : /\ events' = (events \ Older(f)) \cup {ev}
                            /\ ev.file = f /\ ev.session = session[f] /\ ev.calls = Total(f)
                            /\ ev.key = <<"session", session[f]>>
                            /\ ev.full <=> files[f][1].cell = "good"
<1>1. /\ f \in todo /\ session[f] # 0 /\ events' = ReadingOf(f).events
      /\ reported' = reported \cup ReadingOf(f).reported
  BY DEF Read, Past
<1> DEFINE ls == files[f]
           key == <<"session", session[f]>>
           rows == Rows(ls, {"good", "zero"})
           Key(i) == key
           old == {ev \in events : ev.key = key /\ ev.file \notin {g \in Files : Newer(g, f)}}
           R == First(rows, Key, events \ old)
           E(i) == Event(f, session[f], ls[i], key, FALSE)
<1>2. /\ events' = (IF R = {} THEN events ELSE events \ old) \cup {E(i) : i \in R}
      /\ CallsOf(ls, Rows(ls, {"bad"})) \subseteq reported'
  BY <1>1 DEF ReadingOf, Droid, Reading, Counted, Never, CallsOf
<1>3. /\ Lines(f) = {ls[1]} /\ ls[1].kind = "call" /\ 1 \in DOMAIN ls
      /\ ls[1].cell \in {"good", "zero", "bad"} /\ ls[1].full
  BY <1>1, DroidLine
<1>4. DOMAIN ls = {1}
  <2>1. harness \in Snapshots /\ ls # <<>>
    BY <1>1, DroidLine DEF Snapshots
  <2> QED BY <2>1, SnapLine
<1>5. Total(f) = ls[1].calls
  BY <1>3 DEF Total
<1>6. rows \subseteq {1} /\ (ls[1].cell \in {"good", "zero"} => rows = {1})
      /\ (rows # {} => ls[1].cell \in {"good", "zero"})
  BY <1>3, <1>4 DEF Rows, Holding
<1>7. old = Older(f)
  <2>1. \A ev \in events : ev.key = <<"session", ev.session>> /\ ev.file \in Files
    BY DEF DroidEvents
  <2> QED BY <2>1 DEF Older
<1>8. R = {i \in rows : \A ev \in events \ old : ev.key # key}
  <2>1. R = {i \in rows : key \notin Keys(events \ old) /\ \A j \in rows : ~(j < i)}
    BY DEF First
  <2>2. key \notin Keys(events \ old) <=> \A ev \in events \ old : ev.key # key
    BY DEF Keys
  <2>3. ~(1 < 1)
    OBVIOUS
  <2> HIDE DEF R, rows, old, key
  <2>4. \A i, j \in rows : ~(j < i)
    BY <1>6, <2>3
  <2> QED BY <2>1, <2>2, <2>4
<1>9. \A ev \in events : ev.key = key => ev.session = session[f]
  BY DEF DroidEvents
<1>10. /\ E(1).file = f /\ E(1).session = session[f] /\ E(1).calls = Total(f)
       /\ E(1).key = <<"session", session[f]>> /\ (E(1).full <=> ls[1].cell = "good")
  BY <1>3, <1>5 DEF Event
<1>11. ls[1].cell = "bad" => Total(f) \subseteq reported'
  <2> SUFFICES ASSUME ls[1].cell = "bad" PROVE Total(f) \subseteq reported'
    OBVIOUS
  <2>1. 1 \in Rows(ls, {"bad"})
    BY <1>3 DEF Rows, Holding
  <2> QED BY <1>2, <1>5, <2>1 DEF CallsOf
<1> HIDE DEF E, old, rows, key, R
<1>12. CASE R = {}
  <2>1. events' = events
    BY <1>2, <1>12
  <2>2. ls[1].cell = "bad" \/ \E ev \in events \ Older(f) : ev.session = session[f]
    BY <1>3, <1>6, <1>7, <1>8, <1>9, <1>12
  <2> QED BY <1>11, <2>1, <2>2
<1>13. CASE R # {}
  <2>1. R = {1} /\ ls[1].cell \in {"good", "zero"}
    BY <1>6, <1>8, <1>13
  <2>2. events' = (events \ Older(f)) \cup {E(1)}
    BY <1>2, <1>7, <2>1
  <2> QED BY <1>10, <1>11, <2>1, <2>2
<1> QED BY <1>12, <1>13

LEMMA DroidReading ==
    ASSUME TypeInv, SnapInv, HeldInv, DroidInv, DroidEvents, harness = "droid", NEW f \in Files, Read(f)
    PROVE  /\ \A ev \in events' : \/ ev \in events
                                  \/ /\ ev.file = f /\ ev.session = session[f] /\ ev.calls = Total(f)
                                     /\ ev.key = <<"session", session[f]>>
           /\ \A e : CountsOf(e) # {} => CountsOf(e)' # {}
           /\ \A e \in held[f] : CountsOf(e)' # {} \/ e \in reported'
<1>1. f \in todo /\ session[f] # 0
  BY DEF Read, Past
<1>2. \A ev \in events : /\ ev.file \in Files /\ session[ev.file] = ev.session
                         /\ ev.calls \subseteq Total(ev.file)
                         /\ session[f] = ev.session =>
                                 \A e \in held[f] : e \in ev.calls \/ e \notin Total(ev.file)
  BY <1>1 DEF DroidEvents
<1>3. ASSUME NEW ev \in Older(f) PROVE ev.calls \subseteq Total(f)
  <2>1. ev \in events /\ ev.session = session[f] /\ ~Newer(ev.file, f)
    BY DEF Older
  <2>2. CASE ev.file = f
    BY <1>2, <2>1, <2>2
  <2>3. CASE ev.file # f
    <3>1. Newer(f, ev.file)
      BY <1>1, <1>2, <2>1, <2>3 DEF DroidInv
    <3> QED BY <1>1, <1>2, <2>1, <3>1 DEF DroidInv
  <2> QED BY <2>2, <2>3
<1>4. \A e \in held[f] : e \in Total(f)
  <2>1. harness \notin Rotates
    BY DEF Rotates
  <2> QED BY <2>1 DEF HeldInv, Knowable, Total
<1>5. ASSUME NEW ev \in events \ Older(f), ev.session = session[f], NEW e \in held[f] PROVE e \in ev.calls
  <2>1. Newer(ev.file, f)
    BY <1>5 DEF Older
  <2>2. Total(f) \subseteq Total(ev.file)
    BY <1>1, <1>2, <1>5, <2>1 DEF DroidInv
  <2> QED BY <1>2, <1>4, <1>5, <2>2
<1>6. /\ files[f][1].cell = "bad" => Total(f) \subseteq reported'
      /\ \/ /\ events' = events
            /\ \/ files[f][1].cell = "bad"
               \/ \E ev \in events \ Older(f) : ev.session = session[f]
         \/ /\ files[f][1].cell \in {"good", "zero"}
            /\ \E ev : /\ events' = (events \ Older(f)) \cup {ev}
                       /\ ev.file = f /\ ev.session = session[f] /\ ev.calls = Total(f)
                       /\ ev.key = <<"session", session[f]>>
                       /\ ev.full <=> files[f][1].cell = "good"
  BY DroidReads
<1>7. CASE events' = events /\ files[f][1].cell = "bad"
  BY <1>4, <1>6, <1>7 DEF CountsOf
<1>8. CASE events' = events /\ \E ev \in events \ Older(f) : ev.session = session[f]
  <2>1. \A e \in held[f] : CountsOf(e)' # {}
    BY <1>5, <1>8 DEF CountsOf
  <2> QED BY <1>8, <2>1 DEF CountsOf
<1>9. ASSUME NEW av, events' = (events \ Older(f)) \cup {av}, av.file = f, av.session = session[f],
             av.calls = Total(f), av.key = <<"session", session[f]>>
      PROVE  /\ \A ev \in events' : ev \in events \/ ev = av
             /\ \A e : CountsOf(e) # {} => CountsOf(e)' # {}
             /\ \A e \in held[f] : CountsOf(e)' # {}
  <2>1. \A e : CountsOf(e) # {} => CountsOf(e)' # {}
    BY <1>3, <1>9 DEF CountsOf
  <2> QED BY <1>4, <1>9, <2>1 DEF CountsOf
<1> QED BY <1>6, <1>7, <1>8, <1>9

LEMMA NextDroid ==
    ASSUME TypeInv, SnapInv, HeldInv, DroidInv, DroidEvents, [Next]_vars
    PROVE  DroidInv' /\ DroidEvents'
<1>1. CASE HarnessStep
  <2>1. harness' = harness
    BY <1>1, StepForm
  <2> QED BY <1>1, <2>1, HarnessKeepsDroid DEF DroidInv, DroidEvents
<1>2. CASE ReaderStep \/ UNCHANGED vars
  <2>1. UNCHANGED <<harness, quirk, session, files, age>>
    BY <1>2, ReaderLeavesWorld
  <2>2. /\ \A f : Lines(f)' = Lines(f) /\ Total(f)' = Total(f)
        /\ \A f, g : Newer(f, g)' <=> Newer(f, g)
    BY <2>1 DEF Lines, Total, Newer
  <2>3. DroidInv'
    BY <2>1, <2>2 DEF DroidInv
  <2>4. CASE Begin
    <3>1. events' = {}
      BY <2>4 DEF Begin
    <3> QED BY <2>3, <3>1 DEF DroidEvents
  <2>5. CASE Select
    <3>1. harness' # "droid"
      BY <2>1, <2>5 DEF Select
    <3> QED BY <2>3, <3>1 DEF DroidEvents
  <2>6. CASE UNCHANGED vars \/ \E f \in Files : Unreadable(f)
    <3>1. todo' \subseteq todo /\ events' = events /\ held' = held
      BY <2>6 DEF vars, reader, Unreadable, Past
    <3>2. ASSUME harness = "droid", NEW ev \in events
          PROVE  /\ ev.file \in Files /\ ev.session # 0 /\ session[ev.file] = ev.session
                 /\ ev.key = <<"session", ev.session>>
                 /\ ev.calls \subseteq Total(ev.file)'
                 /\ \A g \in todo' : session[g] = ev.session =>
                         \A e \in held[g] : e \in ev.calls \/ e \notin Total(ev.file)'
      BY <2>2, <3>1, <3>2 DEF DroidEvents
    <3> QED BY <2>1, <2>3, <3>1, <3>2 DEF DroidEvents
  <2>7. ASSUME NEW f \in Files, Read(f) PROVE DroidEvents'
    <3> SUFFICES ASSUME harness = "droid" PROVE DroidEvents'
      BY <2>1 DEF DroidEvents
    <3>1. f \in todo /\ todo' \subseteq todo /\ held' = held /\ session[f] # 0
      BY <2>7 DEF Read, Past
    <3>2. \A ev \in events' : \/ ev \in events
                              \/ /\ ev.file = f /\ ev.session = session[f] /\ ev.calls = Total(f)
                                 /\ ev.key = <<"session", session[f]>>
      BY <2>7, DroidReading
    <3>3. ASSUME NEW ev \in events'
          PROVE  /\ ev.file \in Files /\ ev.session # 0 /\ session[ev.file] = ev.session
                 /\ ev.key = <<"session", ev.session>>
                 /\ ev.calls \subseteq Total(ev.file)
                 /\ \A g \in todo : session[g] = ev.session =>
                         \A e \in held[g] : e \in ev.calls \/ e \notin Total(ev.file)
      <4>1. CASE ev \in events
        BY <4>1 DEF DroidEvents
      <4>2. CASE ev \notin events
        BY <3>1, <3>2, <4>2
      <4> QED BY <4>1, <4>2
    <3> QED BY <2>1, <2>2, <3>1, <3>3 DEF DroidEvents
  <2> QED BY <1>2, <2>3, <2>4, <2>5, <2>6, <2>7 DEF ReaderStep
<1> QED BY <1>1, <1>2, NextKinds

-----------------------------------------------------------------------------
(***************************************************************************)
(* Copilot: of the records that a call is in, the best is chosen, or is    *)
(* outranked by one that no record of the call is as good as.              *)
(***************************************************************************)
LEMMA RecordPrompt ==
    ASSUME TypeInv, harness = "copilot", NEW l \in Written
    PROVE  /\ l.kind \in {"chat", "inference", "turn", "agent"} /\ OtelSource(l) \in Nat
           /\ l.cell \in {"good", "bad"}
           /\ \A e \in l.calls : PromptOf(l.entry) = PromptOf(e)
<1>1. PICK g \in Files : \E i \in DOMAIN files[g] : l = files[g][i]
  BY WrittenAt
<1>2. l \in Lines(g)
  BY <1>1 DEF Lines
<1>3. Fits(l, session[g])
  BY <1>2, InLines
<1>4. l.kind \in {"chat", "inference", "turn", "agent"}
  BY <1>3 DEF Fits, KindsOf, KeepsLedger
<1>5. l.kind # "agent" => l.calls = {l.entry}
  BY <1>3, <1>4 DEF Fits, Totalled, Snapshots, Marks
<1>6. l.kind = "agent" => l.calls = {d \in Given(harness) : PromptOf(d) = PromptOf(l.entry)}
  BY <1>3 DEF Fits
<1>7. l.cell \in {"good", "bad"}
  BY <1>3, <1>4 DEF Fits, Marks, OddCells
<1>8. OtelSource(l) \in Nat
  BY <1>4 DEF OtelSource
<1> QED BY <1>4, <1>5, <1>6, <1>7, <1>8

LEMMA SelectSettles ==
    ASSUME TypeInv, harness = "copilot", carried \subseteq Written, Select, NEW e,
           NEW m \in OtelCandidates(carried), e \in m.calls,
           \A l \in OtelCandidates(carried) : e \in l.calls => OtelSource(m) <= OtelSource(l)
    PROVE  CountsOf(e)' # {} \/ e \in reported' \/ Outranked(e)
<1> DEFINE trace == [l \in carried |-> Trace(l)]
           usable == OtelCandidates(carried)
           modelled == {l \in usable : l.cell = "good"}
           kept == {l \in usable : ~OtelOutranked(l, modelled, trace)}
           OwnId(l) == OtelId(l, trace[l])
           GroupOf(id) == OtelBest({l \in kept : OwnId(l) = id})
           merged == {GroupOf(id) : id \in {OwnId(l) : l \in kept}}
           counted == {group \in merged : group \cap modelled # {}}
           EventOf(group) ==
               LET l == CHOOSE k \in group : TRUE
               IN  [file |-> 0, session |-> 0, calls |-> l.calls,
                    full |-> \E k \in group : k.full, turn |-> FALSE, key |-> OwnId(l)]
           unpicked == UNION (merged \ counted) \cup {k \in carried : k.cell = "torn"}
<1>1. /\ events' = {EventOf(group) : group \in counted}
      /\ reported' = reported \cup UNION {l.calls : l \in unpicked}
  <2>1. events' = Otel(carried, trace).events /\ reported' = reported \cup Otel(carried, trace).reported
    BY DEF Select
  <2>2. Otel(carried, trace).events = {EventOf(group) : group \in counted}
    BY DEF Otel
  <2>3. Otel(carried, trace).reported = UNION {l.calls : l \in unpicked}
    BY DEF Otel
  <2> QED BY <2>1, <2>2, <2>3
<1>2. /\ usable \subseteq carried /\ modelled \subseteq usable /\ kept \subseteq usable
      /\ \A l \in modelled : l.cell = "good"
  BY DEF OtelCandidates
<1>3. \A l \in carried : trace[l] = Trace(l)
  OBVIOUS
<1>4. m \in carried /\ m \in Written
  BY <1>2
<1>5. CASE m \in kept
  <2> DEFINE id == OwnId(m)
             group == GroupOf(id)
  <2>1. \A l \in group : l \in kept /\ OwnId(l) = id
    BY DEF OtelBest
  <2>2. \A l \in kept : OwnId(l) = id => l.calls = m.calls
    BY DEF OtelId
  <2>3. m \in group
    <3>1. ASSUME NEW l \in kept, OwnId(l) = id PROVE OtelSource(m) <= OtelSource(l)
      BY <1>2, <2>2, <3>1
    <3>2. m \in {l \in kept : OwnId(l) = id}
      BY <1>5
    <3> HIDE DEF kept, OwnId, id
    <3> QED BY <3>1, <3>2 DEF OtelBest
  <2>4. group \in merged
    BY <1>5
  <2>5. CASE group \cap modelled # {}
    <3>1. group \in counted
      BY <2>4, <2>5
    <3> DEFINE c == CHOOSE k \in group : TRUE
    <3>2. c \in group
      BY <2>3
    <3>3. c.calls = m.calls
      BY <2>1, <2>2, <3>2
    <3>4. EventOf(group).calls = c.calls
      OBVIOUS
    <3>5. EventOf(group) \in events'
      <4> HIDE DEF EventOf, counted, group
      <4> QED BY <1>1, <3>1
    <3> HIDE DEF EventOf, c
    <3>6. e \in EventOf(group).calls
      BY <3>3, <3>4
    <3> QED BY <3>5, <3>6 DEF CountsOf
  <2>6. CASE group \cap modelled = {}
    <3>1. group \in merged \ counted
      BY <2>4, <2>6
    <3> HIDE DEF merged, counted, group
    <3>2. m \in unpicked
      BY <2>3, <3>1
    <3> QED BY <1>1, <3>2
  <2> QED BY <2>5, <2>6
<1>6. CASE m \notin kept
  <2>1. OtelOutranked(m, modelled, trace)
    BY <1>6
  <2>2. PICK k \in modelled :
          /\ OtelSource(k) < OtelSource(m)
          /\ (k.named /\ m.named /\ k.calls = m.calls) \/ trace[k] = trace[m]
    BY <2>1 DEF OtelOutranked
  <2>3. k \in usable /\ k \in carried /\ k \in Written /\ k.cell = "good" /\ Trace(k) = trace[k] /\ Trace(m) = trace[m]
    BY <1>2, <1>3, <1>4
  <2> HIDE DEF usable, modelled, kept, trace
  <2>4. /\ OtelSource(k) \in Nat /\ OtelSource(m) \in Nat
        /\ PromptOf(m.entry) = PromptOf(e)
    BY <1>4, <2>3, RecordPrompt
  <2>5. k.calls # m.calls
    <3>1. e \in k.calls => OtelSource(m) <= OtelSource(k)
      BY <2>3 DEF usable
    <3> QED BY <2>2, <2>4, <3>1
  <2>6. Trace(k) = Trace(m)
    BY <2>2, <2>3, <2>5
  <2>7. PromptOf(k.entry) = PromptOf(m.entry)
    <3>1. k.kind # m.kind
      <4>1. k.kind \in {"chat", "inference", "turn", "agent"}
        BY <2>3, RecordPrompt
      <4>2. k.kind = m.kind => OtelSource(k) = OtelSource(m)
        BY <4>1 DEF OtelSource
      <4> QED BY <2>2, <2>4, <4>2
    <3>2. ~(quirk /\ k.kind \in {"inference", "turn"} /\ quirk /\ m.kind \in {"inference", "turn"})
      BY <2>6, <3>1 DEF Trace
    <3>3. quirk /\ k.kind \in {"inference", "turn"} => k.kind # "prompt"
      OBVIOUS
    <3>4. quirk /\ m.kind \in {"inference", "turn"} => m.kind # "prompt"
      OBVIOUS
    <3>5. ~(quirk /\ k.kind \in {"inference", "turn"}) /\ ~(quirk /\ m.kind \in {"inference", "turn"})
      BY <2>6, <3>2, <3>3, <3>4 DEF Trace
    <3> QED BY <2>6, <3>5 DEF Trace
  <2>8. ASSUME NEW l \in OtelCandidates(carried), e \in l.calls PROVE OtelSource(k) < OtelSource(l)
    <3>1. l \in carried
      BY DEF OtelCandidates
    <3>2. OtelSource(l) \in Nat
      BY <3>1, RecordPrompt
    <3>3. OtelSource(m) <= OtelSource(l)
      BY <2>8
    <3> QED BY <2>2, <2>4, <3>2, <3>3
  <2>9. PromptOf(k.entry) = PromptOf(e)
    BY <2>4, <2>7
  <2> QED BY <2>3, <2>8, <2>9 DEF Outranked
<1> QED BY <1>5, <1>6

LEMMA NextRecords ==
    ASSUME TypeInv, HeldInv, OtelInv, RecordsInv, [Next]_vars
    PROVE  RecordsInv'
<1> SUFFICES ASSUME harness' = "copilot" PROVE RecordsInv'
  BY DEF RecordsInv
<1>1. CASE HarnessStep
  <2>1. UNCHANGED <<harness, reader>> /\ ~done
    BY <1>1, StepForm
  <2> QED BY <2>1 DEF reader, RecordsInv
<1>2. CASE ReaderStep \/ UNCHANGED vars
  <2>1. UNCHANGED <<harness, quirk, session, files>> /\ harness = "copilot"
    BY <1>2, ReaderLeavesWorld
  <2>2. CASE Begin
    <3>1. todo' = {f \in Files : session[f] # 0} /\ held' = [f \in Files |-> Knowable(f)] /\ ~done'
      BY <2>2 DEF Begin
    <3>2. \A f \in Files \ todo' : held'[f] = {}
      BY <3>1, KnowableCalls
    <3> QED BY <3>1, <3>2 DEF RecordsInv
  <2>3. CASE Select
    <3>1. done' /\ held' = held /\ carried' = carried /\ todo = {} /\ ~done /\ reported \subseteq reported'
          /\ carried \subseteq Written
      BY <2>1, <2>3 DEF Select, OtelInv
    <3>2. ASSUME NEW f \in Files, NEW e \in held[f] PROVE CountsOf(e)' # {} \/ e \in reported' \/ Outranked(e)
      <4>1. CASE e \in reported
        BY <3>1, <4>1
      <4>2. CASE e \notin reported
        <5> DEFINE C == {l \in OtelCandidates(carried) : e \in l.calls}
                   S == {OtelSource(l) : l \in C}
        <5>1. C # {}
          BY <3>1, <4>2, <2>1 DEF RecordsInv
        <5>2. \A l \in C : OtelSource(l) \in Nat
          <6> SUFFICES ASSUME NEW l \in C PROVE OtelSource(l) \in Nat
            OBVIOUS
          <6>1. l \in Written
            BY <3>1 DEF OtelCandidates
          <6> QED BY <2>1, <6>1, RecordPrompt
        <5>3. S \in SUBSET Nat /\ S # {}
          BY <5>1, <5>2
        <5> HIDE DEF C
        <5>4. PICK n \in S : \A k \in S : n <= k
          <6> HIDE DEF S
          <6> QED BY <5>3, LeastOf
        <5>5. PICK m \in C : n = OtelSource(m)
          OBVIOUS
        <5>6. \A l \in C : OtelSource(m) <= OtelSource(l)
          BY <5>4, <5>5
        <5> QED BY <2>1, <2>3, <3>1, <5>5, <5>6, SelectSettles DEF C
      <4> QED BY <4>1, <4>2
    <3>3. \A e : Outranked(e)' <=> Outranked(e)
      BY <2>1, <3>1 DEF Outranked
    <3> QED BY <3>1, <3>2, <3>3 DEF RecordsInv
  <2>4. ASSUME NEW f \in Files, Unreadable(f) PROVE RecordsInv'
    <3>1. /\ ~done' /\ ~done /\ todo' = todo \ {f} /\ held' = held /\ carried' = carried
          /\ reported' = reported \cup held[f]
      BY <2>1, <2>4 DEF Unreadable, Past, PassesOver, HeldInv
    <3> QED BY <2>1, <3>1 DEF RecordsInv
  <2>5. ASSUME NEW f \in Files, Read(f) PROVE RecordsInv'
    <3>1. /\ ~done' /\ ~done /\ todo' = todo \ {f} /\ held' = held /\ reported \subseteq reported'
      BY <2>1, <2>5 DEF Read, Past, HeldInv
    <3>2. carried' = carried \cup Lines(f)
      BY <2>1, <2>5 DEF Read
    <3>3. OtelCandidates(carried) \subseteq OtelCandidates(carried')
      BY <3>2 DEF OtelCandidates
    <3>4. ASSUME NEW e \in held[f] PROVE \E l \in OtelCandidates(carried') : e \in l.calls
      <4>1. e \in Knowable(f)
        BY <2>1 DEF HeldInv, Rotates
      <4>2. PICK l \in Lines(f) : e \in l.calls
        BY <4>1 DEF Knowable
      <4>3. l.cell \in {"good", "bad"}
        BY <2>1, <4>2, InLines, RecordPrompt
      <4> QED BY <3>2, <4>2, <4>3 DEF OtelCandidates
    <3> QED BY <2>1, <3>1, <3>3, <3>4 DEF RecordsInv
  <2>6. CASE UNCHANGED vars
    <3>1. UNCHANGED <<harness, todo, held, carried, events, reported, done>>
      BY <2>1, <2>6 DEF vars, reader
    <3>2. \A e : CountsOf(e)' = CountsOf(e) /\ (Outranked(e)' <=> Outranked(e))
      BY <3>1 DEF CountsOf, Outranked
    <3> QED BY <3>1, <3>2 DEF RecordsInv
  <2> QED BY <1>2, <2>2, <2>3, <2>4, <2>5, <2>6 DEF ReaderStep
<1> QED BY <1>1, <1>2, NextKinds

-----------------------------------------------------------------------------
(***************************************************************************)
(* Nothing is lost silently.                                               *)
(***************************************************************************)
LEMMA NextBelow ==
    ASSUME TypeInv, BelowInv, todo \subseteq Files, [Next]_vars
    PROVE  BelowInv'
<1>1. CASE HarnessStep
  <2>1. UNCHANGED <<harness, todo, events>>
    BY <1>1, StepForm DEF reader
  <2> QED BY <2>1 DEF BelowInv
<1>2. CASE Begin
  <2>1. events' = {}
    BY <1>2 DEF Begin
  <2> QED BY <2>1 DEF BelowInv
<1>3. CASE Select
  <2>1. harness' = "copilot"
    BY <1>3 DEF Select, world
  <2> QED BY <2>1 DEF BelowInv, Stores
<1>4. ASSUME NEW f \in Files, Read(f) PROVE BelowInv'
  <2>1. harness' = harness
    BY <1>4 DEF Read, Past
  <2> QED BY <1>4, <2>1, ReadKeepsBelow DEF BelowInv
<1>5. CASE UNCHANGED vars \/ \E f \in Files : Unreadable(f)
  <2>1. harness' = harness /\ todo' \subseteq todo /\ events' = events
    BY <1>5 DEF vars, world, reader, Unreadable, Past
  <2> QED BY <2>1 DEF BelowInv
<1> QED BY <1>1, <1>2, <1>3, <1>4, <1>5, NextKinds DEF ReaderStep

\* What is read of a file settles what it had when it was listed.
LEMMA ReadSettles ==
    ASSUME LossInv, NEW f \in Files, Read(f), harness # "copilot", NEW e \in held[f]
    PROVE  Settled(f, e)'
<1>1. TypeInv /\ WorldInv /\ KeyedInv /\ LogInv /\ todo \subseteq Files
  BY DEF LossInv, CountingInv, WorldInv
<1>2. UNCHANGED <<harness, quirk, session, files, held>> /\ f \in todo
  BY DEF Read, Past
<1>3. /\ Known(e)' <=> Known(e)
      /\ Mistaken' <=> Mistaken
      /\ Restarted(f)' <=> Restarted(f)
      /\ CutOff(f)' <=> CutOff(f)
      /\ Displaced(e)' <=> Displaced(e)
  BY <1>2 DEF Known, KnownBy, Borrowed, Borrows, Written, Lines, Mistaken, Restarted, CutOff, Displaced, Knowable
<1>4. harness \notin Rotates => e \in Knowable(f)
  BY DEF LossInv, HeldInv
<1>5. CASE harness \in Stores
  <2>1. CountsOf(e)' # {} \/ e \in reported' \/ Hidden(f)'
    BY <1>1, <1>4, <1>5, StoreReadSettles DEF LossInv, Stores, Rotates
  <2> QED BY <2>1 DEF Settled
<1>6. CASE harness = "droid"
  <2>1. CountsOf(e)' # {} \/ e \in reported'
    BY <1>1, <1>6, DroidReading DEF LossInv
  <2> QED BY <2>1 DEF Settled
<1>7. CASE harness = "fx"
  <2>1. Restarted(f) \/ CountsOf(e)' # {} \/ e \in reported'
    BY <1>1, <1>4, <1>7, FxReadSettles DEF Rotates
  <2> QED BY <1>3, <2>1 DEF Settled
<1>8. CASE harness = "deepseek"
  <2>1. CountsOf(e)' # {} \/ e \in reported' \/ CutOff(f)
    BY <1>1, <1>2, <1>8, DeepReads DEF LossInv
  <2> QED BY <1>3, <2>1 DEF Settled
<1>9. CASE harness \in Keyed \ {"deepseek"}
  <2>1. e \in Knowable(f) \/ (harness \in Rotates /\ Displaced(e))
    BY <1>4 DEF LossInv, MoveInv, InPlace
  <2>2. e \in Knowable(f) /\ Known(e) /\ ~Mistaken => CountsOf(e)' # {} \/ e \in reported'
    BY <1>1, <1>9, KeyedReadSettles DEF LossInv
  <2> QED BY <1>2, <1>3, <2>1, <2>2 DEF Settled
<1>10. harness \in Stores \/ harness = "droid" \/ harness = "fx" \/ harness \in Keyed
  BY <1>1, Which DEF TypeInv, Stores, Keyed, Snapshots
<1> QED BY <1>5, <1>6, <1>7, <1>8, <1>9, <1>10

\* ... and leaves settled what was.
LEMMA ReadLeavesSettled ==
    ASSUME LossInv, NEW g \in Files, Read(g), harness # "copilot",
           NEW f \in Files, NEW e \in held[f], Settled(f, e)
    PROVE  Settled(f, e)'
<1>1. TypeInv /\ WorldInv /\ KeyedInv /\ todo \subseteq Files /\ e \in Calls
  BY DEF LossInv, CountingInv, WorldInv, HeldInv
<1>2. UNCHANGED <<harness, quirk, session, files, held, passed>> /\ reported \subseteq reported'
  BY DEF Read, Past
<1>3. /\ Known(e)' <=> Known(e)
      /\ Mistaken' <=> Mistaken
      /\ Restarted(f)' <=> Restarted(f)
      /\ CutOff(f)' <=> CutOff(f)
      /\ Displaced(e)' <=> Displaced(e)
  BY <1>2 DEF Known, KnownBy, Borrowed, Borrows, Written, Lines, Mistaken, Restarted, CutOff, Displaced, Knowable
<1>4. Hidden(f) => Hidden(f)'
  <2>1. harness \in Stores => events \subseteq events'
    BY <1>1, EventsGrow DEF Read, Stores, TypeInv
  <2> QED BY <1>2, <2>1 DEF Hidden, Stores
<1>5. CountsOf(e) # {} /\ Known(e) => CountsOf(e)' # {}
  <2>1. CASE harness = "droid"
    BY <1>1, <2>1, DroidReading DEF LossInv
  <2>2. CASE harness # "droid"
    BY <1>1, <2>2, ReadKeepsCounts DEF LossInv
  <2> QED BY <2>1, <2>2
<1> QED BY <1>2, <1>3, <1>4, <1>5 DEF Settled

LEMMA NextBooked ==
    ASSUME LossInv, [Next]_vars
    PROVE  BookedInv'
<1>1. TypeInv /\ todo \subseteq Files
  BY DEF LossInv, CountingInv, WorldInv
<1>2. ASSUME HarnessStep PROVE BookedInv'
  <2>1. UNCHANGED <<harness, todo, held>>
    BY <1>1, <1>2, StepForm DEF reader
  <2>2. ASSUME NEW f \in Files, NEW e \in held[f], Settled(f, e) PROVE Settled(f, e)'
    BY <1>1, <1>2, <2>2, HarnessLeavesSettled DEF LossInv
  <2> QED BY <2>1, <2>2 DEF BookedInv, LossInv
<1>3. CASE Begin
  <2>1. todo' = {f \in Files : session[f] # 0} /\ held' = [f \in Files |-> Knowable(f)]
    BY <1>3 DEF Begin
  <2>2. \A f \in Files \ todo' : held'[f] = {}
    BY <1>1, <2>1, KnowableCalls
  <2> QED BY <2>2 DEF BookedInv
<1>4. CASE Select
  <2>1. harness' = "copilot"
    BY <1>4 DEF Select, world
  <2> QED BY <2>1 DEF BookedInv
<1>5. ASSUME NEW g \in Files, Unreadable(g) PROVE BookedInv'
  <2>1. /\ UNCHANGED <<harness, quirk, session, files, held, events>> /\ todo' = todo \ {g}
        /\ reported' = reported \cup held[g] \/ g \in passed'
        /\ reported \subseteq reported' /\ passed \subseteq passed'
    BY <1>5 DEF Unreadable, Past
  <2>2. ASSUME NEW f \in Files, NEW e \in held[f], Settled(f, e) \/ f = g PROVE Settled(f, e)'
    <3>1. CASE f = g
      <4>1. e \in reported' \/ f \in passed'
        BY <2>1, <3>1
      <4> QED BY <4>1 DEF Settled
    <3>2. CASE f # g
      <4>1. /\ Known(e)' <=> Known(e)
            /\ Mistaken' <=> Mistaken
            /\ Restarted(f)' <=> Restarted(f)
            /\ CutOff(f)' <=> CutOff(f)
            /\ Displaced(e)' <=> Displaced(e)
            /\ Hidden(f)' <=> Hidden(f)
            /\ CountsOf(e)' = CountsOf(e)
            /\ e \in reported => e \in reported'
            /\ f \in passed => f \in passed'
        BY <2>1 DEF Known, KnownBy, Borrowed, Borrows, Written, Lines, Mistaken, Restarted, CutOff, Displaced, Knowable, Hidden, CountsOf
      <4> QED BY <2>1, <2>2, <3>2, <4>1 DEF Settled
    <3> QED BY <3>1, <3>2
  <2> QED BY <2>1, <2>2 DEF BookedInv, LossInv
<1>6. ASSUME NEW g \in Files, Read(g) PROVE BookedInv'
  <2>1. harness' = harness /\ held' = held /\ todo' = todo \ {g}
    BY <1>6 DEF Read, Past
  <2>2. ASSUME NEW f \in Files, NEW e \in held[f], harness # "copilot", Settled(f, e) \/ f = g
        PROVE  Settled(f, e)'
    <3>1. CASE f = g
      BY <1>6, <2>2, <3>1, ReadSettles
    <3>2. CASE f # g
      BY <1>6, <2>2, <3>2, ReadLeavesSettled
    <3> QED BY <3>1, <3>2
  <2> QED BY <2>1, <2>2 DEF BookedInv, LossInv
<1>7. CASE UNCHANGED vars
  <2>1. UNCHANGED <<harness, quirk, session, files, held, events, todo, reported, passed>>
    BY <1>7 DEF vars, world, reader
  <2>2. ASSUME NEW f, NEW e PROVE Settled(f, e)' <=> Settled(f, e)
    BY <2>1 DEF Settled, Known, KnownBy, Borrowed, Borrows, Written, Lines, Mistaken, Restarted, CutOff, Displaced, Knowable, Hidden, CountsOf
  <2> QED BY <2>1, <2>2 DEF BookedInv, LossInv
<1> QED BY <1>2, <1>3, <1>4, <1>5, <1>6, <1>7, NextKinds DEF ReaderStep

LEMMA InitLoss == Init => LossInv
<1> SUFFICES ASSUME Init PROVE LossInv
  OBVIOUS
<1>1. CountingInv
  BY InitCounting
<1>2. /\ todo = {} /\ events = {} /\ carried = {} /\ age = {} /\ ~done
      /\ held = [f \in Files |-> {}]
      /\ \A f \in Files : files[f] = <<>> /\ session[f] = 0
  BY DEF Init
<1>3. \A f \in Files : Lines(f) = {} /\ DOMAIN files[f] = {} /\ held[f] = {} /\ Len(files[f]) = 0
  BY <1>2 DEF Lines
<1>4. \A e : ~Logged(e)
  BY <1>3 DEF Logged, Written
<1>5. SnapInv
  BY <1>2, <1>3 DEF SnapInv
<1>6. HeldInv
  BY <1>2 DEF HeldInv
<1>7. AgreeInv
  BY <1>2, <1>3, <1>4 DEF AgreeInv
<1>8. MoveInv /\ BelowInv /\ DeepInv
  BY <1>2, <1>3 DEF MoveInv, BelowInv, DeepInv
<1>9. DroidInv /\ DroidEvents
  BY <1>2, <1>3 DEF DroidInv, DroidEvents
<1>10. RecordsInv /\ BookedInv
  BY <1>2, <1>3 DEF RecordsInv, BookedInv
<1> QED BY <1>1, <1>5, <1>6, <1>7, <1>8, <1>9, <1>10 DEF LossInv

LEMMA NextLoss == LossInv /\ [Next]_vars => LossInv'
<1> SUFFICES ASSUME LossInv, [Next]_vars PROVE LossInv'
  OBVIOUS
<1>1. CountingInv /\ WorldInv /\ TypeInv /\ OtelInv /\ todo \subseteq Files
  BY DEF LossInv, CountingInv, WorldInv
<1>2. CountingInv'
  BY <1>1, NextCounting
<1>3. SnapInv' /\ HeldInv'
  BY <1>1, NextListed DEF LossInv
<1>4. AgreeInv' /\ MoveInv'
  BY <1>1, NextAgree, NextMove DEF LossInv
<1>5. BelowInv' /\ DeepInv'
  BY <1>1, NextBelow, NextDeep DEF LossInv
<1>6. DroidInv' /\ DroidEvents'
  BY <1>1, NextDroid DEF LossInv
<1>7. RecordsInv'
  BY <1>1, NextRecords DEF LossInv
<1>8. BookedInv'
  BY NextBooked
<1> QED BY <1>2, <1>3, <1>4, <1>5, <1>6, <1>7, <1>8 DEF LossInv

LEMMA LossNone == LossInv => NoSilentLoss
<1> SUFFICES ASSUME LossInv, done, NEW f \in Files, NEW e \in held[f]
             PROVE  \/ CountsOf(e) # {} \/ e \in reported \/ f \in passed
                    \/ ~Known(e) \/ Hidden(f) \/ Restarted(f) \/ Moved(e) \/ Mistaken
                    \/ CutOff(f) \/ Outranked(e)
  BY DEF NoSilentLoss
<1>1. CASE harness = "copilot"
  BY <1>1 DEF LossInv, RecordsInv
<1>2. CASE harness # "copilot"
  <2>1. Settled(f, e)
    BY <1>2 DEF LossInv, HeldInv, BookedInv
  <2> QED BY <2>1, DisplacedIsMoved DEF Settled
<1> QED BY <1>1, <1>2

\* A call that a file had usage of when it was listed is in an event or in
\* skipped when the reading is over, whatever the harness did meanwhile, but
\* for what its reader cannot tell: for every harness, script and number of
\* files.
THEOREM NothingLostSilently == Spec => []NoSilentLoss
<1>1. Init => LossInv
  BY InitLoss
<1>2. LossInv /\ [Next]_vars => LossInv'
  BY NextLoss
<1>3. LossInv => NoSilentLoss
  BY LossNone
<1> QED BY <1>1, <1>2, <1>3, PTL DEF Spec

-----------------------------------------------------------------------------
(***************************************************************************)
(* A call that had its final usage when the files were listed is counted   *)
(* with it.                                                                *)
(***************************************************************************)
LEMMA NextFinalLines ==
    ASSUME TypeInv, FinalLines, [Next]_vars PROVE FinalLines'
<1>1. CASE HarnessStep
  <2>1. harness' = harness /\ final' = final
    BY <1>1, StepForm DEF reader
  <2>2. harness \notin Snapshots => Written \subseteq Written'
    BY <1>1, WrittenGrows
  <2> QED BY <2>1, <2>2 DEF FinalLines, Finished
<1>2. CASE ReaderStep \/ UNCHANGED vars
  <2>1. UNCHANGED <<harness, quirk, session, files, age>>
    BY <1>2, ReaderLeavesWorld
  <2>2. Written' = Written
    BY <2>1 DEF Written, Lines
  <2>3. CASE Begin
    <3>1. final' = UNION {l.calls : l \in {k \in Written : k.full /\ k.cell = "good"}}
      BY <2>3 DEF Begin
    <3> QED BY <2>2, <3>1 DEF FinalLines, Finished
  <2>4. CASE ~Begin
    <3>1. final' = final
      BY <1>2, <2>4 DEF ReaderStep, Select, Read, Unreadable, Past, vars, reader
    <3> QED BY <2>1, <2>2, <3>1 DEF FinalLines
  <2> QED BY <2>3, <2>4
<1> QED BY <1>1, <1>2, NextKinds

\* A line with a call's usage is of that call where totals are not kept.
LEMMA UsageLine ==
    ASSUME TypeInv, harness \notin Totalled \cup {"copilot"}, NEW l \in Written, NEW e \in l.calls
    PROVE  /\ l.entry = e /\ l.calls = {e} /\ l.kind \in {"call", "record"}
           /\ l.cell \in {"good"} \cup OddCells(harness)
           /\ (harness \notin Streams => l.full)
<1>1. PICK f \in Files : l \in Lines(f)
  BY DEF Written
<1>2. Fits(l, session[f])
  BY <1>1, InLines
<1>3. l.kind \notin Marks
  BY <1>2 DEF Fits
<1>4. l.kind \in {"call", "record"}
  BY <1>2, <1>3 DEF Fits, KindsOf, Marks
<1> QED BY <1>2, <1>3, <1>4 DEF Fits

LEMMA OnceFull ==
    ASSUME WorldInv, FinalLines, harness \in WriteOnce \ {"fx"},
           NEW l \in Written, NEW e \in l.calls, e \in final, Known(e)
    PROVE  l.full /\ l.cell = "good"
<1>1. TypeInv /\ UniqueInv /\ harness \notin (Totalled \cup {"copilot"}) \ {"codebuff"} /\ harness \notin Snapshots
  BY DEF WorldInv, WriteOnce, Totalled, Snapshots, Transcribed, Recorded, Streams
<1>2. PICK n \in Written : Finished(n, e)
  BY <1>1 DEF FinalLines
<1>3. n.entry = e /\ l.entry = e
  <2>1. CASE harness = "codebuff"
    BY <1>2, <2>1 DEF Finished, Known, Borrowed, Borrows
  <2> QED BY <1>1, <1>2, <2>1, UsageLine DEF Finished
<1>4. n = l
  <2>1. PICK f \in Files : \E i \in DOMAIN files[f] : l = files[f][i]
    BY WrittenAt
  <2>2. PICK g \in Files : \E i \in DOMAIN files[g] : n = files[g][i]
    BY WrittenAt
  <2> QED BY <1>1, <1>3, <2>1, <2>2 DEF UniqueInv
<1> QED BY <1>2, <1>4 DEF Finished

LEMMA KeyedFull ==
    ASSUME WorldInv, KeyedInv, FinalLines, todo \subseteq Files, NEW f \in Files, Read(f),
           harness \in WriteOnce \cup {"amp"}, harness # "fx",
           NEW ev \in events', ev \notin events, NEW e \in ev.calls, e \in final, Known(e)
    PROVE  ev.full
<1>1. TypeInv /\ harness \in Keyed /\ AllNamed
  BY DEF WorldInv, Keyed, WriteOnce, Transcribed, Recorded, Streams, Known, KnownBy, AllNamed
<1>2. f \in todo /\ events' = ReadingOf(f).events
  BY DEF Read, Past
<1>3. PICK X, R, T : Forms(f, X, R, T)
  BY <1>1, <1>2, UnreadIs, ReadersForm DEF ReadForm
<1>4. PICK i \in R : ev = RowEvent(f, i, T[i])
  BY <1>2, <1>3 DEF Forms
<1> DEFINE l == files[f][i]
<1>5. i \in DOMAIN files[f] /\ l.cell \in {"good", "zero"}
  BY <1>3 DEF Forms, CallRows
<1>6. ev.calls = l.calls /\ ev.full = (l.full /\ l.cell = "good")
  BY <1>4 DEF RowEvent, Event
<1>7. l \in Written
  BY <1>5, WrittenAt
<1>8. CASE harness \in WriteOnce
  BY <1>6, <1>7, <1>8, OnceFull
<1>9. CASE harness = "amp"
  <2>1. l.full /\ l.cell \in {"good"} \cup OddCells(harness)
    BY <1>1, <1>6, <1>7, <1>9, UsageLine DEF Totalled, Snapshots, Streams
  <2> QED BY <1>5, <1>6, <1>9, <2>1 DEF OddCells
<1> QED BY <1>8, <1>9

\* The last row of CommandCode's call is the final one.
LEMMA CommandcodeFull ==
    ASSUME WorldInv, FinalLines, RewriteInv, harness = "commandcode", NEW f \in Files, Read(f),
           NEW ev \in events', ev \notin events, NEW e \in ev.calls, e \in final, Known(e)
    PROVE  ev.full
<1> DEFINE ls == files[f]
           rows == CommandcodeRows(ls)
           Key(i) == IF ls[i].named THEN <<"in", f, Id(ls[i])>> ELSE Place(f, i)
           R == {i \in rows : \A j \in rows : j > i => Key(j) # Key(i)}
           E(i) == Event(f, session[f], ls[i], Key(i), TRUE)
<1>1. events' = events \cup {E(i) : i \in R}
  BY DEF Read, ReadingOf, Commandcode, Reading, Counted, Always
<1>2. PICK i \in R : ev = E(i)
  BY <1>1
<1>3. /\ i \in rows /\ \A j \in rows : j > i => Key(j) # Key(i)
      /\ ev.calls = ls[i].calls /\ ev.full = (ls[i].full /\ ls[i].cell = "good")
  BY <1>2 DEF Event
<1> HIDE DEF R, E
<1>4. i \in DOMAIN ls /\ ls[i].kind = "call" /\ ls[i].dated /\ ls[i].cell \in {"good", "zero"}
  BY <1>3 DEF CommandcodeRows, Rows, Holding
<1>5. TypeInv /\ UniqueInv /\ harness \notin Totalled \cup {"copilot"} /\ harness \notin Snapshots
      /\ harness \notin Copies \cup Rotates
  BY DEF WorldInv, Totalled, Snapshots, Copies, Rotates
<1>6. ls[i] \in Written
  BY <1>4, WrittenAt
<1>7. /\ ls[i].entry = e /\ ls[i].calls = {e} /\ ls[i].named
      /\ ls[i].cell \in {"good"} \cup OddCells(harness)
  BY <1>3, <1>5, <1>6, UsageLine DEF Known, KnownBy
<1>8. ls[i].cell = "good"
  BY <1>4, <1>7 DEF OddCells
<1>9. PICK n \in Written : Finished(n, e)
  BY <1>5 DEF FinalLines
<1>10. n.entry = e /\ n.calls = {e} /\ n.kind \in {"call", "record"} /\ n.named
  BY <1>5, <1>9, UsageLine DEF Known, KnownBy, Finished
<1>11. PICK g \in Files : \E j \in DOMAIN files[g] : n = files[g][j]
  BY <1>9, WrittenAt
<1>12. g = f
  BY <1>4, <1>5, <1>7, <1>10, <1>11 DEF UniqueInv
<1>13. PICK j \in DOMAIN ls : n = ls[j]
  BY <1>11, <1>12
<1>14. i \in Nat /\ j \in Nat
  BY <1>4, <1>5 DEF TypeInv
<1>15. ls[i].full
  <2>1. CASE j < i
    BY <1>4, <1>7, <1>10, <1>13, <2>1 DEF RewriteInv
  <2>2. CASE j = i
    BY <1>9, <1>13, <2>2 DEF Finished
  <2>3. CASE i < j
    <3>1. ls[j].dated = ls[i].dated
      BY <1>4, <1>7, <1>10, <1>13, <2>3 DEF RewriteInv
    <3>2. ls[j].kind = "call"
      <4>1. Fits(ls[j], session[f])
        BY <1>5, <1>13 DEF TypeInv
      <4> QED BY <1>10, <1>13, <4>1 DEF Fits, KindsOf, KeepsLedger
    <3>3. j \in rows
      BY <1>4, <1>9, <1>13, <3>1, <3>2 DEF CommandcodeRows, Rows, Holding, Finished
    <3>4. Key(j) = Key(i)
      BY <1>7, <1>10, <1>13 DEF Id
    <3> QED BY <1>3, <2>3, <3>3, <3>4
  <2> QED BY <1>14, <2>1, <2>2, <2>3
<1> QED BY <1>3, <1>8, <1>15

LEMMA StoreFull ==
    ASSUME TypeInv, harness \in Stores, NEW f \in Files, Read(f), NEW ev \in events', ev \notin events
    PROVE  ev.full
<1>1. events' = events \cup {StoreEvent(f, i) : i \in StoreRows(f)}
  BY StoreReading DEF Read
<1>2. PICK i \in StoreRows(f) : ev = StoreEvent(f, i)
  BY <1>1
<1>3. i \in DOMAIN files[f] /\ files[f][i].cell = "good"
  BY DEF StoreRows, Rows, Holding
<1>4. Fits(files[f][i], session[f]) /\ harness \notin Streams
  BY <1>3 DEF TypeInv, Stores, Streams
<1> QED BY <1>2, <1>3, <1>4 DEF StoreEvent, Event, Fits

LEMMA FxFull ==
    ASSUME TypeInv, harness = "fx", NEW f \in Files, Read(f), NEW ev \in events', ev \notin events
    PROVE  ev.full
<1> DEFINE ls == files[f]
           rows == {i \in FxUsage(ls) : FxDelta(ls, i) # {}}
           Commits(c) == ls[c].kind = "commit" /\ ls[c].cell # "torn"
           Turn(i) == \E c \in DOMAIN ls : /\ Commits(c) /\ i < c
                                           /\ \A j \in rows : j <= i \/ c < j
           By(i) == [ls[i] EXCEPT !.calls = FxDelta(ls, i)]
           E(i) == Event(f, session[f], By(i), Place(f, i), Turn(i))
<1>1. events' = events \cup {E(i) : i \in rows}
  BY DEF Read, ReadingOf, Fx, Reading
<1>2. PICK i \in rows : ev = E(i)
  BY <1>1
<1>3. i \in DOMAIN ls /\ ls[i].cell = "good"
  BY DEF FxUsage, Rows, Holding
<1>4. Fits(ls[i], session[f]) /\ harness \notin Streams /\ ls[i] \in Line
  BY <1>3 DEF TypeInv, Streams
<1>5. ls[i].full
  BY <1>4 DEF Fits
<1>6. By(i).full /\ By(i).cell = "good"
  BY <1>3, <1>4, <1>5 DEF Line
<1>7. E(i).full
  <2> HIDE DEF By
  <2> QED BY <1>6 DEF Event
<1> QED BY <1>2, <1>7

LEMMA NextRewrite ==
    ASSUME TypeInv, RewriteInv, [Next]_vars PROVE RewriteInv'
<1>1. CASE ReaderStep \/ UNCHANGED vars
  BY <1>1, ReaderLeavesWorld DEF RewriteInv
<1>2. CASE HarnessStep
  <2>1. harness' = harness
    BY <1>2, StepForm
  <2> SUFFICES ASSUME harness = "commandcode" PROVE RewriteInv'
    BY <2>1 DEF RewriteInv
  <2>2. harness \notin Snapshots /\ harness \notin Copies \cup Rotates \cup Replays
    BY DEF Snapshots, Copies, Rotates, Replays
  <2>3. PICK f \in Files : (\E e \in Entries : Log(f, e)) \/ Finish(f)
    BY <1>2, <2>2 DEF HarnessStep, Ledger, Telemetry, Replay, Copy
  <2>4. ASSUME NEW l \in Line, Adds(f, l),
               \A i \in DOMAIN files[f] : files[f][i].entry = l.entry => l.full /\ l.dated = files[f][i].dated
        PROVE  RewriteInv'
    <3>1. /\ NewAt(f) \in DOMAIN files'[f] /\ files'[f][NewAt(f)] = l
          /\ \A g \in Files \ {f} : files'[g] = files[g]
          /\ \A i \in DOMAIN files'[f] :
                \/ i = NewAt(f)
                \/ i \in DOMAIN files[f] /\ files'[f][i] = files[f][i] /\ i < NewAt(f)
      BY <2>4, AfterAdds
    <3>2. \A g \in Files : \A i \in DOMAIN files[g] : i \in Nat
      BY DEF TypeInv
    <3>3. NewAt(f) \in Nat
      BY <2>2 DEF NewAt, TypeInv
    <3>4. ASSUME NEW i \in DOMAIN files'[f], NEW j \in DOMAIN files'[f], i < j,
                 files'[f][i].entry = files'[f][j].entry
          PROVE  files'[f][j].full /\ files'[f][j].dated = files'[f][i].dated
      <4>1. CASE j = NewAt(f)
        <5>1. i \in DOMAIN files[f] /\ files'[f][i] = files[f][i]
          BY <3>1, <3>3, <3>4, <4>1
        <5> QED BY <2>4, <3>1, <3>4, <4>1, <5>1
      <4>2. CASE j # NewAt(f)
        <5>1. j \in DOMAIN files[f] /\ files'[f][j] = files[f][j] /\ j < NewAt(f)
          BY <3>1, <4>2
        <5>2. i \in DOMAIN files[f] /\ files'[f][i] = files[f][i]
          BY <3>1, <3>2, <3>3, <3>4, <5>1
        <5> QED BY <3>4, <5>1, <5>2 DEF RewriteInv
      <4> QED BY <4>1, <4>2
    <3>5. \A g \in Files : \A i, j \in DOMAIN files'[g] :
             i < j /\ files'[g][i].entry = files'[g][j].entry =>
                 files'[g][j].full /\ files'[g][j].dated = files'[g][i].dated
      <4> SUFFICES ASSUME NEW g \in Files, NEW i \in DOMAIN files'[g], NEW j \in DOMAIN files'[g],
                          i < j, files'[g][i].entry = files'[g][j].entry
                   PROVE  files'[g][j].full /\ files'[g][j].dated = files'[g][i].dated
        OBVIOUS
      <4>1. CASE g = f
        BY <3>4, <4>1
      <4>2. CASE g # f
        BY <3>1, <4>2 DEF RewriteInv
      <4> QED BY <4>1, <4>2
    <3> QED BY <3>5 DEF RewriteInv
  <2>5. ASSUME NEW e \in Entries, Log(f, e) PROVE RewriteInv'
    <3>1. PICK l \in Line : Adds(f, l) /\ ~Logged(l.entry)
      BY <2>5, LogForm
    <3>2. \A i \in DOMAIN files[f] : files[f][i].entry # l.entry
      BY <3>1, WrittenAt DEF Logged
    <3> QED BY <2>4, <3>1, <3>2
  <2>6. CASE Finish(f)
    <3> DEFINE k == LastOf(f)
               l == [k EXCEPT !.full = TRUE, !.cell = "good"]
    <3>1. files[f] \in Seq(Line) /\ files[f] # <<>>
      BY <2>6 DEF Finish, TypeInv
    <3>2. k \in Line
      BY <3>1 DEF LastOf
    <3>3. l.full /\ l.dated = k.dated /\ l.entry = k.entry
      BY <3>2 DEF Line
    <3>4. PICK m \in Line : Adds(f, m)
      BY <2>6, FinishForm
    <3>5. files' = [files EXCEPT ![f] = Append(files[f], l)] /\ files' = [files EXCEPT ![f] = Append(files[f], m)]
      BY <2>2, <2>6, <3>4 DEF Finish, Rewritten, Adds
    <3> HIDE DEF l, k
    <3>6. m = l
      <4>1. Append(files[f], m) = Append(files[f], l)
        BY <3>5 DEF TypeInv
      <4>2. Append(files[f], m)[Len(files[f]) + 1] = m /\ Append(files[f], l)[Len(files[f]) + 1] = l
        BY <3>1
      <4> QED BY <4>1, <4>2
    <3>7. ASSUME NEW i \in DOMAIN files[f], files[f][i].entry = l.entry PROVE l.full /\ l.dated = files[f][i].dated
      <4>1. /\ i \in 1..Len(files[f]) /\ Len(files[f]) \in DOMAIN files[f] /\ Len(files[f]) \in Nat
            /\ k = files[f][Len(files[f])]
        BY <3>1 DEF k, LastOf
      <4>2. CASE i = Len(files[f])
        BY <3>3, <4>1, <4>2
      <4>3. CASE i < Len(files[f])
        BY <3>3, <3>7, <4>1, <4>3 DEF RewriteInv
      <4> QED BY <3>3, <4>1, <4>2, <4>3
    <3> QED BY <2>4, <3>4, <3>6, <3>7
  <2> QED BY <2>3, <2>5, <2>6
<1> QED BY <1>1, <1>2, NextKinds

LEMMA ReadFull ==
    ASSUME WorldInv, KeyedInv, FinalLines, RewriteInv, todo \subseteq Files, NEW f \in Files, Read(f),
           harness \notin {"claude", "kimi", "droid", "copilot"},
           NEW ev \in events', ev \notin events, NEW e \in ev.calls, e \in final, Known(e)
    PROVE  ev.full
<1>1. TypeInv
  BY DEF WorldInv
<1>2. CASE harness = "fx"
  BY <1>1, <1>2, FxFull
<1>3. CASE harness = "commandcode"
  BY <1>3, CommandcodeFull
<1>4. CASE harness \in Stores
  BY <1>1, <1>4, StoreFull
<1>5. CASE harness \in WriteOnce \cup {"amp"} /\ harness # "fx"
  BY <1>5, KeyedFull
<1>6. harness \in Harnesses
  BY <1>1 DEF TypeInv
<1> QED BY <1>2, <1>3, <1>4, <1>5, <1>6, Which DEF WriteOnce, Stores, Snapshots, Streams


-----------------------------------------------------------------------------
(***************************************************************************)
(* Kimi: of the updates of a call the largest stays, whatever is read      *)
(* later.                                                                  *)
(***************************************************************************)
LEMMA KimiReading ==
    ASSUME TypeInv, harness = "kimi", NEW f \in Files
    PROVE  /\ \A ev \in events : ev.full =>
                \E dv \in ReadingOf(f).events : dv.full /\ dv.key = ev.key
           /\ \A i \in KimiRows(files[f]) : files[f][i].full =>
                \E dv \in ReadingOf(f).events : dv.full /\ dv.key = RowKey(f, i)
<1> DEFINE ls == files[f]
           rows == KimiRows(ls)
           Slot(i) == KimiSlot(f, session[f], ls, i)
           best == {i \in rows : \A j \in rows \ {i} :
                    Slot(j) = Slot(i) => IF j < i THEN KimiReplaces(ls[i], ls[j])
                                                  ELSE ~KimiReplaces(ls[j], ls[i])}
           R == {i \in best : \A ev \in events : ev.key = Slot(i) => KimiReplaces(ls[i], ev)}
           X == {ev \in events : \E i \in R : ev.key = Slot(i)}
           E(i) == Event(f, session[f], ls[i], Slot(i), TRUE)
           out == ReadingOf(f).events
<1>1. out = (events \ X) \cup {E(i) : i \in R}
  BY DEF ReadingOf, Kimi, Reading, Counted, Always
<1>2. rows \subseteq 1..Len(ls) /\ Len(ls) \in Nat /\ \A i \in rows : ls[i].cell = "good"
  <2>1. DOMAIN ls = 1..Len(ls) /\ Len(ls) \in Nat
    BY DEF TypeInv
  <2>2. rows \subseteq DOMAIN ls
    BY DEF KimiRows, Rows, Holding
  <2>3. \A i \in rows : ls[i].cell = "good"
    BY DEF KimiRows, Rows, Holding
  <2> QED BY <2>1, <2>2, <2>3
<1>3. \A i : Slot(i) = RowKey(f, i)
  BY DEF KimiSlot, RowKey, KeyAt, Placed, Snapshots
<1>4. /\ \A i \in rows : (\A j \in rows \ {i} : Slot(j) = Slot(i) => IF j < i THEN KimiReplaces(ls[i], ls[j])
                                                                    ELSE ~KimiReplaces(ls[j], ls[i])) => i \in best
      /\ \A i \in best : (\A ev \in events : ev.key = Slot(i) => KimiReplaces(ls[i], ev)) => i \in R
      /\ \A i \in R : i \in rows /\ \A ev \in events : ev.key = Slot(i) => KimiReplaces(ls[i], ev)
      /\ \A ev \in X : \E i \in R : ev.key = Slot(i)
  OBVIOUS
<1>5. \A i : E(i).key = Slot(i) /\ E(i).full = (ls[i].full /\ ls[i].cell = "good")
  BY DEF Event
<1> HIDE DEF R, X, E, rows, best, Slot, out
<1>6. ASSUME NEW i \in R, ls[i].full PROVE E(i) \in out /\ E(i).full /\ E(i).key = Slot(i)
  BY <1>1, <1>2, <1>4, <1>5, <1>6
<1>7. ASSUME NEW ev \in events, ev.full PROVE \E dv \in out : dv.full /\ dv.key = ev.key
  <2>1. CASE ev \in X
    <3>1. PICK i \in R : ev.key = Slot(i)
      BY <1>4, <2>1
    <3>2. ls[i].full
      BY <1>4, <1>7, <3>1 DEF KimiReplaces
    <3> QED BY <1>6, <3>1, <3>2
  <2>2. CASE ev \notin X
    BY <1>1, <1>7, <2>2
  <2> QED BY <2>1, <2>2
<1>8. ASSUME NEW i \in rows, ls[i].full PROVE \E dv \in out : dv.full /\ dv.key = Slot(i)
  <2> DEFINE S == {j \in rows : Slot(j) = Slot(i) /\ ls[j].full}
  <2>1. S \in SUBSET (1..Len(ls)) /\ S # {}
    BY <1>2, <1>8
  <2>2. PICK m \in S : \A k \in S : k <= m
    <3> HIDE DEF S
    <3> QED BY <1>2, <2>1, GreatestOf
  <2>3. m \in rows /\ Slot(m) = Slot(i) /\ ls[m].full /\ m \in Nat
    BY <1>2, <2>2
  <2>4. ASSUME NEW j \in rows \ {m}, Slot(j) = Slot(m)
        PROVE  IF j < m THEN KimiReplaces(ls[m], ls[j]) ELSE ~KimiReplaces(ls[j], ls[m])
    <3>1. j \in Nat /\ j # m
      BY <1>2, <2>4
    <3>2. j > m => ~ls[j].full
      <4>1. ls[j].full => j \in S
        BY <2>3, <2>4
      <4> HIDE DEF S
      <4> QED BY <2>2, <2>3, <3>1, <4>1
    <3> QED BY <2>3, <3>1, <3>2 DEF KimiReplaces
  <2>5. m \in best
    BY <1>4, <2>3, <2>4
  <2>6. m \in R
    BY <1>4, <2>3, <2>5 DEF KimiReplaces
  <2> QED BY <1>6, <2>3, <2>6
<1> QED BY <1>3, <1>7, <1>8 DEF rows, out

\* An event under the key of a call's line is of the call.
LEMMA KeyIsOf ==
    ASSUME WorldInv, AgreeInv, KeyedInv, todo \subseteq Files, NEW g \in Files, Read(g),
           harness \in Keyed, NEW e \in Calls, Known(e),
           NEW f \in Files, NEW i \in DOMAIN files[f], files[f][i].kind \in {"call", "record"},
           e \in files[f][i].calls, NEW ev \in events', ev.key = RowKey(f, i)
    PROVE  e \in ev.calls
<1>1. UNCHANGED <<harness, quirk, session, files>>
  BY DEF Read, Past
<1>2. Written' = Written /\ (AllNamed' <=> AllNamed) /\ (FromLine(ev)' <=> FromLine(ev))
  BY <1>1 DEF Written, Lines, AllNamed, FromLine, KeyAt, UsageKey
<1>3. AllNamed
  BY DEF Known, KnownBy, AllNamed
<1>4. KeyedInv' /\ todo' \subseteq Files
  BY ReadKeepsKeyed DEF WorldInv, Read, Past
<1>5. Accounted(ev)'
  BY <1>1, <1>2, <1>3, <1>4 DEF KeyedInv
<1>6. ev.file \in Files /\ FromLine(ev)
  BY <1>1, <1>2, <1>4, <1>5 DEF Accounted
<1> QED BY <1>6, KeyTells

LEMMA KimiReadKeeps ==
    ASSUME WorldInv, AgreeInv, KeyedInv, todo \subseteq Files, NEW f \in Files, Read(f),
           harness = "kimi", NEW e \in Calls, Known(e)
    PROVE  /\ (\E ev \in CountsOf(e) : ev.full) => \E ev \in CountsOf(e)' : ev.full
           /\ (\E i \in DOMAIN files[f] : Finished(files[f][i], e)) => \E ev \in CountsOf(e)' : ev.full
<1>1. /\ TypeInv /\ harness \in Keyed /\ AllNamed /\ harness \notin Rotates
      /\ harness \notin Totalled \cup {"copilot"}
  BY DEF WorldInv, Keyed, Transcribed, AllNamed, Rotates, Totalled, Snapshots
<1>2. events' = ReadingOf(f).events
  BY DEF Read
<1>3. ASSUME NEW ev \in events, e \in ev.calls, ev.full PROVE \E dv \in CountsOf(e)' : dv.full
  <2>1. ev.file \in Files /\ FromLine(ev)
    BY <1>1 DEF KeyedInv, Accounted
  <2>2. PICK j \in Nat, k \in Written :
        /\ ev.key = KeyAt(ev.file, ev.session, j, k)
        /\ ev.calls = k.calls /\ k.entry[1] = ev.session
        /\ k.kind \in {"call", "record"}
        /\ harness \notin Rotates => j \in DOMAIN files[ev.file] /\ files[ev.file][j] = k
    BY <2>1 DEF FromLine
  <2>3. j \in DOMAIN files[ev.file] /\ files[ev.file][j] = k
    BY <1>1, <2>2
  <2>4. Fits(k, session[ev.file])
    BY <1>1, <2>1, <2>3 DEF TypeInv
  <2>5. ev.key = RowKey(ev.file, j)
    BY <2>2, <2>3, <2>4 DEF RowKey, Fits
  <2>6. PICK dv \in events' : dv.full /\ dv.key = RowKey(ev.file, j)
    BY <1>1, <1>2, <1>3, <2>5, KimiReading
  <2>7. e \in dv.calls
    BY <1>1, <1>3, <2>1, <2>2, <2>3, <2>6, KeyIsOf
  <2> QED BY <2>6, <2>7 DEF CountsOf
<1>4. ASSUME NEW i \in DOMAIN files[f], Finished(files[f][i], e) PROVE \E dv \in CountsOf(e)' : dv.full
  <2> DEFINE l == files[f][i]
  <2>1. l \in Written /\ l.full /\ l.cell = "good" /\ e \in l.calls
    BY <1>4, WrittenAt DEF Finished
  <2>2. l.kind \in {"call", "record"}
    BY <1>1, <2>1, UsageLine
  <2>3. i \in KimiRows(files[f])
    BY <2>1, <2>2 DEF KimiRows, Rows, Holding
  <2>4. PICK dv \in events' : dv.full /\ dv.key = RowKey(f, i)
    BY <1>1, <1>2, <2>1, <2>3, KimiReading
  <2>5. e \in dv.calls
    BY <1>1, <2>1, <2>2, <2>4, KeyIsOf
  <2> QED BY <2>4, <2>5 DEF CountsOf
<1> QED BY <1>3, <1>4 DEF CountsOf

LEMMA NextKimi ==
    ASSUME WorldInv, AgreeInv, KeyedInv, HeldInv, FinalLines, KimiFinal, [Next]_vars
    PROVE  KimiFinal'
<1>1. TypeInv /\ todo \subseteq Files
  BY DEF WorldInv, HeldInv
<1>2. CASE HarnessStep
  <2>1. UNCHANGED <<harness, quirk, reader>>
    BY <1>1, <1>2, StepForm
  <2> SUFFICES ASSUME harness = "kimi", NEW e \in final, Known(e)', e \notin reported,
                      ~\E ev \in CountsOf(e) : ev.full
               PROVE  \E f \in todo : e \in held[f] /\ \E i \in DOMAIN files'[f] : Finished(files'[f][i], e)
    BY <2>1 DEF KimiFinal, reader, CountsOf, Finished
  <2>2. Known(e)
    BY <1>1, <1>2, KnownShrinks
  <2>3. PICK f \in todo : e \in held[f] /\ \E i \in DOMAIN files[f] : Finished(files[f][i], e)
    BY <2>2 DEF KimiFinal
  <2>4. PICK i \in DOMAIN files[f] : Finished(files[f][i], e)
    BY <2>3
  <2>5. i \in DOMAIN files'[f] /\ files'[f][i] = files[f][i]
    <3>1. CASE \E g \in Files, l \in Line : Adds(g, l)
      BY <1>1, <2>4, <3>1, AfterAdds DEF Snapshots
    <3>2. CASE \E g, h \in Files : Moves(g, h)
      <4>1. PICK g \in Files, h \in Files : Moves(g, h)
        BY <3>2
      <4>2. f # h
        BY <1>1, <2>4, <4>1, AfterMoves
      <4>3. files'[f] = files[f]
        BY <1>1, <2>4, <4>1, <4>2, AfterMoves DEF Rotates
      <4> QED BY <4>3
    <3> QED BY <1>1, <1>2, <3>1, <3>2, StepForm
  <2> QED BY <2>3, <2>4, <2>5
<1>3. CASE ReaderStep \/ UNCHANGED vars
  <2>1. UNCHANGED <<harness, quirk, session, files, age>>
    BY <1>3, ReaderLeavesWorld
  <2> SUFFICES ASSUME harness = "kimi" PROVE KimiFinal'
    BY <2>1 DEF KimiFinal
  <2>2. \A e : Known(e)' <=> Known(e)
    BY <2>1 DEF Known, KnownBy, Borrowed, Borrows, Written, Lines
  <2>3. CASE Begin
    <3>1. /\ final' = UNION {l.calls : l \in {k \in Written : k.full /\ k.cell = "good"}}
          /\ todo' = {f \in Files : session[f] # 0} /\ held' = [f \in Files |-> Knowable(f)]
      BY <2>3 DEF Begin
    <3>2. ASSUME NEW e \in final'
          PROVE  \E f \in todo' : e \in held'[f] /\ \E i \in DOMAIN files[f] : Finished(files[f][i], e)
      <4>1. PICK l \in Written : l.full /\ l.cell = "good" /\ e \in l.calls
        BY <3>1
      <4>2. PICK f \in Files : \E i \in DOMAIN files[f] : l = files[f][i]
        BY WrittenAt
      <4>3. l \in Lines(f)
        BY <4>2 DEF Lines
      <4>4. session[f] # 0
        BY <1>1, <4>3, InLines
      <4>5. e \in Knowable(f)
        BY <4>1, <4>3 DEF Knowable
      <4> QED BY <3>1, <4>1, <4>2, <4>4, <4>5 DEF Finished
    <3> QED BY <2>1, <3>2 DEF KimiFinal
  <2>4. ASSUME NEW g \in Files, Unreadable(g) PROVE KimiFinal'
    <3>1. /\ events' = events /\ held' = held /\ final' = final /\ todo' = todo \ {g}
          /\ reported' = reported \cup held[g]
      BY <2>4 DEF Unreadable, Past, PassesOver
    <3> QED BY <2>1, <2>2, <3>1 DEF KimiFinal, CountsOf
  <2>5. ASSUME NEW g \in Files, Read(g) PROVE KimiFinal'
    <3>1. held' = held /\ final' = final /\ todo' = todo \ {g} /\ reported \subseteq reported'
      BY <2>5 DEF Read, Past
    <3> SUFFICES ASSUME NEW e \in final, Known(e), e \notin reported,
                        ~\E f \in todo' : e \in held[f] /\ \E i \in DOMAIN files[f] : Finished(files[f][i], e)
                 PROVE  \E ev \in CountsOf(e)' : ev.full
      BY <2>1, <2>2, <3>1 DEF KimiFinal
    <3>2. e \in Calls
      <4>1. PICK l \in Written : e \in l.calls
        BY DEF FinalLines, Finished, Snapshots
      <4>2. PICK f \in Files : l \in Lines(f)
        BY DEF Written
      <4>3. l \in Line
        BY <1>1, <4>2, InLines
      <4> QED BY <4>1, <4>3 DEF Line
    <3>3. \/ \E ev \in CountsOf(e) : ev.full
          \/ \E i \in DOMAIN files[g] : Finished(files[g][i], e)
      BY <3>1 DEF KimiFinal
    <3> QED BY <1>1, <2>5, <3>2, <3>3, KimiReadKeeps
  <2>6. CASE Select
    BY <2>6 DEF Select
  <2>7. CASE UNCHANGED vars
    <3>1. UNCHANGED <<todo, held, final, events, reported>>
      BY <2>7 DEF vars, reader
    <3> QED BY <2>1, <2>2, <3>1 DEF KimiFinal, CountsOf
  <2> QED BY <1>3, <2>3, <2>4, <2>5, <2>6, <2>7 DEF ReaderStep
<1> QED BY <1>2, <1>3, NextKinds


-----------------------------------------------------------------------------
(***************************************************************************)
(* Droid: of the files of a session one with its total is kept.            *)
(***************************************************************************)
LEMMA LogKeepsCells ==
    ASSUME TypeInv, SnapInv, DroidInv, DroidCells, harness = "droid", NEW f \in Files, NEW e \in Entries,
           Log(f, e)
    PROVE  /\ DroidCells'
           /\ \A g \in Files : session[g] # 0 /\ files[g][1].cell # "zero" => files'[g][1].cell # "zero"
           /\ \A g \in Files : session[g] = session[f] /\ session[f] # 0
                                    /\ files[f][1].cell = "zero" => files[g][1].cell = "zero"
<1>1. harness \in Snapshots /\ harness' = harness /\ ~Logged(e) /\ e \in Given("droid") /\ harness \in Harnesses
  BY DEF Snapshots, Log, Rewritten, Follows, TypeInv
<1>2. PICK l \in Line :
        /\ files' = [files EXCEPT ![f] = <<l>>] /\ session' = [session EXCEPT ![f] = e[1]]
        /\ session[f] \in {0, e[1]} /\ l.entry = e
        /\ \/ files[f] = <<>> /\ l.calls = {e}
           \/ files[f] # <<>> /\ l.cell \in {"good", "bad"}
  BY <1>1, SnapLog
<1>3. /\ files'[f] = <<l>> /\ files'[f][1] = l
      /\ \A g \in Files \ {f} : files'[g] = files[g] /\ session'[g] = session[g]
      /\ session'[f] = e[1]
  BY <1>2 DEF TypeInv
<1>4. /\ DroidInv' /\ \A g \in Files : e \notin Total(g)
      /\ Total(f)' = {e} \cup Total(f) /\ (session[f] # 0 => session'[f] = session[f])
  BY LogKeepsDroid
<1>5. \A g \in Files \ {f} : Total(g)' = Total(g)
  BY <1>3 DEF Total, Lines
<1>6. \A g \in Files : session[g] # 0 => files[g][1].entry # e
  <2> SUFFICES ASSUME NEW g \in Files, session[g] # 0, files[g][1].entry = e PROVE FALSE
    OBVIOUS
  <2>1. files[g][1] \in Lines(g)
    BY DroidLine
  <2>2. files[g][1] \in Written
    BY <2>1, InLines
  <2> QED BY <1>1, <2>2 DEF Logged
<1>7. session[f] # 0 => files[f] # <<>>
  BY DroidLine
<1>8. \A g \in Files : session[g] # 0 /\ files[g][1].cell # "zero" => files'[g][1].cell # "zero"
  BY <1>2, <1>3, <1>7
<1>9. ASSUME NEW g \in Files, session[g] = session[f], session[f] # 0,
             files[f][1].cell = "zero", files[g][1].cell # "zero"
      PROVE  FALSE
  <2> DEFINE x == files[g][1].entry
             y == files[f][1].entry
  <2>1. /\ x \in Given("droid") /\ x[1] = session[g] /\ x \in Total(g) /\ Total(g) = Upto(x)
        /\ x \in Entries /\ e \in Entries /\ g # f
    BY <1>1, <1>9, DroidLine, GivenTypes
  <2>2. x \notin Total(f)
    BY <1>9 DEF DroidCells
  <2>3. e \notin Upto(x) /\ x # e
    BY <1>4, <2>1
  <2>4. Total(f)' = Upto(e) /\ e[1] = session[f]
    <3>1. Lines(f)' = {l}
      BY <1>3 DEF Lines
    <3>2. l.calls = Upto(e)
      BY <1>1, <1>2, <1>4, <3>1 DEF DroidInv
    <3> QED BY <1>2, <1>9, <3>1, <3>2 DEF Total
  <2>5. x[2] < e[2]
    <3>1. x[2] \in Nat /\ e[2] \in Nat
      BY <2>1, EntryTypes
    <3>2. ~(e[2] <= x[2])
      BY <1>1, <1>9, <2>1, <2>3, <2>4 DEF Upto
    <3> QED BY <3>1, <3>2
  <2>6. x \in Upto(e)
    <3>1. x[2] \in Nat /\ e[2] \in Nat
      BY <2>1, EntryTypes
    <3> QED BY <1>9, <2>1, <2>4, <2>5, <3>1 DEF Upto
  <2> QED BY <1>4, <2>2, <2>3, <2>4, <2>6
<1>10. ASSUME NEW g \in Files, NEW h \in Files, session'[g] = session'[h], session'[g] # 0,
              files'[h][1].cell = "zero", files'[g][1].cell # "zero"
       PROVE  files'[g][1].entry \notin Total(h)'
  <2>1. g # h
    BY <1>10
  <2>2. CASE h = f
    <3>1. files[f] = <<>>
      BY <1>2, <1>3, <1>10, <2>2
    <3>2. Total(f) = {}
      BY <3>1 DEF Total, Lines
    <3>3. files'[g][1].entry # e
      BY <1>3, <1>6, <1>10, <2>1, <2>2
    <3> QED BY <1>4, <2>2, <3>2, <3>3
  <2>3. CASE g = f
    BY <1>2, <1>3, <1>4, <1>5, <2>1, <2>3
  <2>4. CASE g # f /\ h # f
    BY <1>3, <1>5, <1>10, <2>4 DEF DroidCells
  <2> QED BY <2>2, <2>3, <2>4
<1>11. DroidCells'
  BY <1>10 DEF DroidCells
<1> QED BY <1>8, <1>9, <1>11

LEMMA CopyKeepsCells ==
    ASSUME TypeInv, SnapInv, DroidInv, DroidCells, harness = "droid", harness' = harness,
           NEW f \in Files, NEW g \in Files, Copy(f, g), Moves(f, g)
    PROVE  DroidCells'
<1>1. /\ session[g] = 0 /\ session[f] # 0 /\ f # g
      /\ \A h \in Files \ {g} : files'[h] = files[h] /\ session'[h] = session[h]
      /\ files'[g] = files[f] /\ session'[g] = session[f]
  BY CopyKeepsDroid, AfterMoves DEF Moves
<1>2. /\ \A h \in Files \ {g} : Total(h)' = Total(h)
      /\ Total(g)' = Total(f)
  BY <1>1 DEF Total, Lines
<1> DEFINE from(h) == IF h = g THEN f ELSE h
<1>3. \A h \in Files : /\ from(h) \in Files /\ files'[h] = files[from(h)] /\ session'[h] = session[from(h)]
                       /\ Total(h)' = Total(from(h))
  BY <1>1, <1>2
<1> HIDE DEF from
<1>4. ASSUME NEW h \in Files, NEW k \in Files, session'[h] = session'[k], session'[h] # 0,
             files'[k][1].cell = "zero", files'[h][1].cell # "zero"
      PROVE  files'[h][1].entry \notin Total(k)'
  BY <1>3, <1>4 DEF DroidCells
<1> QED BY <1>4 DEF DroidCells

LEMMA DroidReadKeeps ==
    ASSUME TypeInv, SnapInv, HeldInv, DroidInv, DroidEvents, DroidCells, DroidFinal, harness = "droid",
           NEW h \in Files, Read(h)
    PROVE  DroidFinal'
<1>1. /\ h \in todo /\ todo' = todo \ {h} /\ session[h] # 0 /\ held' = held /\ final' = final
      /\ UNCHANGED <<harness, session, files, age>> /\ reported \subseteq reported'
      /\ todo \subseteq Files /\ harness \notin Rotates
  BY DEF Read, Past, HeldInv, Rotates
<1> DEFINE c == files[h][1].cell
<1>2. /\ c = "bad" => Total(h) \subseteq reported'
      /\ \/ /\ events' = events
            /\ c = "bad" \/ \E ev \in events \ Older(h) : ev.session = session[h]
         \/ /\ c \in {"good", "zero"}
            /\ \E ev : /\ events' = (events \ Older(h)) \cup {ev}
                       /\ ev.file = h /\ ev.session = session[h] /\ ev.calls = Total(h)
                       /\ ev.key = <<"session", session[h]>>
                       /\ ev.full <=> c = "good"
  BY DroidReads
<1>3. \A ev \in events : /\ ev.file \in Files /\ session[ev.file] = ev.session /\ ev.session # 0
                         /\ ev.calls \subseteq Total(ev.file)
                         /\ \A f \in todo : session[f] = ev.session =>
                                \A e \in held[f] : e \in ev.calls \/ e \notin Total(ev.file)
  BY DEF DroidEvents
<1>4. ASSUME NEW f \in Files, NEW g \in Files, session[f] = session[g], session[f] # 0,
             files[f][1].cell # "zero", Total(f) \subseteq Total(g)
      PROVE  files[g][1].cell # "zero"
  <2>1. files[f][1].entry \in Total(f)
    BY <1>4, DroidLine
  <2> QED BY <1>4, <2>1 DEF DroidCells
<1>5. \A ev \in Older(h) : ev \in events /\ ev.session = session[h] /\ Total(ev.file) \subseteq Total(h)
  <2> SUFFICES ASSUME NEW ev \in Older(h) PROVE Total(ev.file) \subseteq Total(h)
    BY DEF Older
  <2>1. ev \in events /\ ~Newer(ev.file, h) /\ session[ev.file] = session[h] /\ ev.file \in Files
    BY <1>3 DEF Older
  <2> QED BY <1>1, <2>1 DEF DroidInv
<1>6. \A ev \in events \ Older(h) : ev.session = session[h] => Total(h) \subseteq Total(ev.file)
  <2> SUFFICES ASSUME NEW ev \in events \ Older(h), ev.session = session[h] PROVE Total(h) \subseteq Total(ev.file)
    OBVIOUS
  <2>1. Newer(ev.file, h) /\ session[ev.file] = session[h] /\ ev.file \in Files
    BY <1>3 DEF Older
  <2> QED BY <1>1, <2>1 DEF DroidInv
<1>7. c \in {"good", "zero", "bad"}
  BY <1>1, DroidLine
<1>8. ASSUME NEW e \in final, NEW ev \in events, e \in ev.calls, ev.full, files[ev.file][1].cell # "zero"
      PROVE  \E dv \in events' : e \in dv.calls /\ dv.full /\ files[dv.file][1].cell # "zero"
  <2>1. CASE ev \in events'
    BY <1>8, <2>1
  <2>2. CASE ev \notin events'
    <3>1. ev \in Older(h)
      BY <1>2, <2>2
    <3>2. e \in Total(h) /\ c # "zero"
      BY <1>1, <1>3, <1>4, <1>5, <1>8, <3>1
    <3> QED BY <1>2, <2>2, <3>2
  <2> QED BY <2>1, <2>2
<1>9. ASSUME NEW e \in final, e \in held[h], c # "zero",
             \A ev \in events : ev.session = session[h] /\ ~ev.full => files[ev.file][1].cell = "zero"
      PROVE  \/ e \in reported'
             \/ \E dv \in events' : e \in dv.calls /\ dv.full /\ files[dv.file][1].cell # "zero"
  <2>1. e \in Total(h)
    BY <1>1, <1>9 DEF HeldInv, Knowable, Total
  <2>2. CASE c = "bad"
    BY <1>2, <2>1, <2>2
  <2>3. CASE events' = events /\ \E ev \in events \ Older(h) : ev.session = session[h]
    <3>1. PICK ev \in events \ Older(h) : ev.session = session[h]
      BY <2>3
    <3>2. Total(h) \subseteq Total(ev.file)
      BY <1>6, <3>1
    <3>3. files[ev.file][1].cell # "zero"
      BY <1>1, <1>3, <1>4, <1>9, <3>1, <3>2
    <3>4. e \in ev.calls /\ ev.full
      BY <1>1, <1>3, <1>9, <2>1, <3>1, <3>2, <3>3
    <3> QED BY <2>3, <3>1, <3>3, <3>4
  <2>4. CASE c = "good" /\ \E ev : /\ events' = (events \ Older(h)) \cup {ev}
                                    /\ ev.file = h /\ ev.calls = Total(h) /\ (ev.full <=> c = "good")
    BY <1>9, <2>1, <2>4
  <2> QED BY <1>2, <1>9, <2>2, <2>3, <2>4
<1>10. \A dv \in events' : \/ dv \in events
                           \/ dv.file = h /\ (dv.full <=> c = "good") /\ c \in {"good", "zero"}
  BY <1>2
<1> DEFINE Counting(e) == \E dv \in events' : e \in dv.calls /\ dv.full /\ files[dv.file][1].cell # "zero"
           Pending(e) == \E f \in todo' : /\ e \in held[f] /\ files[f][1].cell # "zero"
                                          /\ \A ev \in events' : ev.session = session[f] /\ ~ev.full
                                                                   => files[ev.file][1].cell = "zero"
<1>11. ASSUME NEW e \in final
       PROVE  e \in reported' \/ Counting(e) \/ Pending(e)
  <2>1. CASE e \in reported
    BY <1>1, <2>1
  <2>2. CASE \E ev \in CountsOf(e) : ev.full /\ files[ev.file][1].cell # "zero"
    BY <1>8, <2>2 DEF CountsOf
  <2>3. ASSUME NEW f \in todo, e \in held[f], files[f][1].cell # "zero",
               \A ev \in events : ev.session = session[f] /\ ~ev.full => files[ev.file][1].cell = "zero"
        PROVE  e \in reported' \/ Counting(e) \/ Pending(e)
    <3>1. CASE f = h
      BY <1>9, <2>3, <3>1
    <3>2. CASE f # h
      BY <1>1, <1>10, <2>3, <3>2
    <3> QED BY <3>1, <3>2
  <2> QED BY <2>1, <2>2, <2>3 DEF DroidFinal
<1> QED BY <1>1, <1>11 DEF DroidFinal, CountsOf

LEMMA HarnessKeepsFinal ==
    ASSUME TypeInv, SnapInv, HeldInv, DroidInv, DroidEvents, DroidCells, DroidFinal, harness = "droid",
           HarnessStep
    PROVE  DroidCells' /\ DroidFinal'
<1>1. /\ UNCHANGED <<harness, todo, held, final, events, reported>>
      /\ harness \in Snapshots /\ harness \notin Rotates
  BY StepForm DEF reader, Snapshots, Rotates
<1>2. \A ev \in events : ev.file \in Files /\ session[ev.file] = ev.session /\ ev.session # 0
  BY DEF DroidEvents
<1>3. \A f \in todo : f \in Files /\ session[f] # 0
  BY <1>1 DEF HeldInv
<1>4. ASSUME \A f \in Files : session[f] # 0 =>
                /\ session'[f] = session[f]
                /\ files[f][1].cell # "zero" => files'[f][1].cell # "zero",
             \A f, g \in Files : session[f] = session[g] /\ session[f] # 0
                /\ files[f][1].cell = "zero" /\ files[g][1].cell # "zero" => files'[f][1].cell = "zero"
      PROVE  DroidFinal'
  <2> SUFFICES ASSUME NEW e \in final, e \notin reported,
                      ~\E ev \in CountsOf(e) : ev.full /\ files'[ev.file][1].cell # "zero"
               PROVE  \E f \in todo : /\ e \in held[f] /\ files'[f][1].cell # "zero"
                                      /\ \A ev \in events : ev.session = session'[f] /\ ~ev.full
                                                              => files'[ev.file][1].cell = "zero"
    BY <1>1 DEF DroidFinal, CountsOf
  <2>1. ~\E ev \in CountsOf(e) : ev.full /\ files[ev.file][1].cell # "zero"
    BY <1>2, <1>4 DEF CountsOf
  <2>2. PICK f \in todo : /\ e \in held[f] /\ files[f][1].cell # "zero"
                          /\ \A ev \in events : ev.session = session[f] /\ ~ev.full
                                                  => files[ev.file][1].cell = "zero"
    BY <1>1, <2>1 DEF DroidFinal
  <2>3. ASSUME NEW ev \in events, ev.session = session'[f], ~ev.full PROVE files'[ev.file][1].cell = "zero"
    <3>1. ev.session = session[f] /\ files[ev.file][1].cell = "zero"
      BY <1>3, <1>4, <2>2, <2>3
    <3> QED BY <1>2, <1>3, <1>4, <2>2, <3>1
  <2>4. files'[f][1].cell # "zero"
    BY <1>3, <1>4, <2>2
  <2> QED BY <2>2, <2>3, <2>4
<1>5. ASSUME NEW f \in Files, NEW e \in Entries, Log(f, e) PROVE DroidCells' /\ DroidFinal'
  <2>1. /\ DroidCells'
        /\ \A g \in Files : session[g] # 0 /\ files[g][1].cell # "zero" => files'[g][1].cell # "zero"
        /\ \A g \in Files : session[g] = session[f] /\ session[f] # 0
                                 /\ files[f][1].cell = "zero" => files[g][1].cell = "zero"
    BY <1>5, LogKeepsCells
  <2>2. /\ \A g \in Files \ {f} : files'[g] = files[g] /\ session'[g] = session[g]
        /\ session[f] # 0 => session'[f] = session[f]
    BY <1>5, LogKeepsDroid
  <2> QED BY <1>4, <2>1, <2>2
<1>6. ASSUME NEW f \in Files, NEW g \in Files, Copy(f, g), Moves(f, g) PROVE DroidCells' /\ DroidFinal'
  <2>1. DroidCells'
    BY <1>1, <1>6, CopyKeepsCells
  <2>2. session[g] = 0 /\ \A h \in Files \ {g} : files'[h] = files[h] /\ session'[h] = session[h]
    BY <1>1, <1>6, CopyKeepsDroid
  <2> QED BY <1>4, <2>1, <2>2
<1> QED BY <1>1, <1>5, <1>6, SnapSteps

LEMMA NextDroidFinal ==
    ASSUME TypeInv, SnapInv, HeldInv, DroidInv, DroidEvents, DroidCells, DroidFinal, [Next]_vars
    PROVE  DroidCells' /\ DroidFinal'
<1>1. CASE HarnessStep
  <2>1. harness' = harness
    BY <1>1, StepForm
  <2> QED BY <1>1, <2>1, HarnessKeepsFinal DEF DroidCells, DroidFinal
<1>2. CASE ReaderStep \/ UNCHANGED vars
  <2>1. UNCHANGED <<harness, quirk, session, files, age>>
    BY <1>2, ReaderLeavesWorld
  <2>2. DroidCells'
    BY <2>1 DEF DroidCells, Total, Lines
  <2> SUFFICES ASSUME harness = "droid" PROVE DroidFinal'
    BY <2>1, <2>2 DEF DroidFinal
  <2>3. CASE Begin
    <3>1. /\ final' = UNION {l.calls : l \in {k \in Written : k.full /\ k.cell = "good"}}
          /\ todo' = {f \in Files : session[f] # 0} /\ held' = [f \in Files |-> Knowable(f)]
          /\ events' = {}
      BY <2>3 DEF Begin
    <3>2. ASSUME NEW e \in final'
          PROVE  \E f \in todo' : e \in held'[f] /\ files[f][1].cell # "zero"
      <4>1. PICK l \in Written : l.full /\ l.cell = "good" /\ e \in l.calls
        BY <3>1
      <4>2. PICK f \in Files : l \in Lines(f)
        BY DEF Written
      <4>3. session[f] # 0
        BY <4>2, InLines
      <4>4. files[f][1] = l
        BY <4>2, <4>3, DroidLine
      <4>5. e \in Knowable(f)
        BY <4>1, <4>2 DEF Knowable
      <4> QED BY <3>1, <4>1, <4>3, <4>4, <4>5
    <3> QED BY <2>1, <3>1, <3>2 DEF DroidFinal
  <2>4. ASSUME NEW g \in Files, Unreadable(g) PROVE DroidFinal'
    <3>1. /\ events' = events /\ held' = held /\ final' = final /\ todo' = todo \ {g}
          /\ reported' = reported \cup held[g]
      BY <2>4 DEF Unreadable, Past, PassesOver
    <3> QED BY <2>1, <3>1 DEF DroidFinal, CountsOf
  <2>5. ASSUME NEW g \in Files, Read(g) PROVE DroidFinal'
    BY <2>5, DroidReadKeeps
  <2>6. CASE Select
    BY <2>6 DEF Select
  <2>7. CASE UNCHANGED vars
    <3>1. UNCHANGED <<todo, held, final, events, reported>>
      BY <2>7 DEF vars, reader
    <3> QED BY <2>1, <3>1 DEF DroidFinal, CountsOf
  <2> QED BY <1>2, <2>3, <2>4, <2>5, <2>6, <2>7 DEF ReaderStep
<1> QED BY <1>1, <1>2, NextKinds


-----------------------------------------------------------------------------
(***************************************************************************)
(* Copilot: a record of a call that is over has the call's own span        *)
(* beside it, which is read with it and chosen before it.                  *)
(***************************************************************************)
LEMMA CopilotLine ==
    ASSUME TypeInv, harness = "copilot", NEW l \in Written
    PROVE  /\ l.kind \in {"chat", "inference", "turn", "agent"} /\ l \in Line
           /\ l.kind # "agent" => l.calls = {l.entry}
           /\ l.entry \in l.calls /\ l.entry \in Given(harness)
           /\ l.kind = "agent" => ~l.named
           /\ l.kind = "chat" => l.spanned
<1>1. PICK g \in Files : \E i \in DOMAIN files[g] : l = files[g][i]
  BY WrittenAt
<1>2. l \in Lines(g)
  BY <1>1 DEF Lines
<1>3. Fits(l, session[g]) /\ l \in Line
  BY <1>2, InLines
<1>4. l.kind \in {"chat", "inference", "turn", "agent"}
  BY <1>3 DEF Fits, KindsOf, KeepsLedger
<1>5. l.kind # "agent" => l.calls = {l.entry}
  BY <1>3, <1>4 DEF Fits, Totalled, Snapshots, Marks
<1>6. l.entry \in l.calls /\ l.entry \in Given(harness)
  BY <1>3, <1>5 DEF Fits
<1> QED BY <1>3, <1>4, <1>5, <1>6 DEF Fits

LEMMA OneFile ==
    ASSUME TypeInv, UniqueInv, harness = "copilot", NEW f \in Files, NEW g \in Files,
           NEW l \in Lines(f), NEW k \in Lines(g), l.entry = k.entry
    PROVE  f = g
<1>1. PICK i \in DOMAIN files[f] : l = files[f][i]
  BY DEF Lines
<1>2. PICK j \in DOMAIN files[g] : k = files[g][j]
  BY DEF Lines
<1>3. harness \notin Copies \cup Rotates
  BY DEF Copies, Rotates
<1> QED BY <1>1, <1>2, <1>3 DEF UniqueInv

LEMMA AddKeepsTwins ==
    ASSUME WorldInv, TwinInv, harness = "copilot", harness' = harness,
           NEW f \in Files, NEW x, Lines(f)' = Lines(f) \cup {x},
           \A g \in Files \ {f} : Lines(g)' = Lines(g),
           \A k \in Lines(f) : k.kind = "chat" /\ x.kind = "chat" /\ k.entry = x.entry => k.named = x.named,
           ~x.full /\ (x.kind # "chat" \/ \E n \in Written : n.full /\ x.entry \in n.calls)
                => Twin(x, Lines(f)),
           x.entry \in x.calls,
           \A g \in Files : \A l \in Lines(g) :
                ~l.full /\ l.kind = "chat" /\ x.full /\ l.entry \in x.calls => Twin(l, Lines(g)')
    PROVE  TwinInv'
<1>1. Written' = Written \cup {x}
  <2>1. \A l : l \in Written' <=> \E g \in Files : l \in Lines(g)'
    BY DEF Written
  <2>2. \A l : l \in Written <=> \E g \in Files : l \in Lines(g)
    BY DEF Written
  <2> QED BY <2>1, <2>2
<1>2. \A l : \A g \in Files : Twin(l, Lines(g)) => Twin(l, Lines(g)')
  BY DEF Twin
<1>3. ASSUME NEW g \in Files, NEW l \in Lines(g)', NEW k \in Lines(g)',
             k.kind = "chat", l.kind = "chat", k.entry = l.entry
      PROVE  k.named = l.named
  BY <1>3 DEF TwinInv
<1>4. ASSUME NEW g \in Files, NEW l \in Lines(g)', ~l.full,
             l.kind # "chat" \/ \E n \in Written' : n.full /\ l.entry \in n.calls
      PROVE  Twin(l, Lines(g)')
  <2>1. CASE l \in Lines(g)
    <3>1. CASE l.kind # "chat" \/ \E n \in Written : n.full /\ l.entry \in n.calls
      BY <1>2, <1>4, <2>1, <3>1 DEF TwinInv
    <3>2. CASE l.kind = "chat" /\ x.full /\ l.entry \in x.calls
      BY <1>4, <2>1, <3>2
    <3> QED BY <1>1, <1>4, <3>1, <3>2
  <2>2. CASE l \notin Lines(g)
    <3>1. l = x /\ g = f
      BY <2>2
    <3> QED BY <1>1, <1>2, <1>4, <3>1
  <2> QED BY <2>1, <2>2
<1> QED BY <1>3, <1>4 DEF TwinInv

LEMMA FileAdds ==
    ASSUME TypeInv, harness = "copilot", NEW f \in Files, NEW x, Rewritten(f, Append(files[f], x))
    PROVE  /\ Lines(f)' = Lines(f) \cup {x} /\ harness' = harness
           /\ \A g \in Files \ {f} : Lines(g)' = Lines(g)
<1>1. harness' = harness /\ files' = [files EXCEPT ![f] = Append(files[f], x)]
  BY DEF Rewritten
<1>2. files'[f] = Append(files[f], x) /\ \A g \in Files \ {f} : files'[g] = files[g]
  BY <1>1 DEF TypeInv
<1>3. /\ files[f] \in Seq(Line) /\ Len(files[f]) \in Nat /\ DOMAIN files[f] = 1..Len(files[f])
  BY DEF TypeInv
<1>4. /\ DOMAIN files'[f] = 1..Len(files[f]) + 1 /\ files'[f][Len(files[f]) + 1] = x
      /\ \A i \in 1..Len(files[f]) : files'[f][i] = files[f][i]
  BY <1>2, <1>3
<1>5. \A i : i \in DOMAIN files'[f] <=> i \in 1..Len(files[f]) \/ i = Len(files[f]) + 1
  BY <1>3, <1>4
<1>6. Lines(f)' = Lines(f) \cup {x}
  <2>1. \A l : l \in Lines(f)' <=> \E i \in DOMAIN files'[f] : l = files'[f][i]
    BY DEF Lines
  <2>2. \A l : l \in Lines(f) <=> \E i \in DOMAIN files[f] : l = files[f][i]
    BY DEF Lines
  <2>3. \A l : l \in Lines(f)' <=> l \in Lines(f) \/ l = x
    BY <1>3, <1>4, <1>5, <2>1, <2>2
  <2> QED BY <2>3
<1> QED BY <1>1, <1>2, <1>6 DEF Lines

LEMMA LogKeepsTwins ==
    ASSUME WorldInv, TwinInv, harness = "copilot", NEW f \in Files, NEW e \in Entries, Log(f, e)
    PROVE  TwinInv'
<1>1. TypeInv /\ harness \notin Snapshots
  BY DEF WorldInv, Snapshots
<1>2. PICK x \in LinesFor(e, f) : Rewritten(f, Append(files[f], x))
  BY <1>1 DEF Log
<1>3. ~Logged(e) /\ e \in Given(harness) /\ Given(harness) \subseteq Calls /\ Kind(e) = "call"
  BY <1>1, GivenTypes DEF Log, Follows, TypeInv, Calls
<1>4. /\ x.entry = e /\ x.kind \in {"chat", "inference"} /\ x.calls = {e}
      /\ x.kind = "inference" => x.full
  <2>1. x \in LinesOf(e, f) /\ (x.kind \in {"inference", "turn"} => x.full)
    BY DEF LinesFor
  <2>2. x.entry \in {e} /\ x.kind \in {"chat", "inference"} /\ x.calls \in {{e}}
    BY <1>1, <1>3, <2>1 DEF LinesOf, CallKinds, KeepsLedger
  <2> QED BY <2>1, <2>2
<1>5. /\ Lines(f)' = Lines(f) \cup {x} /\ harness' = harness
      /\ \A g \in Files \ {f} : Lines(g)' = Lines(g)
  BY <1>1, <1>2, FileAdds
<1>6. \A l \in Written : l.entry # e /\ e \notin l.calls
  BY <1>3 DEF Logged
<1>7. \A g \in Files : Lines(g) \subseteq Written
  BY DEF Written
<1> QED BY <1>4, <1>5, <1>6, <1>7, AddKeepsTwins

LEMMA FinishKeepsTwins ==
    ASSUME WorldInv, TwinInv, harness = "copilot", NEW f \in Files, Finish(f)
    PROVE  TwinInv'
<1> DEFINE k == LastOf(f)
           x == [k EXCEPT !.full = TRUE, !.cell = "good"]
<1>1. TypeInv /\ UniqueInv /\ files[f] \in Seq(Line) /\ files[f] # <<>> /\ Rewritten(f, Append(files[f], x))
  BY DEF WorldInv, TypeInv, Finish
<1>2. k \in Lines(f)
  BY <1>1 DEF LastOf, Lines
<1>3. \A g \in Files : Lines(g) \subseteq Written
  BY DEF Written
<1>4. k \in Line /\ k \in Written
  BY <1>1, <1>2, InLines
<1>5. k.kind = "chat" /\ ~k.full /\ k.calls = {k.entry}
  BY <1>1, <1>4, CopilotLine DEF Finish
<1>6. /\ x.kind = "chat" /\ x.entry = k.entry /\ x.calls = {k.entry} /\ x.named = k.named
      /\ x.full /\ x.cell = "good"
  BY <1>4, <1>5 DEF Line
<1> HIDE DEF k, x
<1>7. /\ Lines(f)' = Lines(f) \cup {x} /\ harness' = harness
      /\ \A g \in Files \ {f} : Lines(g)' = Lines(g)
  BY <1>1, FileAdds
<1>8. ASSUME NEW g \in Files, NEW l \in Lines(g), l.kind = "chat", l.entry \in x.calls
      PROVE  Twin(l, Lines(g)')
  <2>1. l.entry = k.entry
    BY <1>6, <1>8
  <2>2. g = f
    BY <1>1, <1>2, <1>8, <2>1, OneFile
  <2>3. l.named = k.named
    BY <1>2, <1>5, <1>8, <2>1, <2>2 DEF TwinInv
  <2> QED BY <1>6, <1>7, <2>1, <2>2, <2>3 DEF Twin
<1>9. \A l \in Lines(f) : l.kind = "chat" /\ l.entry = x.entry => l.named = x.named
  BY <1>2, <1>5, <1>6 DEF TwinInv
<1> QED BY <1>6, <1>7, <1>8, <1>9, AddKeepsTwins

LEMMA TelemetryKeepsTwins ==
    ASSUME WorldInv, TwinInv, NEW f \in Files, Telemetry(f)
    PROVE  TwinInv'
<1>1. TypeInv /\ harness = "copilot"
  BY DEF WorldInv, Telemetry
<1>2. PICK k \in Lines(f), kind \in {"inference", "turn", "agent"} :
        LET of == IF kind = "agent" THEN {e \in Given(harness) : PromptOf(e) = PromptOf(k.entry)}
                                    ELSE {k.entry}
        IN  /\ of \subseteq {e \in Given(harness) : Logged(e) /\ Over(e)}
            /\ \A m \in Written : ~(m.kind = kind /\ m.calls = of)
            /\ \E cell \in {"good", "bad"}, spanned \in BOOLEAN :
                LET record == [k EXCEPT !.kind = kind, !.calls = of, !.cell = cell,
                                        !.spanned = spanned, !.named = k.named /\ kind # "agent"]
                IN  /\ ~spanned \/ MaySpan(record)
                    /\ Rewritten(f, Append(files[f], record))
  BY DEF Telemetry
<1> DEFINE of == IF kind = "agent" THEN {e \in Given(harness) : PromptOf(e) = PromptOf(k.entry)}
                                   ELSE {k.entry}
<1>3. PICK cell \in {"good", "bad"}, spanned \in BOOLEAN :
        LET record == [k EXCEPT !.kind = kind, !.calls = of, !.cell = cell,
                                !.spanned = spanned, !.named = k.named /\ kind # "agent"]
        IN  /\ ~spanned \/ MaySpan(record)
            /\ Rewritten(f, Append(files[f], record))
  BY <1>2
<1> DEFINE x == [k EXCEPT !.kind = kind, !.calls = of, !.cell = cell,
                          !.spanned = spanned, !.named = k.named /\ kind # "agent"]
<1>4. k \in Line /\ k \in Written /\ k.entry \in Given(harness)
  BY <1>1, <1>2, InLines, CopilotLine
<1>5. k.entry \in of /\ \A e \in of : Over(e)
  BY <1>2, <1>4
<1> HIDE DEF of
<1>6. /\ x.entry = k.entry /\ x.kind = kind /\ x.calls = of /\ x.full = k.full
      /\ (x.named => k.named)
  BY <1>4 DEF Line
<1>7. Rewritten(f, Append(files[f], x))
  BY <1>3
<1> HIDE DEF x
<1>8. /\ Lines(f)' = Lines(f) \cup {x} /\ harness' = harness
      /\ \A g \in Files \ {f} : Lines(g)' = Lines(g)
  BY <1>1, <1>7, FileAdds
<1>9. ASSUME NEW g \in Files, NEW l \in Lines(g), ~l.full, Over(l.entry)
      PROVE  Twin(l, Lines(g))
  <2> DEFINE n == [l EXCEPT !.full = TRUE]
  <2>1. l \in Line /\ l \in Written /\ l.entry \in l.calls
    BY <1>1, <1>9, InLines, CopilotLine
  <2>2. n \in Lines(g) /\ n \in Written
    BY <1>9 DEF Over, Written
  <2>3. n.full /\ n.calls = l.calls
    BY <2>1 DEF Line
  <2> QED BY <1>1, <1>9, <2>1, <2>2, <2>3 DEF TwinInv
<1>10. ~x.full => Twin(x, Lines(f))
  <2> SUFFICES ASSUME ~x.full PROVE Twin(x, Lines(f))
    OBVIOUS
  <2>1. Twin(k, Lines(f))
    BY <1>2, <1>5, <1>6, <1>9
  <2> QED BY <1>6, <2>1 DEF Twin
<1>11. \A g \in Files : Lines(g) \subseteq Lines(g)'
  BY <1>8
<1>12. \A g \in Files : \A l \in Lines(g) : ~l.full /\ l.entry \in x.calls => Twin(l, Lines(g)')
  BY <1>5, <1>6, <1>9, <1>11 DEF Twin
<1>13. x.entry \in x.calls /\ x.kind # "chat"
  BY <1>5, <1>6
<1> QED BY <1>1, <1>8, <1>10, <1>12, <1>13, AddKeepsTwins

LEMMA NextTwins ==
    ASSUME WorldInv, FinalLines, TwinInv, CarriedInv, [Next]_vars
    PROVE  TwinInv' /\ CarriedInv'
<1>0. TypeInv
  BY DEF WorldInv
<1>1. CASE HarnessStep
  <2>1. UNCHANGED <<harness, carried, final>>
    BY <1>0, <1>1, StepForm DEF reader
  <2> SUFFICES ASSUME harness = "copilot" PROVE TwinInv'
    BY <2>1 DEF TwinInv, CarriedInv
  <2>2. harness \notin Copies \cup Rotates \cup Replays
    BY DEF Copies, Rotates, Replays
  <2>3. \A f, g \in Files : ~Copy(f, g) /\ ~Replay(f) /\ ~Ledger(f)
    BY <2>2 DEF Copy, Replay, Ledger
  <2> QED BY <1>1, <2>3, LogKeepsTwins, FinishKeepsTwins, TelemetryKeepsTwins DEF HarnessStep
<1>2. CASE ReaderStep \/ UNCHANGED vars
  <2>1. UNCHANGED <<harness, quirk, session, files, age>>
    BY <1>2, ReaderLeavesWorld
  <2>2. Written' = Written /\ \A f : Lines(f)' = Lines(f)
    BY <2>1 DEF Written, Lines
  <2>3. TwinInv'
    BY <2>1, <2>2 DEF TwinInv
  <2> SUFFICES ASSUME harness = "copilot" PROVE CarriedInv'
    BY <2>1, <2>3 DEF CarriedInv
  <2>4. CASE Begin
    BY <2>4 DEF Begin, CarriedInv
  <2>5. CASE UNCHANGED <<carried, final>>
    BY <2>5 DEF CarriedInv
  <2>6. CASE Select \/ UNCHANGED vars \/ \E f \in Files : Unreadable(f)
    BY <2>5, <2>6 DEF Select, vars, reader, Unreadable, Past
  <2>7. ASSUME NEW f \in Files, Read(f) PROVE CarriedInv'
    <3>1. carried' = carried \cup Lines(f) /\ final' = final
      BY <2>7 DEF Read, Past
    <3>2. \A l, ls : ls \subseteq carried' /\ Twin(l, ls) => Twin(l, carried')
      BY DEF Twin
    <3>3. ASSUME NEW l \in Lines(f), ~l.full, l.kind # "chat" \/ l.entry \in final
          PROVE  Twin(l, Lines(f))
      <4>1. l.entry \in final => \E n \in Written : n.full /\ l.entry \in n.calls
        BY DEF FinalLines, Finished, Snapshots
      <4> QED BY <3>3, <4>1 DEF TwinInv
    <3> QED BY <2>1, <3>1, <3>2, <3>3 DEF CarriedInv
  <2> QED BY <1>2, <2>4, <2>6, <2>7 DEF ReaderStep
<1> QED BY <1>1, <1>2, NextKinds

LEMMA SelectFull ==
    ASSUME WorldInv, CarriedInv, harness = "copilot", carried \subseteq Written, Select,
           NEW ev \in events', NEW e \in ev.calls, e \in final, Known(e)
    PROVE  ev.full
<1> DEFINE trace == [l \in carried |-> Trace(l)]
           usable == OtelCandidates(carried)
           modelled == {l \in usable : l.cell = "good"}
           kept == {l \in usable : ~OtelOutranked(l, modelled, trace)}
           OwnId(l) == OtelId(l, trace[l])
           GroupOf(id) == OtelBest({l \in kept : OwnId(l) = id})
           merged == {GroupOf(id) : id \in {OwnId(l) : l \in kept}}
           counted == {group \in merged : group \cap modelled # {}}
           EventOf(group) ==
               LET l == CHOOSE k \in group : TRUE
               IN  [file |-> 0, session |-> 0, calls |-> l.calls,
                    full |-> \E k \in group : k.full, turn |-> FALSE, key |-> OwnId(l)]
<1>0. TypeInv
  BY DEF WorldInv
<1>1. events' = {EventOf(group) : group \in counted}
  <2>1. events' = Otel(carried, trace).events
    BY DEF Select
  <2>2. Otel(carried, trace).events = {EventOf(group) : group \in counted}
    BY DEF Otel
  <2> QED BY <2>1, <2>2
<1>2. /\ usable \subseteq carried /\ modelled \subseteq usable /\ kept \subseteq usable
      /\ \A l \in modelled : l.cell = "good"
      /\ \A l \in carried : l.cell = "good" => l \in modelled
      /\ \A l \in usable : ~OtelOutranked(l, modelled, trace) => l \in kept
  BY DEF OtelCandidates
<1>3. \A l \in carried : trace[l] = Trace(l) /\ OwnId(l) = OtelId(l, Trace(l))
  OBVIOUS
<1>4. ASSUME NEW k \in modelled, NEW l \in kept
      PROVE  ~(OtelSource(k) < OtelSource(l) /\ (\/ k.named /\ l.named /\ k.calls = l.calls
                                                 \/ Trace(k) = Trace(l)))
  <2>1. trace[k] = Trace(k) /\ trace[l] = Trace(l)
    BY <1>2, <1>3
  <2> QED BY <2>1 DEF OtelOutranked
<1>5. \A id : \A l \in GroupOf(id) : l \in kept /\ OwnId(l) = id
  BY DEF OtelBest
<1>6. \A k, l \in kept : OwnId(k) = OwnId(l) => k.calls = l.calls
  BY DEF OtelId
<1>7. ASSUME NEW t \in kept, \A l \in kept : OwnId(l) = OwnId(t) => OtelSource(t) <= OtelSource(l)
      PROVE  t \in GroupOf(OwnId(t))
  <2> HIDE DEF kept, OwnId
  <2> QED BY <1>7 DEF OtelBest
<1>8. ASSUME NEW t \in usable, \A l \in modelled : ~(OtelSource(l) < OtelSource(t))
      PROVE  t \in kept
  BY <1>2, <1>8 DEF OtelOutranked
<1>9. PICK group \in counted : ev = EventOf(group)
  BY <1>1
<1>10. PICK id : group = GroupOf(id)
  BY <1>9
<1>11. PICK m \in group : m \in modelled
  BY <1>9
<1>12. ev.full = (\E k \in group : k.full)
  BY <1>9
<1> DEFINE c == CHOOSE k \in group : TRUE
<1>13. c \in group /\ ev.calls = c.calls
  BY <1>9, <1>11
<1> HIDE DEF c, EventOf, GroupOf, OwnId, modelled, kept, usable, counted, merged
<1>14. m \in kept /\ OwnId(m) = id /\ e \in m.calls
  BY <1>5, <1>6, <1>10, <1>11, <1>13
<1>15. m \in carried /\ m \in Written /\ m.cell = "good"
  BY <1>2, <1>11
<1>16. \A l \in carried : l \in Written /\ OtelSource(l) \in Nat
  BY <1>0, RecordPrompt
<1> SUFFICES ASSUME ~m.full PROVE \E k \in group : k.full
  BY <1>11, <1>12
<1>17. /\ m.kind # "agent" => m.calls = {m.entry}
       /\ m.kind \in {"chat", "inference", "turn", "agent"}
       /\ m.kind = "agent" => ~m.named
       /\ m.kind = "chat" => m.spanned
  BY <1>0, <1>15, CopilotLine
<1>18. PICK t \in carried : /\ t.kind = "chat" /\ t.entry = m.entry /\ t.full /\ t.cell = "good"
                            /\ m.named => t.named
  <2>1. m.kind = "chat" => m.entry = e
    BY <1>14, <1>17
  <2> QED BY <1>15, <2>1 DEF CarriedInv, Twin
<1>19. /\ t \in modelled /\ t \in usable /\ t \in Written /\ t.calls = {t.entry} /\ t.spanned
       /\ OtelSource(t) = 0
  <2>1. t \in modelled /\ t \in usable /\ t \in Written
    BY <1>2, <1>16, <1>18
  <2>2. t.calls = {t.entry} /\ t.spanned
    BY <1>0, <1>18, <2>1, CopilotLine
  <2> QED BY <1>18, <2>1, <2>2 DEF OtelSource
<1>20. CASE m.kind = "chat"
  <2>1. Trace(t) = Trace(m) /\ t.calls = m.calls
    BY <1>17, <1>18, <1>19, <1>20 DEF Trace
  <2>2. OtelId(t, Trace(t)) = OtelId(m, Trace(m))
    BY <1>17, <1>18, <1>19, <1>20, <2>1 DEF OtelId
  <2>3. OwnId(t) = id
    BY <1>3, <1>14, <1>15, <1>18, <2>2
  <2>4. t \in kept
    <3>1. \A l \in modelled : ~(OtelSource(l) < OtelSource(t))
      BY <1>2, <1>16, <1>19
    <3> QED BY <1>8, <1>19, <3>1
  <2>5. \A l \in kept : OwnId(l) = OwnId(t) => OtelSource(t) <= OtelSource(l)
    BY <1>2, <1>16, <1>19
  <2>6. t \in group
    BY <1>7, <1>10, <2>3, <2>4, <2>5
  <2> QED BY <1>18, <2>6
<1>21. CASE m.kind # "chat"
  <2>1. OtelSource(t) < OtelSource(m)
    <3>1. OtelSource(m) \in {1, 2, 3}
      BY <1>17, <1>21 DEF OtelSource
    <3> QED BY <1>19, <3>1
  <2>2. ~(t.named /\ m.named /\ t.calls = m.calls) /\ Trace(t) # Trace(m)
    BY <1>4, <1>14, <1>19, <2>1
  <2>3. CASE quirk
    <3>1. m.named
      BY <1>14, <1>15, <2>3 DEF Known, KnownBy
    <3> QED BY <1>17, <1>18, <1>19, <2>2, <3>1
  <2>4. CASE ~quirk
    BY <1>18, <2>2, <2>4 DEF Trace
  <2> QED BY <1>0, <2>3, <2>4 DEF TypeInv
<1> QED BY <1>20, <1>21


-----------------------------------------------------------------------------
(***************************************************************************)
(* A call with final usage when the files were listed is counted with it.  *)
(***************************************************************************)
LEMMA NextFull ==
    ASSUME LossInv, FinalLines, RewriteInv, CarriedInv, FullEvents, [Next]_vars
    PROVE  FullEvents'
<1>1. WorldInv /\ TypeInv /\ KeyedInv /\ OtelInv /\ todo \subseteq Files
  BY DEF LossInv, CountingInv, WorldInv
<1>2. CASE HarnessStep
  <2>1. UNCHANGED <<harness, final, events>>
    BY <1>1, <1>2, StepForm DEF reader
  <2>2. \A e : ~Known(e) => ~Known(e)'
    BY <1>1, <1>2, KnownShrinks
  <2> QED BY <2>1, <2>2 DEF FullEvents
<1>3. CASE ReaderStep \/ UNCHANGED vars
  <2>1. UNCHANGED <<harness, quirk, session, files, age>>
    BY <1>3, ReaderLeavesWorld
  <2>2. \A e : Known(e)' <=> Known(e)
    BY <2>1 DEF Known, KnownBy, Borrowed, Borrows, Written, Lines
  <2> SUFFICES ASSUME harness \notin {"claude", "kimi", "droid"} PROVE FullEvents'
    BY <2>1 DEF FullEvents
  <2>3. CASE Begin
    BY <2>3 DEF Begin, FullEvents
  <2>4. CASE UNCHANGED <<events, final>>
    BY <2>1, <2>2, <2>4 DEF FullEvents
  <2>5. CASE UNCHANGED vars \/ \E f \in Files : Unreadable(f)
    BY <2>4, <2>5 DEF vars, reader, Unreadable, Past
  <2>6. ASSUME NEW f \in Files, Read(f) PROVE FullEvents'
    <3>1. final' = final
      BY <2>6 DEF Read, Past
    <3>2. CASE harness = "copilot"
      <4>1. events' = {}
        BY <2>6, <3>2 DEF Read, ReadingOf
      <4> QED BY <4>1 DEF FullEvents
    <3>3. CASE harness # "copilot"
      <4>1. ASSUME NEW ev \in events', NEW e \in ev.calls, e \in final, Known(e) PROVE ev.full
        <5>1. CASE ev \in events
          BY <4>1, <5>1 DEF FullEvents
        <5>2. CASE ev \notin events
          BY <1>1, <2>6, <3>3, <4>1, <5>2, ReadFull
        <5> QED BY <5>1, <5>2
      <4> QED BY <2>2, <3>1, <4>1 DEF FullEvents
    <3> QED BY <3>2, <3>3
  <2>7. CASE Select
    <3>1. harness = "copilot" /\ final' = final /\ carried \subseteq Written
      BY <1>1, <2>7 DEF Select, OtelInv
    <3>2. ASSUME NEW ev \in events', NEW e \in ev.calls, e \in final, Known(e) PROVE ev.full
      BY <1>1, <2>7, <3>1, <3>2, SelectFull
    <3> QED BY <2>2, <3>1, <3>2 DEF FullEvents
  <2> QED BY <1>3, <2>3, <2>5, <2>6, <2>7 DEF ReaderStep
<1> QED BY <1>2, <1>3, NextKinds

LEMMA InitUsage == Init => UsageInv
<1> SUFFICES ASSUME Init PROVE UsageInv
  OBVIOUS
<1>1. LossInv
  BY InitLoss
<1>2. /\ events = {} /\ final = {} /\ carried = {}
      /\ \A f \in Files : files[f] = <<>> /\ session[f] = 0
  BY DEF Init
<1>3. \A f \in Files : Lines(f) = {} /\ DOMAIN files[f] = {}
  BY <1>2 DEF Lines
<1>4. FinalLines /\ RewriteInv /\ FullEvents
  BY <1>2, <1>3 DEF FinalLines, RewriteInv, FullEvents
<1>5. KimiFinal /\ DroidCells /\ DroidFinal
  BY <1>2 DEF KimiFinal, DroidCells, DroidFinal
<1>6. TwinInv /\ CarriedInv
  BY <1>2, <1>3 DEF TwinInv, CarriedInv
<1> QED BY <1>1, <1>4, <1>5, <1>6 DEF UsageInv

LEMMA NextUsage == UsageInv /\ [Next]_vars => UsageInv'
<1> SUFFICES ASSUME UsageInv, [Next]_vars PROVE UsageInv'
  OBVIOUS
<1>1. /\ LossInv /\ FinalLines /\ RewriteInv /\ FullEvents /\ KimiFinal
      /\ DroidCells /\ DroidFinal /\ TwinInv /\ CarriedInv
  BY DEF UsageInv
<1>2. WorldInv /\ TypeInv /\ KeyedInv
  BY <1>1 DEF LossInv, CountingInv, WorldInv
<1>3. LossInv'
  BY <1>1, NextLoss
<1>4. FinalLines' /\ RewriteInv'
  BY <1>1, <1>2, NextFinalLines, NextRewrite
<1>5. FullEvents'
  BY <1>1, NextFull
<1>6. KimiFinal'
  BY <1>1, <1>2, NextKimi DEF LossInv
<1>7. DroidCells' /\ DroidFinal'
  BY <1>1, <1>2, NextDroidFinal DEF LossInv
<1>8. TwinInv' /\ CarriedInv'
  BY <1>1, <1>2, NextTwins
<1> QED BY <1>3, <1>4, <1>5, <1>6, <1>7, <1>8 DEF UsageInv

LEMMA UsageFinal == UsageInv => FinalUsage
<1> SUFFICES ASSUME UsageInv, done, harness # "claude", NEW e \in final,
                    CountsOf(e) # {}, e \notin reported, Known(e)
             PROVE  \E ev \in CountsOf(e) : ev.full
  BY DEF FinalUsage
<1>1. todo = {}
  BY DEF UsageInv, LossInv, HeldInv
<1>2. CASE harness = "kimi"
  BY <1>1, <1>2 DEF UsageInv, KimiFinal
<1>3. CASE harness = "droid"
  BY <1>1, <1>3 DEF UsageInv, DroidFinal
<1>4. CASE harness \notin {"kimi", "droid"}
  <2>1. PICK ev \in CountsOf(e) : TRUE
    OBVIOUS
  <2>2. ev \in events /\ e \in ev.calls
    BY <2>1 DEF CountsOf
  <2> QED BY <1>4, <2>1, <2>2 DEF UsageInv, FullEvents
<1> QED BY <1>2, <1>3, <1>4

\* A call that had its final usage in a file when the files were listed is
\* counted with it, and not with what was streamed before, by every reader but
\* Claude's, which counts the line it meets first: for every harness, script
\* and number of files.
THEOREM FinalUsageCounts == Spec => []FinalUsage
<1>1. Init => UsageInv
  BY InitUsage
<1>2. UsageInv /\ [Next]_vars => UsageInv'
  BY NextUsage
<1>3. UsageInv => FinalUsage
  BY UsageFinal
<1> QED BY <1>1, <1>2, <1>3, PTL DEF Spec
=============================================================================
