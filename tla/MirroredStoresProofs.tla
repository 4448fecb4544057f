------------------------ MODULE MirroredStoresProofs ------------------------
(***************************************************************************)
(* Proofs about MirroredStores: for any sessions, any number of records    *)
(* and any of the ten harnesses, no call is counted twice, none is lost in *)
(* silence, and a prompt starts at most one turn.                          *)
(*                                                                         *)
(* The reader's two big steps are put into one form first: the events of a *)
(* store are one for each of some rows (FirstForm, SecondForm).  A row is  *)
(* a call or, for some harnesses, a session.                               *)
(***************************************************************************)
EXTENDS MirroredStores, FiniteSetTheorems, WellFoundedInduction, TLAPS

PhaseInv == harness \in Harnesses /\ phase \in {"idle", "ahead", "half", "db", "mirror", "done"}

Harness ==
    \/ \E e \in Entries : \/ WriteMirror(e) \/ WriteDb(e) \/ CopyToMirror(e)
                          \/ Migrate(e) \/ MoveRow(e) \/ Finish(e)
    \/ \E s \in Sessions, t \in Titles : Rename(s, t)
    \/ \E s \in Sessions : Signal(s)

LEMMA HarnessLeavesReader == Harness => UNCHANGED <<harness, quirk, reader>>
BY DEF Harness, WriteMirror, WriteDb, CopyToMirror, Migrate, MoveRow, Finish, Rename, Signal, Writing

LEMMA NextSplit ==
    [Next]_vars => \/ Harness \/ Begin \/ ReadAhead \/ ReadDb \/ ReadMirror
                   \/ MissAhead \/ MissDb \/ MissMirror \/ UNCHANGED vars
BY DEF Next, Harness

LEMMA Ten == harness \in Harnesses =>
    harness \in {"opencode", "zcode", "cline", "devin", "copilot",
                 "deepseek", "grok", "reasonix", "hermes", "jcode"}
BY StoresAssumption

LEMMA CallOf == \A e \in Entries : e[1] \in Sessions /\ e[2] \in DOMAIN Script[e[1]]
                                 /\ e = <<e[1], e[2]>>
BY DEF Entries

LEMMA EntryOf == Calls \subseteq Entries
BY DEF Calls

-----------------------------------------------------------------------------
(***************************************************************************)
(* What the harness makes of its stores.  A record with a usage, or one    *)
(* that cannot be used, is never taken back; OpenCode's may change tables. *)
(***************************************************************************)
Final == {"good", "anon", "bad", "unnamed", "total", "fell"}

StoreInv ==
    /\ db \in Store /\ sessionMessages \in Store /\ mirror \in Store
    /\ harness # "opencode" => \A e \in Entries : sessionMessages[e] = "none"
    /\ \A e \in Entries : db[e] # "none" => sessionMessages[e] = "none"
    /\ \A e \in Entries : /\ Trusted(e) \notin {"anon", "total", "fell"}
                          /\ Trusted(e) = "unnamed" => harness = "devin"
                          /\ mirror[e] = "anon" => harness = "copilot"
                          /\ mirror[e] \in {"total", "fell"} => harness = "grok"
                          /\ mirror[e] # "unnamed"
    /\ harness \in {"hermes", "jcode"} => \A e \in Entries : db[e] # "bad"
    /\ harness = "opencode" =>
            \A e \in Entries : mirror[e] \in Final => Trusted(e) # "zero"

\* What a step of the harness does to an entry's records.
Keeps ==
    /\ \A e \in Entries : mirror[e] \in Final => mirror'[e] = mirror[e]
    /\ harness # "opencode" => \A e \in Entries : db[e] \in Final => db'[e] = db[e]
    /\ \A e \in Entries : Trusted(e) \in Final => Trusted(e)' = Trusted(e)
    /\ \A e \in Entries : sessionMessages[e] \in Final => sessionMessages'[e] = sessionMessages[e]

LEMMA CellsKnown ==
    ASSUME PhaseInv, NEW e
    PROVE  /\ CellsFor(e, DbCells) \subseteq {"good", "bad", "zero", "unnamed"}
           /\ harness \in {"hermes", "jcode"} => "bad" \notin CellsFor(e, DbCells)
           /\ harness # "devin" => "unnamed" \notin CellsFor(e, DbCells)
           /\ CellsFor(e, MirrorCells) \subseteq {"good", "bad", "zero", "anon", "total", "fell"}
           /\ harness # "copilot" => "anon" \notin CellsFor(e, MirrorCells)
           /\ harness # "grok" => {"total", "fell"} \cap CellsFor(e, MirrorCells) = {}
           /\ CellsFor(e, MirrorCells \ {"zero"}) \subseteq CellsFor(e, MirrorCells) \ {"zero"}
BY DEF CellsFor, DbCells, MirrorCells, InProgress

LEMMA StoreInit == Init => StoreInv
BY DEF Init, StoreInv, Empty, Store, CellKinds, Trusted, Final

LEMMA StoreHarness ==
    ASSUME PhaseInv, StoreInv, Harness
    PROVE  StoreInv' /\ Keeps
<1> USE DEF Store
<1>0. harness' = harness
  BY HarnessLeavesReader
<1>1. ASSUME NEW e \in Entries, WriteMirror(e)
      PROVE  StoreInv' /\ Keeps
  <2>1. PICK c \in CellsFor(e, MirrorCells) : mirror' = [mirror EXCEPT ![e] = c]
    BY <1>1 DEF WriteMirror
  <2>2. db' = db /\ sessionMessages' = sessionMessages
    BY <1>1 DEF WriteMirror
  <2>3. db[e] = "none" /\ sessionMessages[e] = "none" /\ mirror[e] = "none"
    BY <1>1 DEF WriteMirror, IsNext, Known
  <2>4. /\ c \in CellKinds /\ c # "unnamed"
        /\ c = "anon" => harness = "copilot"
        /\ c \in {"total", "fell"} => harness = "grok"
    BY CellsKnown DEF CellKinds
  <2>5. \A f \in Entries : Trusted(f)' = Trusted(f)
    BY <2>2 DEF Trusted
  <2>6. Keeps
    BY <2>1, <2>2, <2>3, <2>5 DEF Keeps, StoreInv, Final
  <2>7. StoreInv'
    BY <1>0, <2>1, <2>2, <2>3, <2>4, <2>5 DEF StoreInv, Trusted
  <2> QED BY <2>6, <2>7
<1>2. ASSUME NEW e \in Entries, WriteDb(e)
      PROVE  StoreInv' /\ Keeps
  <2>1. PICK c \in CellsFor(e, DbCells) :
            \/ /\ NotMovedTo(sessionMessages, e[1])
               /\ db' = [db EXCEPT ![e] = c]
               /\ UNCHANGED sessionMessages
            \/ /\ harness = "opencode" /\ NotMovedTo(db, e[1])
               /\ sessionMessages' = [sessionMessages EXCEPT ![e] = c]
               /\ UNCHANGED db
    BY <1>2 DEF WriteDb
  <2>2. mirror' = mirror
    BY <1>2 DEF WriteDb
  <2>3. db[e] = "none" /\ sessionMessages[e] = "none" /\ mirror[e] = "none"
    BY <1>2 DEF WriteDb, IsNext, Known
  <2>4. /\ c \in CellKinds /\ c \notin {"anon", "total", "fell"} /\ c # "none"
        /\ c = "unnamed" => harness = "devin"
        /\ harness \in {"hermes", "jcode"} => c # "bad"
    BY CellsKnown DEF CellKinds
  <2>5. \A f \in Entries : f # e => Trusted(f)' = Trusted(f)
    BY <2>1 DEF Trusted, StoreInv
  <2>6. Trusted(e) = "none" /\ Trusted(e)' = c
    BY <2>1, <2>3, <2>4 DEF Trusted, StoreInv
  <2>7. Keeps
    BY <2>1, <2>2, <2>3, <2>5, <2>6 DEF Keeps, StoreInv, Final
  <2>8. StoreInv'
    <3>1. db' \in Store /\ sessionMessages' \in Store /\ mirror' \in Store
      BY <2>1, <2>2, <2>4 DEF StoreInv
    <3>2. harness # "opencode" => \A f \in Entries : sessionMessages'[f] = "none"
      BY <2>1 DEF StoreInv
    <3>3. \A f \in Entries : db'[f] # "none" => sessionMessages'[f] = "none"
      BY <2>1, <2>3 DEF StoreInv
    <3>4. \A f \in Entries : /\ Trusted(f)' \notin {"anon", "total", "fell"}
                             /\ Trusted(f)' = "unnamed" => harness = "devin"
      BY <2>4, <2>5, <2>6 DEF StoreInv
    <3>5. harness \in {"hermes", "jcode"} => \A f \in Entries : db'[f] # "bad"
      BY <2>1, <2>4 DEF StoreInv
    <3>6. harness = "opencode" =>
            \A f \in Entries : mirror'[f] \in Final => Trusted(f)' # "zero"
      BY <2>2, <2>3, <2>5 DEF StoreInv, Final
    <3> QED BY <1>0, <2>2, <3>1, <3>2, <3>3, <3>4, <3>5, <3>6 DEF StoreInv
  <2> QED BY <2>7, <2>8
<1>3. ASSUME NEW e \in Entries, CopyToMirror(e)
      PROVE  StoreInv' /\ Keeps
  <2>1. PICK c \in CellsFor(e, MirrorCells \ {"zero"}) : mirror' = [mirror EXCEPT ![e] = c]
    BY <1>3 DEF CopyToMirror
  <2>2. db' = db /\ sessionMessages' = sessionMessages
    BY <1>3 DEF CopyToMirror
  <2>3. mirror[e] = "none" /\ (harness = "opencode" => Trusted(e) # "zero")
    BY <1>3 DEF CopyToMirror
  <2>4. /\ c \in CellKinds /\ c # "unnamed"
        /\ c = "anon" => harness = "copilot"
        /\ c \in {"total", "fell"} => harness = "grok"
    BY CellsKnown DEF CellKinds
  <2>5. \A f \in Entries : Trusted(f)' = Trusted(f)
    BY <2>2 DEF Trusted
  <2>6. Keeps
    BY <2>1, <2>2, <2>3, <2>5 DEF Keeps, StoreInv, Final
  <2>7. StoreInv'
    BY <1>0, <2>1, <2>2, <2>3, <2>4, <2>5 DEF StoreInv, Trusted
  <2> QED BY <2>6, <2>7
<1>4. ASSUME NEW e \in Entries, Migrate(e)
      PROVE  StoreInv' /\ Keeps
  <2>1. PICK c \in {mirror[e], "bad"} : db' = [db EXCEPT ![e] = c]
    BY <1>4 DEF Migrate
  <2>2. mirror' = mirror /\ sessionMessages' = sessionMessages /\ harness \in {"opencode", "zcode"}
    BY <1>4 DEF Migrate, Migrates
  <2>3. mirror[e] # "none" /\ Trusted(e) = "none" /\ db[e] = "none" /\ sessionMessages[e] = "none"
    BY <1>4 DEF Migrate, Trusted
  <2>4. /\ c \in CellKinds /\ c \notin {"anon", "total", "fell", "unnamed"} /\ c # "none"
        /\ mirror[e] \in Final => c # "zero"
    BY <2>2, <2>3 DEF StoreInv, CellKinds, Final
  <2>5. \A f \in Entries : f # e => Trusted(f)' = Trusted(f)
    BY <2>1, <2>2 DEF Trusted, StoreInv
  <2>6. Trusted(e)' = c
    BY <2>1, <2>2, <2>4 DEF Trusted, StoreInv
  <2>7. Keeps
    BY <2>1, <2>2, <2>3, <2>5 DEF Keeps, StoreInv, Final
  <2>8. StoreInv'
    <3>1. db' \in Store /\ sessionMessages' \in Store /\ mirror' \in Store
      BY <2>1, <2>2, <2>4 DEF StoreInv
    <3>2. \A f \in Entries : db'[f] # "none" => sessionMessages'[f] = "none"
      BY <2>1, <2>2, <2>3 DEF StoreInv
    <3>3. \A f \in Entries : /\ Trusted(f)' \notin {"anon", "total", "fell"}
                             /\ Trusted(f)' = "unnamed" => harness = "devin"
      BY <2>4, <2>5, <2>6 DEF StoreInv
    <3>4. harness = "opencode" =>
            \A f \in Entries : mirror'[f] \in Final => Trusted(f)' # "zero"
      BY <2>2, <2>4, <2>5, <2>6 DEF StoreInv
    <3> QED BY <1>0, <2>2, <3>1, <3>2, <3>3, <3>4 DEF StoreInv
  <2> QED BY <2>7, <2>8
<1>5. ASSUME NEW e \in Entries, MoveRow(e)
      PROVE  StoreInv' /\ Keeps
  <2>1. /\ sessionMessages' = [sessionMessages EXCEPT ![e] = db[e]]
        /\ db' = [db EXCEPT ![e] = "none"]
        /\ mirror' = mirror /\ db[e] # "none" /\ harness = "opencode"
    BY <1>5 DEF MoveRow
  <2>2. sessionMessages[e] = "none" /\ db[e] \in CellKinds
    BY <2>1 DEF StoreInv
  <2>3. \A f \in Entries : Trusted(f)' = Trusted(f)
    BY <2>1 DEF Trusted, StoreInv
  <2>4. Keeps
    BY <2>1, <2>2, <2>3 DEF Keeps, StoreInv, Final
  <2>5. StoreInv'
    <3>1. db' \in Store /\ sessionMessages' \in Store /\ mirror' \in Store
      BY <2>1, <2>2 DEF StoreInv, CellKinds
    <3>2. \A f \in Entries : db'[f] # "none" => sessionMessages'[f] = "none"
      BY <2>1 DEF StoreInv
    <3>4. \A f \in Entries : mirror'[f] \in Final => Trusted(f)' # "zero"
      BY <2>1, <2>3 DEF StoreInv
    <3> QED BY <1>0, <2>1, <2>3, <3>1, <3>2, <3>4 DEF StoreInv
  <2> QED BY <2>4, <2>5
<1>6. ASSUME NEW e \in Entries, Finish(e)
      PROVE  StoreInv' /\ Keeps
  <2>1. CASE /\ db[e] = "zero" /\ db' = [db EXCEPT ![e] = "good"]
             /\ UNCHANGED <<sessionMessages, mirror>>
    <3>1. /\ Trusted(e)' = "good" /\ Trusted(e) = "zero"
          /\ \A f \in Entries : f # e => Trusted(f)' = Trusted(f)
      BY <2>1 DEF Trusted, StoreInv
    <3>2. Keeps
      BY <2>1, <3>1 DEF Keeps, StoreInv, Final
    <3>3. db' \in Store /\ sessionMessages' \in Store /\ mirror' \in Store
      BY <2>1 DEF StoreInv, CellKinds
    <3>4. StoreInv'
      BY <1>0, <2>1, <3>1, <3>3 DEF StoreInv
    <3> QED BY <3>2, <3>4
  <2>2. CASE /\ sessionMessages[e] = "zero"
             /\ sessionMessages' = [sessionMessages EXCEPT ![e] = "good"]
             /\ UNCHANGED <<db, mirror>>
    <3>1. /\ Trusted(e)' = "good" /\ Trusted(e) = "zero"
          /\ \A f \in Entries : f # e => Trusted(f)' = Trusted(f)
      BY <2>2 DEF Trusted, StoreInv
    <3>2. Keeps
      BY <2>2, <3>1 DEF Keeps, StoreInv, Final
    <3>3. db' \in Store /\ sessionMessages' \in Store /\ mirror' \in Store
      BY <2>2 DEF StoreInv, CellKinds
    <3>4. StoreInv'
      BY <1>0, <2>2, <3>1, <3>3 DEF StoreInv
    <3> QED BY <3>2, <3>4
  <2>3. CASE /\ mirror[e] = "zero" /\ Trusted(e) # "zero"
             /\ mirror' = [mirror EXCEPT ![e] = "good"]
             /\ UNCHANGED <<db, sessionMessages>>
    <3>1. \A f \in Entries : Trusted(f)' = Trusted(f)
      BY <2>3 DEF Trusted
    <3>2. Keeps
      BY <2>3, <3>1 DEF Keeps, StoreInv, Final
    <3>3. db' \in Store /\ sessionMessages' \in Store /\ mirror' \in Store
      BY <2>3 DEF StoreInv, CellKinds
    <3>4. StoreInv'
      BY <1>0, <2>3, <3>1, <3>3 DEF StoreInv
    <3> QED BY <3>2, <3>4
  <2> QED BY <1>6, <2>1, <2>2, <2>3 DEF Finish
<1>7. ASSUME NEW s \in Sessions, NEW t \in Titles, Rename(s, t)
      PROVE  StoreInv' /\ Keeps
  BY <1>7 DEF Rename, StoreInv, Keeps, Trusted
<1>8. ASSUME NEW s \in Sessions, Signal(s)
      PROVE  StoreInv' /\ Keeps
  BY <1>8 DEF Signal, StoreInv, Keeps, Trusted
<1> QED BY <1>1, <1>2, <1>3, <1>4, <1>5, <1>6, <1>7, <1>8 DEF Harness

\* The reader leaves the stores as they are.
LEMMA StoreIdle ==
    ASSUME StoreInv, UNCHANGED <<harness, stores>>
    PROVE  /\ StoreInv'
           /\ \A e : Compacted(e)' <=> Compacted(e)
BY DEF StoreInv, Store, Trusted, stores, Compacted, Fallen, Told, Chunks, Written, Holding

\* A call told before a compaction of its turn stays so, for nothing is written
\* before what is there.
LEMMA CompactedStays ==
    ASSUME PhaseInv, StoreInv, Harness, NEW e, Compacted(e)
    PROVE  Compacted(e)'
<1>1. Keeps /\ harness' = harness /\ harness = "grok"
  BY StoreHarness, HarnessLeavesReader DEF Compacted
<1>2. ASSUME NEW p \in Entries, NEW g \in Entries, Precedes(p, g), mirror[g] # "none", mirror[p] = "none"
      PROVE  mirror'[p] = "none"
  <2> DEFINE Added(x) == \E c : mirror' = [mirror EXCEPT ![x] = c]
  <2>1. ASSUME NEW x \in Entries, Appends(x), Added(x)
        PROVE  mirror'[p] = "none"
    BY <1>2, <2>1 DEF Appends
  <2>2. ASSUME NEW x \in Entries, WriteMirror(x) \/ CopyToMirror(x)
        PROVE  mirror'[p] = "none"
    BY <1>1, <2>1, <2>2 DEF WriteMirror, CopyToMirror
  <2>3. ASSUME NEW x \in Entries, Finish(x)
        PROVE  mirror'[p] = "none"
    BY <1>2, <2>3 DEF Finish, StoreInv, Store
  <2>4. ASSUME NEW x \in Entries, WriteDb(x) \/ Migrate(x) \/ MoveRow(x)
        PROVE  mirror'[p] = "none"
    BY <1>2, <2>4 DEF WriteDb, Migrate, MoveRow
  <2>5. ASSUME NEW x, NEW t, Rename(x, t) \/ Signal(x)
        PROVE  mirror'[p] = "none"
    BY <1>2, <2>5 DEF Rename, Signal
  <2> QED BY <2>2, <2>3, <2>4, <2>5 DEF Harness
<1>3. PICK g \in Fallen(mirror) :
        Precedes(e, g) /\ \A p \in Chunks(mirror) : ~(Precedes(e, p) /\ Precedes(p, g))
  BY DEF Compacted
<1>4. PICK f \in Told(mirror) : Precedes(f, g)
  BY <1>3 DEF Fallen
<1>5. g \in Calls /\ f \in Calls /\ g \in Entries /\ f \in Entries
      /\ mirror[g] = "fell" /\ mirror[f] \in {"good", "total", "fell"}
  BY <1>3, <1>4, EntryOf DEF Fallen, Told, Holding
<1>6. mirror'[g] = "fell" /\ mirror'[f] = mirror[f]
  BY <1>1, <1>5 DEF Keeps, Final
<1>7. g \in Fallen(mirror')
  BY <1>4, <1>5, <1>6 DEF Fallen, Told, Holding
<1>8. ASSUME NEW p \in Chunks(mirror'), Precedes(e, p), Precedes(p, g)
      PROVE  FALSE
  <2>1. p \in Prompts /\ p \in Entries /\ mirror'[p] # "none"
    BY <1>8 DEF Chunks, Prompts, Written
  <2>2. mirror[p] # "none"
    BY <1>2, <1>5, <1>8, <2>1
  <2> QED BY <1>3, <1>8, <2>1, <2>2 DEF Chunks, Written
<1> QED BY <1>1, <1>3, <1>7, <1>8 DEF Compacted
-----------------------------------------------------------------------------
(***************************************************************************)
(* What the readers make of the first store: an event a call, or, for      *)
(* Hermes, a session.  M is what OpenCode's second table gave.             *)
(***************************************************************************)
InSession(calls, s) == {e \in calls : e[1] = s}

FirstRows(M) ==
    CASE harness = "opencode" -> (Parsed(messages) \cup Parsed(M)) \cap Calls
      [] harness = "reasonix" -> Holding(db, {"zero", "good"})
      [] harness = "hermes" ->
            {s \in Sessions : /\ InSession(Holding(db, {"zero", "good"}), s) # {}
                              /\ ~Undated(mirror, s)}
      [] harness = "jcode" -> {e \in Holding(db, {"good"}) : Snapshot(messages, e[1])}
      [] OTHER -> Holding(db, {"good"})

FirstSess(r) == CASE harness = "hermes" -> r
                  [] harness = "reasonix" -> File(r[1])
                  [] OTHER -> r[1]

FirstCalls(r) ==
    IF harness = "hermes" THEN InSession(Holding(db, {"zero", "good"}), r) ELSE {r}

FirstFull(M, r) ==
    CASE harness = "opencode" ->
            (IF r \in Parsed(messages) THEN messages[r] ELSE M[r]) = "good"
      [] harness = "reasonix" -> db[r] = "good"
      [] harness = "hermes" -> InSession(Holding(db, {"good"}), r) # {}
      [] OTHER -> TRUE

\* ZCode's turn starts with its earliest row, Grok's with its first call.
Earliest(rows, e) ==
    /\ Prompted(e) # {}
    /\ \A f \in rows : /\ SameSession(e, f) /\ Prompted(f) # {}
                       /\ PromptOf(f) = PromptOf(e)
                       => (IF quirk THEN 0 ELSE e[2]) <= (IF quirk THEN 0 ELSE f[2])
FirstOf(e) == \A f \in Calls : Precedes(f, e) => PromptOf(f) # PromptOf(e)

FirstTurn(M, r) ==
    CASE harness = "opencode" -> AfterPrompt(Parsed(messages) \cup Parsed(M), r)
      [] harness = "zcode" -> Earliest(Holding(db, {"good"}), r)
      [] harness = "grok" -> (~quirk => FirstOf(r))
      [] harness \in {"cline", "copilot", "hermes"} -> FALSE
      [] OTHER -> TRUE

FirstEvent(M, r) == Event("db", FirstSess(r), FirstCalls(r), FirstFull(M, r), FirstTurn(M, r))

LEMMA FirstForm ==
    ASSUME harness \in Harnesses, NEW M
    PROVE  DbReading(M).events = {FirstEvent(M, r) : r \in FirstRows(M)}
<1>1. CASE harness = "opencode"
  <2> DEFINE rows == (Parsed(messages) \cup Parsed(M)) \cap Calls
             E(r) == Event("db", r[1], {r}, (IF r \in Parsed(messages) THEN messages[r] ELSE M[r]) = "good",
                       AfterPrompt(Parsed(messages) \cup Parsed(M), r))
  <2>1. DbReading(M).events = {E(r) : r \in rows}
    BY <1>1 DEF DbReading, OpencodeDb, Reading
  <2>2. FirstRows(M) = rows
    BY <1>1 DEF FirstRows
  <2>3. \A r \in rows : E(r) = FirstEvent(M, r)
    BY <1>1 DEF FirstEvent, FirstSess, FirstCalls, FirstFull, FirstTurn
  <2> HIDE DEF rows, E
  <2> QED BY <2>1, <2>2, <2>3
<1>2. CASE harness = "zcode"
  <2> DEFINE rows == Holding(db, {"good"})
             E(r) == Event("db", r[1], {r}, TRUE, Earliest(Holding(db, {"good"}), r))
  <2>1. DbReading(M).events = {E(r) : r \in rows}
    BY <1>2 DEF DbReading, ZcodeDb, Reading, EachCall, Earliest
  <2>2. FirstRows(M) = rows
    BY <1>2 DEF FirstRows
  <2>3. \A r \in rows : E(r) = FirstEvent(M, r)
    BY <1>2 DEF FirstEvent, FirstSess, FirstCalls, FirstFull, FirstTurn
  <2> HIDE DEF rows, E
  <2> QED BY <2>1, <2>2, <2>3
<1>3. CASE harness \in {"cline", "copilot"}
  <2> DEFINE rows == Holding(db, {"good"})
             E(r) == Event("db", r[1], {r}, TRUE, FALSE)
  <2>1. DbReading(M).events = {E(r) : r \in rows}
    BY <1>3 DEF DbReading, ClineExt, CopilotState, Reading, EachCall
  <2>2. FirstRows(M) = rows
    BY <1>3 DEF FirstRows
  <2>3. \A r \in rows : E(r) = FirstEvent(M, r)
    BY <1>3 DEF FirstEvent, FirstSess, FirstCalls, FirstFull, FirstTurn
  <2> HIDE DEF rows, E
  <2> QED BY <2>1, <2>2, <2>3
<1>4. CASE harness \in {"devin", "deepseek"}
  <2> DEFINE rows == Holding(db, {"good"})
             E(r) == Event("db", r[1], {r}, TRUE, TRUE)
  <2>1. DbReading(M).events = {E(r) : r \in rows}
    BY <1>4 DEF DbReading, DevinCli, DeepseekLog, Reading, EachCall
  <2>2. FirstRows(M) = rows
    BY <1>4 DEF FirstRows
  <2>3. \A r \in rows : E(r) = FirstEvent(M, r)
    BY <1>4 DEF FirstEvent, FirstSess, FirstCalls, FirstFull, FirstTurn
  <2> HIDE DEF rows, E
  <2> QED BY <2>1, <2>2, <2>3
<1>5. CASE harness = "jcode"
  <2> DEFINE rows == {e \in Holding(db, {"good"}) : Snapshot(messages, e[1])}
             E(r) == Event("db", r[1], {r}, TRUE, TRUE)
  <2>1. DbReading(M).events = {E(r) : r \in rows}
    BY <1>5 DEF DbReading, JcodeJournal, Reading, EachCall
  <2>2. FirstRows(M) = rows
    BY <1>5 DEF FirstRows
  <2>3. \A r \in rows : E(r) = FirstEvent(M, r)
    BY <1>5 DEF FirstEvent, FirstSess, FirstCalls, FirstFull, FirstTurn
  <2> HIDE DEF rows, E
  <2> QED BY <2>1, <2>2, <2>3
<1>6. CASE harness = "grok"
  <2> DEFINE rows == Holding(db, {"good"})
             E(r) == Event("db", r[1], {r}, TRUE, ~quirk => FirstOf(r))
  <2>1. DbReading(M).events = {E(r) : r \in rows}
    BY <1>6 DEF DbReading, GrokUnified, Reading, EachCall, FirstOf
  <2>2. FirstRows(M) = rows
    BY <1>6 DEF FirstRows
  <2>3. \A r \in rows : E(r) = FirstEvent(M, r)
    BY <1>6 DEF FirstEvent, FirstSess, FirstCalls, FirstFull, FirstTurn
  <2> HIDE DEF rows, E
  <2> QED BY <2>1, <2>2, <2>3
<1>7. CASE harness = "reasonix"
  <2> DEFINE rows == Holding(db, {"zero", "good"})
             E(r) == Event("db", File(r[1]), {r}, db[r] = "good", TRUE)
  <2>1. DbReading(M).events = {E(r) : r \in rows}
    BY <1>7 DEF DbReading, ReasonixStats, Reading
  <2>2. FirstRows(M) = rows
    BY <1>7 DEF FirstRows
  <2>3. \A r \in rows : E(r) = FirstEvent(M, r)
    BY <1>7 DEF FirstEvent, FirstSess, FirstCalls, FirstFull, FirstTurn
  <2> HIDE DEF rows, E
  <2> QED BY <2>1, <2>2, <2>3
<1>8. CASE harness = "hermes"
  <2> DEFINE rows == {s \in Sessions : /\ InSession(Holding(db, {"zero", "good"}), s) # {}
                                   /\ ~Undated(mirror, s)}
             E(r) == Event("db", r, InSession(Holding(db, {"zero", "good"}), r),
                       InSession(Holding(db, {"good"}), r) # {}, FALSE)
  <2>1. DbReading(M).events = {E(r) : r \in rows}
    BY <1>8 DEF DbReading, HermesModels, Reading, InSession
  <2>2. FirstRows(M) = rows
    BY <1>8 DEF FirstRows
  <2>3. \A r \in rows : E(r) = FirstEvent(M, r)
    BY <1>8 DEF FirstEvent, FirstSess, FirstCalls, FirstFull, FirstTurn
  <2> HIDE DEF rows, E
  <2> QED BY <2>1, <2>2, <2>3
<1> QED BY Ten, <1>1, <1>2, <1>3, <1>4, <1>5, <1>6, <1>7, <1>8
-----------------------------------------------------------------------------
(***************************************************************************)
(* What they make of the second: an event a call, or, for the sidecars of  *)
(* Reasonix, the totals of Hermes and Devin's running totals, a session.   *)
(* Grok's legacy events count what they count, and are their own rows.     *)
(***************************************************************************)
Legacy ==
    UsageEvents(mirror) \cup FallbackEvents(mirror)
        \cup SignalsEvents(mirror, signals, UsageEvents(mirror) \cup FallbackEvents(mirror))

SecondRows(files) ==
    CASE harness = "opencode" -> (Parsed(mirror) \cap Calls) \ covered
      [] harness \in {"zcode", "cline"} ->
            {e \in Holding(mirror, {"good"}) : e[1] \notin covered}
      [] harness = "grok" -> {ev \in Legacy : ev.sess \notin covered}
      [] harness = "devin" ->
            IF quirk THEN {e \in Holding(mirror, {"good"}) : files[e[1]] \notin covered}
            ELSE {s \in Sessions : /\ InSession(Holding(mirror, {"good"}), s) # {}
                                   /\ files[s] \notin covered}
      [] harness = "copilot" ->
            {e \in Holding(mirror, {"good"}) : e[1] \notin covered}
                \cup {e \in Holding(mirror, {"anon"}) : covered = {}}
      [] harness = "deepseek" ->
            Holding(mirror, {"good"}) \ (IF ~quirk THEN covered ELSE {})
      [] harness = "reasonix" ->
            {s \in Sessions : /\ covered = {}
                              /\ InSession(Holding(mirror, {"bad"}), s) = {}
                              /\ InSession(Holding(mirror, {"good"}), s) # {}}
      [] harness = "hermes" ->
            {s \in Sessions \ covered : /\ InSession(Holding(mirror, {"good"}), s) # {}
                                        /\ ~Undated(mirror, s)}
      [] harness = "jcode" ->
            {e \in Holding(messages, {"good"}) :
                Snapshot(messages, e[1]) /\ e[1] \notin covered}
      [] OTHER -> {}

SecondSess(files, r) ==
    CASE harness = "devin" -> files[IF quirk THEN r[1] ELSE r]
      [] harness = "copilot" -> IF mirror[r] = "anon" THEN File(r[1]) ELSE r[1]
      [] harness \in {"reasonix", "hermes"} -> r
      [] harness = "grok" -> r.sess
      [] OTHER -> r[1]

SecondCalls(r) ==
    CASE harness = "devin" /\ ~quirk -> InSession(Holding(mirror, {"good", "bad"}), r)
      [] harness \in {"reasonix", "hermes"} -> InSession(Holding(mirror, {"good"}), r)
      [] harness = "grok" -> r.calls
      [] OTHER -> {r}

SecondFull(r) ==
    CASE harness = "opencode" -> mirror[r] = "good"
      [] harness = "grok" -> r.full
      [] OTHER -> TRUE

SecondTurn(r) ==
    CASE harness = "opencode" -> AfterPrompt(Parsed(mirror), r)
      [] harness \in {"zcode", "cline"} ->
            Pending(mirror, {e \in Holding(mirror, {"good"}) : e[1] \notin covered}, r)
      [] harness = "grok" -> r.turn
      [] harness = "devin" -> IF quirk THEN TRUE ELSE FALSE
      [] harness \in {"copilot", "hermes"} -> FALSE
      [] OTHER -> TRUE

SecondEvent(files, r) ==
    Event("mirror", SecondSess(files, r), SecondCalls(r), SecondFull(r), SecondTurn(r))

LEMMA UsageShape ==
    ASSUME NEW r \in UsageEvents(mirror)
    PROVE  \E e \in UsageTold(mirror) :
              r = Event("mirror", e[1], Since(mirror, e), TRUE, Marked(mirror, e) /\ Fresh(mirror, e))
BY DEF UsageEvents

LEMMA FallbackShape ==
    ASSUME NEW r \in FallbackEvents(mirror)
    PROVE  \E e \in Told(mirror) :
              /\ Closing(mirror, e) /\ Unused(mirror, e)
              /\ r = Event("mirror", e[1], Risen(mirror, e), TRUE, Marked(mirror, e))
BY DEF FallbackEvents

TurnCounted == UsageEvents(mirror) \cup FallbackEvents(mirror)

SignalsEvent(s) ==
    Event("mirror", s, Missing(signals, TurnCounted, s),
          Cardinality(Missing(signals, TurnCounted, s)) = Extra(signals, TurnCounted, s), FALSE)

LEMMA SignalsShape ==
    ASSUME NEW r \in SignalsEvents(mirror, signals, TurnCounted)
    PROVE  /\ r = SignalsEvent(r.sess)
           /\ r.calls = Missing(signals, TurnCounted, r.sess)
           /\ r.turn = FALSE
<1>1. \E s : r = SignalsEvent(s)
  BY DEF SignalsEvents, SignalsEvent
<1>2. \A s : /\ SignalsEvent(s).sess = s /\ SignalsEvent(s).turn = FALSE
             /\ SignalsEvent(s).calls = Missing(signals, TurnCounted, s)
  BY DEF SignalsEvent, Event
<1> QED BY <1>1, <1>2

LEMMA LegacyShape ==
    \A r \in Legacy : r = Event("mirror", r.sess, r.calls, r.full, r.turn)
<1>2. ASSUME NEW r \in UsageEvents(mirror)
      PROVE  r = Event("mirror", r.sess, r.calls, r.full, r.turn)
  <2>1. PICK e \in UsageTold(mirror) :
            r = Event("mirror", e[1], Since(mirror, e), TRUE, Marked(mirror, e) /\ Fresh(mirror, e))
    BY UsageShape
  <2> QED BY <2>1 DEF Event
<1>3. ASSUME NEW r \in FallbackEvents(mirror)
      PROVE  r = Event("mirror", r.sess, r.calls, r.full, r.turn)
  <2>1. PICK e \in Told(mirror) :
            r = Event("mirror", e[1], Risen(mirror, e), TRUE, Marked(mirror, e))
    BY FallbackShape
  <2> QED BY <2>1 DEF Event
<1>4. ASSUME NEW r \in SignalsEvents(mirror, signals, TurnCounted)
      PROVE  r = Event("mirror", r.sess, r.calls, r.full, r.turn)
  <2>1. r = SignalsEvent(r.sess)
    BY SignalsShape
  <2>2. \A s : LET v == SignalsEvent(s)
              IN  v = Event("mirror", v.sess, v.calls, v.full, v.turn)
    BY DEF SignalsEvent, Event
  <2> QED BY <2>1, <2>2
<1> QED BY <1>2, <1>3, <1>4 DEF Legacy, TurnCounted

LEMMA LegacyCalls ==
    ASSUME signals \subseteq Calls, NEW r \in Legacy, NEW c \in r.calls
    PROVE  c \in Calls /\ c[1] = r.sess
<1>1. CASE r \in UsageEvents(mirror)
  BY <1>1, UsageShape DEF Event, Since, UpTo, Precedes, SameSession
<1>2. CASE r \in FallbackEvents(mirror)
  BY <1>2, FallbackShape DEF Event, Risen, UpTo, Precedes, SameSession
<1>3. CASE r \in SignalsEvents(mirror, signals, TurnCounted)
  BY <1>3, SignalsShape DEF Missing, Signalled
<1> QED BY <1>1, <1>2, <1>3 DEF Legacy, TurnCounted

LEMMA SecondForm ==
    ASSUME harness \in Harnesses, NEW F
    PROVE  MirrorReading(F).events = {SecondEvent(F, r) : r \in SecondRows(F)}
<1>1. CASE harness = "opencode"
  <2> DEFINE rows == (Parsed(mirror) \cap Calls) \ covered
             E(r) == Event("mirror", r[1], {r}, mirror[r] = "good", AfterPrompt(Parsed(mirror), r))
  <2>1. MirrorReading(F).events = {E(r) : r \in rows}
    BY <1>1 DEF MirrorReading, OpencodeJson, Reading
  <2>2. SecondRows(F) = rows
    BY <1>1 DEF SecondRows
  <2>3. \A r \in rows : E(r) = SecondEvent(F, r)
    BY <1>1 DEF SecondEvent, SecondSess, SecondCalls, SecondFull, SecondTurn
  <2> HIDE DEF rows, E
  <2> QED BY <2>1, <2>2, <2>3
<1>2. CASE harness \in {"zcode", "cline"}
  <2> DEFINE rows == {e \in Holding(mirror, {"good"}) : e[1] \notin covered}
             E(r) == Event("mirror", r[1], {r}, TRUE,
                       Pending(mirror, {e \in Holding(mirror, {"good"}) : e[1] \notin covered}, r))
  <2>1. MirrorReading(F).events = {E(r) : r \in rows}
    BY <1>2 DEF MirrorReading, ZcodeJsonl, ClineCli, Reading, EachCall
  <2>2. SecondRows(F) = rows
    BY <1>2 DEF SecondRows
  <2>3. \A r \in rows : E(r) = SecondEvent(F, r)
    BY <1>2 DEF SecondEvent, SecondSess, SecondCalls, SecondFull, SecondTurn
  <2> HIDE DEF rows, E
  <2> QED BY <2>1, <2>2, <2>3
<1>3. CASE harness = "grok"
  <2>1. MirrorReading(F).events = SecondRows(F)
    BY <1>3 DEF MirrorReading, GrokLegacy, Reading, SecondRows, Legacy
  <2>2. \A r \in Legacy : r = Event("mirror", r.sess, r.calls, r.full, r.turn)
    BY LegacyShape
  <2>3. \A r \in SecondRows(F) : r = SecondEvent(F, r)
    BY <1>3, <2>2 DEF SecondRows, SecondEvent, SecondSess, SecondCalls, SecondFull, SecondTurn
  <2> QED BY <2>1, <2>3
<1>4. CASE harness = "devin" /\ quirk
  <2> DEFINE rows == {e \in Holding(mirror, {"good"}) : F[e[1]] \notin covered}
             E(r) == Event("mirror", F[r[1]], {r}, TRUE, TRUE)
  <2>1. MirrorReading(F).events = {E(r) : r \in rows}
    <3> DEFINE Lines(s) == {Event("mirror", F[s], {e}, TRUE, TRUE) :
                              e \in InSession(Holding(mirror, {"good"}), s)}
               Totals(s) ==
                  IF InSession(Holding(mirror, {"good"}), s) = {} THEN {}
                  ELSE {Event("mirror", F[s], InSession(Holding(mirror, {"good", "bad"}), s), TRUE, FALSE)}
               Of(s) == IF quirk THEN Lines(s) ELSE Totals(s)
    <3>1. MirrorReading(F).events =
            {ev \in UNION {Of(s) : s \in Sessions} : ev.sess \notin covered}
      BY <1>4 DEF MirrorReading, DevinDesktop, Reading, InSession
    <3>2. \A r \in Holding(mirror, {"good"}) : r[1] \in Sessions
      BY CallOf, EntryOf DEF Holding
    <3>3. \A s : Of(s) = Lines(s)
      BY <1>4
    <3>4. \A s, ev : ev \in Lines(s)
                <=> \E r \in Holding(mirror, {"good"}) :
                        r[1] = s /\ ev = Event("mirror", F[s], {r}, TRUE, TRUE)
      BY DEF InSession
    <3>5. \A r : Event("mirror", F[r[1]], {r}, TRUE, TRUE).sess = F[r[1]]
      BY DEF Event
    <3>6. \A ev : ev \in MirrorReading(F).events <=> \E r \in rows : ev = E(r)
      <4> HIDE DEF Lines, Of
      <4>1. ASSUME NEW ev \in MirrorReading(F).events
            PROVE  \E r \in rows : ev = E(r)
        <5>1. PICK s \in Sessions : ev \in Lines(s)
          BY <3>1, <3>3
        <5>2. PICK r \in Holding(mirror, {"good"}) :
                  r[1] = s /\ ev = Event("mirror", F[s], {r}, TRUE, TRUE)
          BY <3>4, <5>1
        <5> QED BY <3>1, <3>5, <5>2
      <4>2. ASSUME NEW r \in rows
            PROVE  E(r) \in MirrorReading(F).events
        <5>1. r[1] \in Sessions /\ E(r) \in Of(r[1])
          BY <3>2, <3>3, <3>4
        <5>2. E(r).sess \notin covered
          BY <3>5
        <5> QED BY <3>1, <5>1, <5>2
      <4> QED BY <4>1, <4>2
    <3> HIDE DEF Lines, Of, E, rows
    <3> QED BY <3>6
  <2>2. SecondRows(F) = rows
    BY <1>4 DEF SecondRows
  <2>3. \A r \in rows : E(r) = SecondEvent(F, r)
    BY <1>4 DEF SecondEvent, SecondSess, SecondCalls, SecondFull, SecondTurn
  <2> HIDE DEF rows, E
  <2> QED BY <2>1, <2>2, <2>3
<1>5. CASE harness = "devin" /\ ~quirk
  <2> DEFINE rows == {s \in Sessions : /\ InSession(Holding(mirror, {"good"}), s) # {}
                                   /\ F[s] \notin covered}
             E(r) == Event("mirror", F[r], InSession(Holding(mirror, {"good", "bad"}), r), TRUE, FALSE)
  <2>1. MirrorReading(F).events = {E(r) : r \in rows}
    BY <1>5 DEF MirrorReading, DevinDesktop, Reading, Event, InSession
  <2>2. SecondRows(F) = rows
    BY <1>5 DEF SecondRows
  <2>3. \A r \in rows : E(r) = SecondEvent(F, r)
    BY <1>5 DEF SecondEvent, SecondSess, SecondCalls, SecondFull, SecondTurn
  <2> HIDE DEF rows, E
  <2> QED BY <2>1, <2>2, <2>3
<1>6. CASE harness = "copilot"
  <2> DEFINE rows == {e \in Holding(mirror, {"good"}) : e[1] \notin covered}
                        \cup {e \in Holding(mirror, {"anon"}) : covered = {}}
             E(r) == Event("mirror", IF mirror[r] = "anon" THEN File(r[1]) ELSE r[1], {r}, TRUE, FALSE)
  <2>1. MirrorReading(F).events = {E(r) : r \in rows}
    BY <1>6 DEF MirrorReading, CopilotOtel, Reading, EachCall, Event, Holding
  <2>2. SecondRows(F) = rows
    BY <1>6 DEF SecondRows
  <2>3. \A r \in rows : E(r) = SecondEvent(F, r)
    BY <1>6 DEF SecondEvent, SecondSess, SecondCalls, SecondFull, SecondTurn
  <2> HIDE DEF rows, E
  <2> QED BY <2>1, <2>2, <2>3
<1>7. CASE harness = "deepseek"
  <2> DEFINE rows == Holding(mirror, {"good"}) \ (IF ~quirk THEN covered ELSE {})
             E(r) == Event("mirror", r[1], {r}, TRUE, TRUE)
  <2>1. MirrorReading(F).events = {E(r) : r \in rows}
    BY <1>7 DEF MirrorReading, DeepseekDb, Reading, EachCall
  <2>2. SecondRows(F) = rows
    BY <1>7 DEF SecondRows
  <2>3. \A r \in rows : E(r) = SecondEvent(F, r)
    BY <1>7 DEF SecondEvent, SecondSess, SecondCalls, SecondFull, SecondTurn
  <2> HIDE DEF rows, E
  <2> QED BY <2>1, <2>2, <2>3
<1>8. CASE harness = "reasonix"
  <2> DEFINE rows == {s \in Sessions : /\ covered = {}
                                   /\ InSession(Holding(mirror, {"bad"}), s) = {}
                                   /\ InSession(Holding(mirror, {"good"}), s) # {}}
             E(r) == Event("mirror", r, InSession(Holding(mirror, {"good"}), r), TRUE, TRUE)
  <2>1. MirrorReading(F).events = {E(r) : r \in rows}
    BY <1>8 DEF MirrorReading, ReasonixSidecars, Reading, InSession
  <2>2. SecondRows(F) = rows
    BY <1>8 DEF SecondRows
  <2>3. \A r \in rows : E(r) = SecondEvent(F, r)
    BY <1>8 DEF SecondEvent, SecondSess, SecondCalls, SecondFull, SecondTurn
  <2> HIDE DEF rows, E
  <2> QED BY <2>1, <2>2, <2>3
<1>9. CASE harness = "hermes"
  <2> DEFINE rows == {s \in Sessions \ covered : /\ InSession(Holding(mirror, {"good"}), s) # {}
                                             /\ ~Undated(mirror, s)}
             E(r) == Event("mirror", r, InSession(Holding(mirror, {"good"}), r), TRUE, FALSE)
  <2>1. MirrorReading(F).events = {E(r) : r \in rows}
    BY <1>9 DEF MirrorReading, HermesTotals, Reading, InSession
  <2>2. SecondRows(F) = rows
    BY <1>9 DEF SecondRows
  <2>3. \A r \in rows : E(r) = SecondEvent(F, r)
    BY <1>9 DEF SecondEvent, SecondSess, SecondCalls, SecondFull, SecondTurn
  <2> HIDE DEF rows, E
  <2> QED BY <2>1, <2>2, <2>3
<1>10. CASE harness = "jcode"
  <2> DEFINE rows == {e \in Holding(messages, {"good"}) :
                        Snapshot(messages, e[1]) /\ e[1] \notin covered}
             E(r) == Event("mirror", r[1], {r}, TRUE, TRUE)
  <2>1. MirrorReading(F).events = {E(r) : r \in rows}
    BY <1>10 DEF MirrorReading, JcodeSnapshot, Reading, EachCall
  <2>2. SecondRows(F) = rows
    BY <1>10 DEF SecondRows
  <2>3. \A r \in rows : E(r) = SecondEvent(F, r)
    BY <1>10 DEF SecondEvent, SecondSess, SecondCalls, SecondFull, SecondTurn
  <2> HIDE DEF rows, E
  <2> QED BY <2>1, <2>2, <2>3
<1> QED BY Ten, <1>1, <1>2, <1>3, <1>4, <1>5, <1>6, <1>7, <1>8, <1>9, <1>10
-----------------------------------------------------------------------------
(***************************************************************************)
(* No call in two events.  The first store's events leave what the second  *)
(* may count (Shields).                                                    *)
(***************************************************************************)
Shields(cover, e) ==
    CASE harness \in {"opencode", "deepseek"} -> e \in cover
      [] harness = "reasonix" -> cover # {}
      [] OTHER -> e[1] \in cover

LEMMA FirstDistinct ==
    ASSUME harness \in Harnesses, NEW M,
           NEW q \in FirstRows(M), NEW r \in FirstRows(M), NEW e \in FirstCalls(q) \cap FirstCalls(r)
    PROVE  q = r
BY DEF FirstCalls, InSession

LEMMA Places ==
    \A e \in Entries : /\ e[2] \in Nat /\ ~Precedes(e, e)
                       /\ \A f \in Entries : \/ Precedes(e, f) \/ Precedes(f, e)
                                             \/ e = f \/ ~SameSession(e, f)
<1>1. ASSUME NEW e \in Entries
      PROVE  e[2] \in Nat
  <2>1. Script[e[1]] \in Seq({"prompt", "call"}) /\ e[2] \in DOMAIN Script[e[1]]
    BY CallOf, StoresAssumption
  <2>2. e[2] \in 1..Len(Script[e[1]]) /\ Len(Script[e[1]]) \in Nat
    BY <2>1
  <2> QED BY <2>2
<1>2. ASSUME NEW e \in Entries, NEW f \in Entries, SameSession(e, f), e # f
      PROVE  Precedes(e, f) \/ Precedes(f, e)
  <2>1. e[2] # f[2]
    BY <1>2, CallOf DEF SameSession
  <2> QED BY <1>1, <1>2, <2>1 DEF Precedes, SameSession
<1>3. \A e \in Entries : ~Precedes(e, e)
  BY <1>1 DEF Precedes
<1> QED BY <1>1, <1>2, <1>3

\* Two of Grok's legacy events with a call in common: usage that is told after
\* a compaction, and what was flushed before it.
LEMMA Between ==
    ASSUME NEW e \in Entries, NEW f \in Entries, NEW g \in Entries
    PROVE  /\ Precedes(e, f) /\ Precedes(f, g) => Precedes(e, g)
           /\ UpTo(e, f) /\ Precedes(f, g) => Precedes(e, g)
           /\ Precedes(e, f) /\ UpTo(f, g) => Precedes(e, g)
           /\ ~(UpTo(e, f) /\ Precedes(f, e))
BY Places DEF UpTo, Precedes, SameSession

LEMMA ToldEntries ==
    /\ Told(mirror) \subseteq Calls /\ UsageTold(mirror) \subseteq Told(mirror)
    /\ Fallen(mirror) \subseteq Told(mirror) /\ Chunks(mirror) \subseteq Prompts
    /\ Told(mirror) \subseteq Entries /\ Chunks(mirror) \subseteq Entries
BY EntryOf DEF Told, UsageTold, Fallen, Chunks, Holding, Prompts

LEMMA SameTurnSelf ==
    ASSUME NEW e \in Told(mirror)
    PROVE  SameTurn(mirror, e, e)
<1>1. e \in Entries
  BY ToldEntries
<1>2. ASSUME NEW g \in Entries
      PROVE  ~(Precedes(e, g) /\ UpTo(g, e)) /\ ~(Precedes(e, g) /\ Precedes(g, e))
  BY <1>1, Between DEF UpTo
<1> QED BY <1>2, ToldEntries DEF SameTurn, UpTo

LEMMA UsageApart ==
    ASSUME NEW e \in UsageTold(mirror), NEW f \in UsageTold(mirror), Precedes(e, f),
           NEW c \in Since(mirror, e) \cap Since(mirror, f)
    PROVE  FALSE
<1>1. UpTo(c, e) /\ Precedes(e, c)
  BY DEF Since
<1> QED BY <1>1, Between, ToldEntries, EntryOf DEF Since

LEMMA FallbackApart ==
    ASSUME NEW e \in Told(mirror), NEW f \in Told(mirror), Precedes(e, f), Closing(mirror, e),
           NEW c \in Risen(mirror, e) \cap Risen(mirror, f)
    PROVE  FALSE
<1>1. ~SameTurn(mirror, e, f)
  <2>1. e # f
    BY ToldEntries, Places
  <2> QED BY <2>1 DEF Closing
<1>2. UpTo(c, e) /\ Precedes(e, c)
  BY <1>1 DEF Risen
<1> QED BY <1>2, Between, ToldEntries, EntryOf DEF Risen

LEMMA FlushedTwice ==
    ASSUME harness = "grok", NEW e \in UsageTold(mirror), NEW f \in Told(mirror),
           Closing(mirror, f), Unused(mirror, f),
           NEW c \in Since(mirror, e) \cap Risen(mirror, f)
    PROVE  Compacted(c)
<1>1. /\ e \in Entries /\ f \in Entries /\ c \in Entries
      /\ UpTo(c, e) /\ UpTo(c, f) /\ ~SameTurn(mirror, e, f)
  BY ToldEntries, EntryOf DEF Since, Risen, Unused
<1>2. e # f
  BY <1>1, SameTurnSelf
<1>3. SameSession(e, f)
  BY <1>1 DEF UpTo, Precedes, SameSession
<1>4. CASE Precedes(e, f)
  <2>1. Precedes(e, c)
    BY <1>1, <1>4, ToldEntries DEF Risen
  <2> QED BY <1>1, <2>1, Between
<1>5. CASE Precedes(f, e)
  <2>1. ~SameTurn(mirror, f, e)
    BY <1>2, ToldEntries DEF Closing
  <2>2. ASSUME NEW p \in Chunks(mirror), Precedes(p, e)
        PROVE  Precedes(p, c)
    BY <2>2 DEF Since
  <2>3. ASSUME NEW p \in Chunks(mirror), Precedes(f, p), Precedes(p, e)
        PROVE  FALSE
    BY <1>1, <2>2, <2>3, Between, ToldEntries
  <2>4. PICK g \in Fallen(mirror) : Precedes(f, g) /\ UpTo(g, e)
    BY <1>5, <2>1, <2>3 DEF SameTurn, UpTo
  <2>5. g \in Entries /\ Precedes(c, g)
    BY <1>1, <2>4, Between, ToldEntries
  <2>6. ASSUME NEW p \in Chunks(mirror), Precedes(c, p), Precedes(p, g)
        PROVE  FALSE
    <3>1. p \in Entries /\ Precedes(p, e)
      BY <1>1, <2>4, <2>5, <2>6, Between, ToldEntries
    <3> QED BY <1>1, <2>2, <2>6, <3>1, Between DEF UpTo
  <2> QED BY <2>4, <2>5, <2>6 DEF Compacted
<1> QED BY <1>1, <1>2, <1>3, <1>4, <1>5, Places

\* A session has one event of its signals.
LEMMA SignalsOfSession ==
    ASSUME NEW v \in SignalsEvents(mirror, signals, TurnCounted),
           NEW w \in SignalsEvents(mirror, signals, TurnCounted), v.sess = w.sess
    PROVE  v = w
BY SignalsShape

LEMMA LegacyDistinct ==
    ASSUME harness = "grok", NEW q \in Legacy, NEW r \in Legacy, signals \subseteq Calls,
           NEW c \in q.calls \cap r.calls
    PROVE  q = r \/ Compacted(c)
<1>1. ASSUME NEW v \in UsageEvents(mirror), NEW w \in UsageEvents(mirror), c \in v.calls \cap w.calls
      PROVE  v = w
  <2>1. PICK e \in UsageTold(mirror) :
            v = Event("mirror", e[1], Since(mirror, e), TRUE, Marked(mirror, e) /\ Fresh(mirror, e))
    BY UsageShape
  <2>2. PICK f \in UsageTold(mirror) :
            w = Event("mirror", f[1], Since(mirror, f), TRUE, Marked(mirror, f) /\ Fresh(mirror, f))
    BY UsageShape
  <2>3. c \in Since(mirror, e) \cap Since(mirror, f)
    BY <1>1, <2>1, <2>2 DEF Event
  <2>4. ~Precedes(e, f) /\ ~Precedes(f, e)
    BY <2>3, UsageApart
  <2>5. SameSession(e, f)
    BY <2>3 DEF Since, UpTo, Precedes, SameSession
  <2> QED BY <2>1, <2>2, <2>4, <2>5, Places, ToldEntries
<1>2. ASSUME NEW v \in FallbackEvents(mirror), NEW w \in FallbackEvents(mirror), c \in v.calls \cap w.calls
      PROVE  v = w
  <2>1. PICK e \in Told(mirror) :
            /\ Closing(mirror, e) /\ Unused(mirror, e)
            /\ v = Event("mirror", e[1], Risen(mirror, e), TRUE, Marked(mirror, e))
    BY FallbackShape
  <2>2. PICK f \in Told(mirror) :
            /\ Closing(mirror, f) /\ Unused(mirror, f)
            /\ w = Event("mirror", f[1], Risen(mirror, f), TRUE, Marked(mirror, f))
    BY FallbackShape
  <2>3. c \in Risen(mirror, e) \cap Risen(mirror, f)
    BY <1>2, <2>1, <2>2 DEF Event
  <2>4. ~Precedes(e, f) /\ ~Precedes(f, e)
    BY <2>1, <2>2, <2>3, FallbackApart
  <2>5. SameSession(e, f)
    BY <2>3 DEF Risen, UpTo, Precedes, SameSession
  <2> QED BY <2>1, <2>2, <2>4, <2>5, Places, ToldEntries
<1>3. ASSUME NEW v \in UsageEvents(mirror), NEW w \in FallbackEvents(mirror), c \in v.calls \cap w.calls
      PROVE  Compacted(c)
  <2>1. PICK e \in UsageTold(mirror) :
            v = Event("mirror", e[1], Since(mirror, e), TRUE, Marked(mirror, e) /\ Fresh(mirror, e))
    BY UsageShape
  <2>2. PICK f \in Told(mirror) :
            /\ Closing(mirror, f) /\ Unused(mirror, f)
            /\ w = Event("mirror", f[1], Risen(mirror, f), TRUE, Marked(mirror, f))
    BY FallbackShape
  <2>3. c \in Since(mirror, e) \cap Risen(mirror, f)
    BY <1>3, <2>1, <2>2 DEF Event
  <2> QED BY <2>2, <2>3, FlushedTwice
<1>4. ASSUME NEW v \in TurnCounted, NEW w \in SignalsEvents(mirror, signals, TurnCounted),
             c \in v.calls \cap w.calls
      PROVE  FALSE
  <2>1. c \notin UNION {ev.calls : ev \in {x \in TurnCounted : x.sess = w.sess}}
    BY <1>4, SignalsShape DEF Missing
  <2>2. v \in Legacy /\ w \in Legacy
    BY DEF Legacy, TurnCounted
  <2>3. v.sess = w.sess
    BY <1>4, <2>2, LegacyCalls
  <2> QED BY <1>4, <2>1, <2>3
<1>5. ASSUME NEW v \in SignalsEvents(mirror, signals, TurnCounted),
             NEW w \in SignalsEvents(mirror, signals, TurnCounted), c \in v.calls \cap w.calls
      PROVE  v = w
  <2>1. v.sess = w.sess
    BY <1>5, LegacyCalls DEF Legacy, TurnCounted
  <2> QED BY <2>1, SignalsOfSession
<1>6. \A v \in Legacy : v \in UsageEvents(mirror) \/ v \in FallbackEvents(mirror)
                         \/ v \in SignalsEvents(mirror, signals, TurnCounted)
  BY DEF Legacy, TurnCounted
<1>7. UsageEvents(mirror) \subseteq TurnCounted /\ FallbackEvents(mirror) \subseteq TurnCounted
  BY DEF TurnCounted
<1> QED BY <1>1, <1>2, <1>3, <1>4, <1>5, <1>6, <1>7

LEMMA SecondDistinct ==
    ASSUME harness \in Harnesses, signals \subseteq Calls, NEW F,
           NEW q \in SecondRows(F), NEW r \in SecondRows(F),
           NEW e \in SecondCalls(q) \cap SecondCalls(r)
    PROVE  q = r \/ Compacted(e)
<1>1. CASE harness = "grok"
  BY <1>1, LegacyDistinct DEF SecondRows, SecondCalls
<1>2. CASE harness # "grok"
  BY <1>2 DEF SecondCalls, InSession
<1> QED BY <1>1, <1>2

LEMMA FirstFields ==
    \A M, r :
           /\ FirstEvent(M, r).from = "db" /\ FirstEvent(M, r).calls = FirstCalls(r)
           /\ FirstEvent(M, r).sess = FirstSess(r) /\ FirstEvent(M, r).full = FirstFull(M, r)
           /\ FirstEvent(M, r).turn = FirstTurn(M, r)
BY DEF FirstEvent, Event

LEMMA SecondFields ==
    \A F, r : /\ SecondEvent(F, r).from = "mirror" /\ SecondEvent(F, r).calls = SecondCalls(r)
              /\ SecondEvent(F, r).sess = SecondSess(F, r)
              /\ SecondEvent(F, r).full = SecondFull(r) /\ SecondEvent(F, r).turn = SecondTurn(r)
BY DEF SecondEvent, Event

\* What the readings leave for the second store.
LEMMA CoversForm ==
    ASSUME harness \in Harnesses, NEW M
    PROVE  Covers(DbReading(M)) =
             CASE harness \in {"opencode", "deepseek"} -> FirstRows(M)
               [] harness = "reasonix" -> IF LedgerExists(db) THEN Sessions ELSE {}
               [] harness = "jcode" -> {e[1] : e \in Written(db)}
               [] OTHER -> {FirstSess(r) : r \in FirstRows(M)}
<1>1. CASE harness \in {"opencode", "deepseek"}
  <2>1. \A r : FirstEvent(M, r).calls = {r}
    BY <1>1, FirstFields DEF FirstCalls
  <2>2. DbReading(M).events = {FirstEvent(M, r) : r \in FirstRows(M)}
    BY FirstForm
  <2>3. UNION {ev.calls : ev \in DbReading(M).events} = FirstRows(M)
    BY <2>1, <2>2
  <2> QED BY <1>1, <2>3 DEF Covers
<1>2. CASE harness = "reasonix"
  BY <1>2 DEF Covers
<1>3. CASE harness = "jcode"
  BY <1>3 DEF Covers, DbReading, JcodeJournal, Reading
<1>4. CASE harness \notin {"opencode", "deepseek", "reasonix", "jcode"}
  <2>1. DbReading(M).covered = {ev.sess : ev \in DbReading(M).events}
    <3>1. CASE harness = "zcode"
      BY <3>1 DEF DbReading, ZcodeDb, Reading
    <3>2. CASE harness \in {"cline", "devin", "copilot"}
      BY <3>2 DEF DbReading, ClineExt, DevinCli, CopilotState, Reading
    <3>3. CASE harness = "grok"
      BY <3>3 DEF DbReading, GrokUnified, Reading
    <3>4. CASE harness = "hermes"
      BY <3>4 DEF DbReading, HermesModels, Reading
    <3> QED BY Ten, <1>4, <3>1, <3>2, <3>3, <3>4
  <2>2. {ev.sess : ev \in DbReading(M).events} = {FirstSess(r) : r \in FirstRows(M)}
    BY FirstForm, FirstFields
  <2>3. Covers(DbReading(M)) = DbReading(M).covered
    BY <1>4 DEF Covers
  <2> QED BY <1>4, <2>1, <2>2, <2>3
<1> QED BY <1>1, <1>2, <1>3, <1>4

LEMMA FirstShields ==
    ASSUME harness \in Harnesses, NEW M, NEW r \in FirstRows(M), NEW e \in FirstCalls(r)
    PROVE  Shields(Covers(DbReading(M)), e)
<1>1. CASE harness \in {"opencode", "deepseek"}
  BY <1>1, CoversForm DEF Shields, FirstCalls
<1>2. CASE harness = "reasonix"
  <2>1. e = r /\ r \in Holding(db, {"zero", "good"})
    BY <1>2 DEF FirstRows, FirstCalls
  <2>2. r \in Written(db) /\ r[1] \in Sessions
    BY <2>1, CallOf, EntryOf DEF Holding, Written
  <2> QED BY <1>2, <2>2, CoversForm DEF Shields, LedgerExists
<1>3. CASE harness = "jcode"
  <2>1. e = r /\ r \in Holding(db, {"good"})
    BY <1>3 DEF FirstRows, FirstCalls
  <2>2. r \in Written(db)
    BY <2>1, EntryOf DEF Holding, Written
  <2> QED BY <1>3, <2>1, <2>2, CoversForm DEF Shields
<1>4. CASE harness \notin {"opencode", "deepseek", "reasonix", "jcode"}
  <2>1. FirstSess(r) = e[1]
    BY <1>4 DEF FirstSess, FirstCalls, InSession
  <2> QED BY <1>4, <2>1, CoversForm DEF Shields
<1> QED BY <1>1, <1>2, <1>3, <1>4

LEMMA SecondUnshielded ==
    ASSUME harness \in Harnesses, signals \subseteq Calls, NEW F,
           NEW r \in SecondRows(F), NEW e \in SecondCalls(r),
           F[e[1]] = e[1], ~(harness = "deepseek" /\ quirk)
    PROVE  ~Shields(covered, e)
<1>1. CASE harness \in {"opencode", "deepseek"}
  BY <1>1 DEF Shields, SecondRows, SecondCalls
<1>2. CASE harness = "reasonix"
  BY <1>2 DEF Shields, SecondRows
<1>3. CASE harness = "devin"
  BY <1>3 DEF Shields, SecondRows, SecondCalls, InSession
<1>4. CASE harness \in {"zcode", "cline", "copilot", "jcode"}
  BY <1>4 DEF Shields, SecondRows, SecondCalls
<1>6. CASE harness = "grok"
  BY <1>6, LegacyCalls DEF Shields, SecondRows, SecondCalls
<1>5. CASE harness = "hermes"
  BY <1>5 DEF Shields, SecondRows, SecondCalls, InSession
<1> QED BY Ten, <1>1, <1>2, <1>3, <1>4, <1>5, <1>6

LEMMA AtMostOne ==
    ASSUME NEW S, \A v, w \in S : v = w
    PROVE  Cardinality(S) <= 1
<1>1. CASE S = {}
  BY <1>1, FS_EmptySet
<1>2. CASE S # {}
  <2>1. PICK v \in S : S = {v}
    BY <1>2
  <2> QED BY <2>1, FS_Singleton
<1> QED BY <1>1, <1>2

\* Two events with a call in common are one, but for the exceptions named.
Counted ==
    \A v, w \in events : \A e \in v.calls \cap w.calls :
        \/ v = w
        \/ ~NamedRight(e[1])
        \/ harness = "deepseek" /\ quirk
        \/ Compacted(e)

OneEach == \A v, w \in events : \A e \in v.calls \cap w.calls : v = w

CountInv ==
    /\ PhaseInv /\ StoreInv
    /\ signals \subseteq Calls
    /\ phase \in {"idle", "ahead", "half", "db"} => events = {}
    /\ phase = "mirror" => /\ OneEach
                           /\ \A v \in events : \A e \in v.calls : Shields(covered, e)
    /\ Counted

LEMMA CountInit == Init => CountInv
BY StoreInit DEF Init, CountInv, PhaseInv, Counted

LEMMA SignalsNext == signals \subseteq Calls /\ [Next]_vars => signals' \subseteq Calls
BY DEF Next, vars, stores, WriteMirror, WriteDb, CopyToMirror, Migrate, MoveRow, Finish, Writing, Rename,
       Signal, Begin, ReadAhead, ReadDb, ReadMirror, MissAhead, MissDb, MissMirror

LEMMA CountBegin == CountInv /\ Begin => CountInv'
BY StoreIdle DEF CountInv, PhaseInv, Counted, Begin, stores

\* Reading ahead, or failing to.
LEMMA CountAhead == CountInv /\ (ReadAhead \/ MissAhead) => CountInv'
<1> SUFFICES ASSUME CountInv, ReadAhead \/ MissAhead PROVE CountInv'
  OBVIOUS
<1>1. /\ harness' = harness /\ UNCHANGED <<harness, stores>> /\ phase = "ahead"
      /\ phase' \in {"db", "half"} /\ events' = events /\ signals' = signals
  BY DEF ReadAhead, MissAhead, stores
<1> QED BY <1>1, StoreIdle DEF CountInv, PhaseInv, Counted

LEMMA CountFirst ==
    ASSUME CountInv, NEW M, UNCHANGED <<harness, quirk, stores, resolved>>, phase' = "mirror",
           events' = DbReading(M).events, covered' = Covers(DbReading(M))
    PROVE  CountInv'
<1>1. harness \in Harnesses /\ harness' = harness /\ signals' = signals /\ StoreInv'
  BY StoreIdle DEF CountInv, PhaseInv, stores
<1>2. events' = {FirstEvent(M, r) : r \in FirstRows(M)}
  BY <1>1, FirstForm
<1>3. ASSUME NEW v \in events', NEW e \in v.calls
      PROVE  Shields(covered, e)'
  <2>1. PICK r \in FirstRows(M) : v = FirstEvent(M, r)
    BY <1>2
  <2>2. Shields(Covers(DbReading(M)), e)
    BY <1>1, <2>1, FirstFields, FirstShields
  <2> QED BY <1>1, <2>2 DEF Shields
<1>4. ASSUME NEW v \in events', NEW w \in events', NEW e \in v.calls \cap w.calls
      PROVE  v = w
  <2>1. PICK q \in FirstRows(M) : v = FirstEvent(M, q)
    BY <1>2
  <2>2. PICK r \in FirstRows(M) : w = FirstEvent(M, r)
    BY <1>2
  <2>3. e \in FirstCalls(q) \cap FirstCalls(r)
    BY <2>1, <2>2, FirstFields
  <2> QED BY <1>1, <2>1, <2>2, <2>3, FirstDistinct
<1> QED BY <1>1, <1>3, <1>4 DEF CountInv, PhaseInv, OneEach, Counted

LEMMA CountDb == CountInv /\ (ReadDb \/ MissDb) => CountInv'
<1> SUFFICES ASSUME CountInv, ReadDb \/ MissDb PROVE CountInv'
  OBVIOUS
<1>1. UNCHANGED <<harness, quirk, stores, resolved>> /\ phase' = "mirror"
  BY DEF ReadDb, MissDb
<1>2. CASE ReadDb
  BY <1>1, <1>2, CountFirst DEF ReadDb
<1>3. CASE MissDb /\ harness = "opencode"
  BY <1>1, <1>3, CountFirst DEF MissDb, DbMissed
<1>4. CASE MissDb /\ harness # "opencode"
  <2>1. events' = {}
    BY <1>4 DEF MissDb, DbMissed, Reading
  <2>2. StoreInv' /\ signals' = signals
    BY <1>1, StoreIdle DEF CountInv, stores
  <2> QED BY <1>1, <2>1, <2>2 DEF CountInv, PhaseInv, OneEach, Counted
<1> QED BY <1>2, <1>3, <1>4

LEMMA CountMirror == CountInv /\ ReadMirror => CountInv'
<1> SUFFICES ASSUME CountInv, ReadMirror PROVE CountInv'
  OBVIOUS
<1> DEFINE F == FilesAre
<1>1. harness \in Harnesses /\ phase = "mirror" /\ phase' = "done" /\ resolved' = F
      /\ harness' = harness /\ quirk' = quirk /\ signals' = signals /\ signals \subseteq Calls
      /\ StoreInv' /\ \A e : Compacted(e)' <=> Compacted(e)
  BY StoreIdle DEF CountInv, PhaseInv, ReadMirror, stores
<1>2. events' = events \cup {SecondEvent(F, r) : r \in SecondRows(F)}
  BY <1>1, SecondForm DEF ReadMirror
<1> HIDE DEF F
<1>3. ASSUME NEW v \in events, NEW r \in SecondRows(F),
             NEW e \in v.calls \cap SecondEvent(F, r).calls
      PROVE  F[e[1]] # e[1] \/ (harness = "deepseek" /\ quirk)
  <2>1. Shields(covered, e)
    BY <1>1 DEF CountInv
  <2>2. e \in SecondCalls(r)
    BY SecondFields
  <2> QED BY <1>1, <2>1, <2>2, SecondUnshielded
<1>4. ASSUME NEW q \in SecondRows(F), NEW r \in SecondRows(F),
             NEW e \in SecondEvent(F, q).calls \cap SecondEvent(F, r).calls
      PROVE  q = r \/ Compacted(e)
  BY <1>1, SecondFields, SecondDistinct
<1>5. OneEach
  BY <1>1 DEF CountInv
<1>6. ASSUME NEW v \in events', NEW w \in events', NEW e \in v.calls \cap w.calls, v # w
      PROVE  F[e[1]] # e[1] \/ (harness = "deepseek" /\ quirk) \/ Compacted(e)
  <2>1. CASE v \in events /\ w \in events
    BY <1>5, <1>6, <2>1 DEF OneEach
  <2>2. CASE v \in events /\ w \notin events
    BY <1>2, <1>3, <2>2
  <2>3. CASE v \notin events /\ w \in events
    BY <1>2, <1>3, <2>3
  <2>4. CASE v \notin events /\ w \notin events
    BY <1>2, <1>4, <1>6, <2>4
  <2> QED BY <2>1, <2>2, <2>3, <2>4
<1>7. Counted'
  BY <1>1, <1>6 DEF Counted, NamedRight
<1> QED BY <1>1, <1>7 DEF CountInv, PhaseInv

LEMMA CountMissMirror == CountInv /\ MissMirror => CountInv'
<1> SUFFICES ASSUME CountInv, MissMirror PROVE CountInv'
  OBVIOUS
<1>1. /\ harness' = harness /\ quirk' = quirk /\ UNCHANGED <<harness, stores>> /\ phase = "mirror"
      /\ phase' = "done" /\ events' = events /\ signals' = signals /\ resolved' = resolved
  BY DEF MissMirror, stores
<1> QED BY <1>1, StoreIdle DEF CountInv, PhaseInv, Counted, NamedRight

LEMMA CountHarness == CountInv /\ Harness => CountInv'
<1> SUFFICES ASSUME CountInv, Harness PROVE CountInv'
  OBVIOUS
<1>1. UNCHANGED <<harness, quirk, reader>>
  BY HarnessLeavesReader
<1>2. StoreInv' /\ signals' \subseteq Calls
  BY StoreHarness, SignalsNext DEF CountInv, Next, Harness
<1>3. \A e : Compacted(e) => Compacted(e)'
  BY CompactedStays DEF CountInv
<1> QED BY <1>1, <1>2, <1>3 DEF CountInv, PhaseInv, Counted, OneEach, NamedRight, Shields, reader

LEMMA CountNext == CountInv /\ [Next]_vars => CountInv'
<1> SUFFICES ASSUME CountInv, [Next]_vars PROVE CountInv'
  OBVIOUS
<1>1. CASE UNCHANGED vars
  BY <1>1, StoreIdle DEF vars, stores, CountInv, PhaseInv, Counted, OneEach, NamedRight, Shields, reader
<1> QED BY <1>1, NextSplit, CountHarness, CountBegin, CountAhead, CountDb, CountMirror, CountMissMirror

\* However a migration, a rename or a call that ends falls between the queries
\* of a reading, whichever of them fail, and whatever running totals and signals
\* stand in for, no call is in two of its events, with the exceptions named.
THEOREM CallsAreCountedOnce == Spec => []CountedOnce
<1>1. CountInv => CountedOnce
  <2> SUFFICES ASSUME CountInv, NEW e \in Calls, NamedRight(e[1]),
                      ~(harness = "deepseek" /\ quirk), ~Compacted(e)
               PROVE  Cardinality(CountsOf(e)) <= 1
    BY DEF CountedOnce
  <2>1. \A v, w \in CountsOf(e) : v = w
    BY DEF CountInv, Counted, CountsOf
  <2> QED BY <2>1, AtMostOne
<1> QED BY <1>1, CountInit, CountNext, PTL DEF Spec
-----------------------------------------------------------------------------
(***************************************************************************)
(* No loss.  While a reading goes on, a call that was recorded when it     *)
(* began is where the reader will find it (InStores, then Ahead), then it  *)
(* has its event, was reported, or is left for the second store (Left).    *)
(***************************************************************************)
InStores(e) ==
    IF harness = "opencode" THEN Trusted(e) \in {"good", "bad"} \/ mirror[e] \in {"good", "bad"}
    ELSE /\ db[e] \in Usable \/ mirror[e] \in Usable
         /\ e \in inDb => db[e] = "good"

Ahead(e) ==
    CASE harness = "opencode" ->
            \/ messages[e] \in {"good", "bad"}
            \/ messages[e] = "none" /\ sessionMessages[e] \in {"good", "bad"}
            \/ /\ messages[e] = "none"
               /\ mirror[e] \in {"good", "bad"}
      [] harness = "jcode" ->
            /\ db[e] = "good" \/ messages[e] = "good"
            /\ e \in inDb => db[e] = "good"
      [] OTHER -> InStores(e)

Left(cover, e) ==
    CASE harness \in {"opencode", "deepseek"} -> e \notin cover /\ mirror[e] \in {"good", "bad"}
      [] harness = "jcode" -> e \notin inDb /\ messages[e] = "good"
      [] OTHER -> e \notin inDb /\ mirror[e] \in Usable

\* What the reading of the first store makes of a call, and of the second.
InFirst(M, e) == \E r \in FirstRows(M) : e \in FirstCalls(r) /\ FirstFull(M, r)
InSecond(F, e) == \E r \in SecondRows(F) : e \in SecondCalls(r) /\ SecondFull(r)

\* Readers that report what they cannot use of the first store, call by call.
ReportsDb == harness \in {"zcode", "devin", "copilot", "deepseek", "reasonix"}

LEMMA FirstOutcome ==
    ASSUME PhaseInv, StoreInv, NEW M \in {sessionMessages, Empty}, NEW e \in Calls, Ahead(e)
    PROVE  \/ InFirst(M, e)
           \/ e \in DbReading(M).reported
           \/ Unlisted(e[1]) \/ Unnamed(e)
           \/ harness = "opencode" /\ M = Empty /\ sessionMessages[e] \in {"good", "bad"}
           \/ Left(Covers(DbReading(M)), e)
<1>0. e \in Entries /\ e[1] \in Sessions
  BY EntryOf, CallOf
<1>1. CASE harness = "opencode"
  <2>1. DbReading(M).reported = Holding(messages, {"bad"}) \cup Holding(M, {"bad"})
    BY <1>1 DEF DbReading, OpencodeDb, Reading
  <2>2. FirstRows(M) = (Parsed(messages) \cup Parsed(M)) \cap Calls
    BY <1>1 DEF FirstRows
  <2>3. Covers(DbReading(M)) = FirstRows(M)
    BY <1>1, CoversForm DEF PhaseInv
  <2>4. e \in FirstCalls(e) /\ FirstFull(M, e) =
            ((IF e \in Parsed(messages) THEN messages[e] ELSE M[e]) = "good")
    BY <1>1 DEF FirstCalls, FirstFull
  <2>5. M[e] = sessionMessages[e] \/ (M = Empty /\ M[e] = "none")
    BY <1>0 DEF Empty
  <2>6. CASE messages[e] = "bad" \/ M[e] = "bad"
    BY <2>1, <2>6 DEF Holding
  <2>7. CASE messages[e] = "good"
    <3>1. e \in Parsed(messages)
      BY <1>0, <2>7 DEF Parsed
    <3> QED BY <2>2, <2>4, <2>7, <3>1 DEF InFirst
  <2>8. CASE messages[e] = "none" /\ M[e] = "good"
    <3>1. e \notin Parsed(messages) /\ e \in Parsed(M)
      BY <1>0, <2>8 DEF Parsed
    <3> QED BY <2>2, <2>4, <2>8, <3>1 DEF InFirst
  <2>9. CASE /\ messages[e] = "none" /\ mirror[e] \in {"good", "bad"}
             /\ sessionMessages[e] \notin {"good", "bad"}
    <3>1. Trusted(e) # "zero"
      BY <1>0, <1>1, <2>9 DEF StoreInv, Final
    <3>2. M[e] # "zero"
      BY <1>0, <2>5, <3>1 DEF StoreInv, Trusted
    <3>3. e \notin FirstRows(M)
      BY <2>2, <2>5, <2>9, <3>2 DEF Parsed
    <3> QED BY <1>1, <2>3, <2>9, <3>3 DEF Left
  <2> QED BY <1>1, <2>5, <2>6, <2>7, <2>8, <2>9 DEF Ahead
<1>2. CASE harness = "jcode"
  <2>1. CASE db[e] = "good" /\ Snapshot(messages, e[1])
    <3>1. e \in FirstRows(M) /\ e \in FirstCalls(e) /\ FirstFull(M, e)
      BY <1>2, <2>1 DEF FirstRows, FirstCalls, FirstFull, Holding
    <3> QED BY <3>1 DEF InFirst
  <2>2. CASE ~Snapshot(messages, e[1])
    BY <1>2, <2>2 DEF Unlisted
  <2>3. CASE db[e] # "good"
    BY <1>2, <2>3 DEF Ahead, Left
  <2> QED BY <2>1, <2>2, <2>3
<1>3. CASE harness = "hermes"
  <2>1. CASE db[e] = "good" /\ ~Undated(mirror, e[1])
    <3>1. e[1] \in FirstRows(M) /\ e \in FirstCalls(e[1]) /\ FirstFull(M, e[1])
      BY <1>0, <1>3, <2>1 DEF FirstRows, FirstCalls, FirstFull, Holding, InSession
    <3> QED BY <3>1 DEF InFirst
  <2>2. CASE db[e] = "good" /\ Undated(mirror, e[1])
    BY <1>0, <1>3, <2>2 DEF DbReading, HermesModels, Reading, Holding
  <2>3. CASE db[e] # "good"
    <3>1. db[e] \notin Usable
      <4>1. db[e] # "none" => Trusted(e) = db[e]
        BY DEF Trusted
      <4> QED BY <1>0, <1>3, <2>3, <4>1 DEF Usable, StoreInv
    <3> QED BY <1>3, <2>3, <3>1 DEF Ahead, InStores, Left
  <2> QED BY <2>1, <2>2, <2>3
<1>4. CASE harness \notin {"opencode", "jcode", "hermes"}
  <2>1. CASE db[e] = "good"
    <3>1. e \in FirstRows(M) /\ e \in FirstCalls(e) /\ FirstFull(M, e)
      BY <1>4, <2>1 DEF FirstRows, FirstCalls, FirstFull, Holding
    <3> QED BY <3>1 DEF InFirst
  <2>2. CASE db[e] = "bad" /\ ReportsDb
    BY <2>2 DEF ReportsDb, DbReading, ZcodeDb, DevinCli, CopilotState, DeepseekLog, ReasonixStats,
                Reading, Holding
  <2>3. CASE db[e] # "good" /\ ~(db[e] = "bad" /\ ReportsDb) /\ ~Unnamed(e)
    <3>1. db[e] \notin Usable
      <4>1. db[e] # "none" => Trusted(e) = db[e]
        BY DEF Trusted
      <4>2. db[e] \notin {"anon", "total", "fell"} /\ (db[e] = "unnamed" => harness = "devin")
        BY <1>0, <4>1 DEF StoreInv
      <4> QED BY Ten, <1>4, <2>3, <4>2 DEF ReportsDb, Usable, PhaseInv, Unnamed
    <3>2. e \notin inDb /\ mirror[e] \in Usable
      BY <1>4, <2>3, <3>1 DEF Ahead, InStores
    <3>3. CASE harness = "deepseek"
      <4>1. e \notin FirstRows(M) /\ mirror[e] \notin {"anon", "unnamed"}
        BY <1>0, <2>3, <3>3 DEF FirstRows, Holding, StoreInv
      <4>2. Covers(DbReading(M)) = FirstRows(M)
        BY <3>3, CoversForm DEF PhaseInv
      <4> QED BY <3>2, <3>3, <4>1, <4>2 DEF Left, Usable
    <3>4. CASE harness # "deepseek"
      BY <1>4, <3>2, <3>4 DEF Left
    <3> QED BY <3>3, <3>4
  <2> QED BY <2>1, <2>2, <2>3
<1> QED BY <1>1, <1>2, <1>3, <1>4

\* The mirror of this call is superseded by what the first store has.
Superseding(cover, e) ==
    /\ e \notin inDb
    /\ CASE harness \in {"opencode", "deepseek"} -> FALSE
         [] harness = "reasonix" -> cover # {}
         [] OTHER -> e[1] \in cover

LEMMA SecondOutcome ==
    ASSUME PhaseInv, StoreInv, NEW e \in Calls, NEW F, F[e[1]] = e[1], Left(covered, e)
    PROVE  \/ InSecond(F, e)
           \/ e \in MirrorReading(F).reported
           \/ Superseding(covered, e)
           \/ Unlisted(e[1])
<1>0. e \in Entries /\ e[1] \in Sessions
  BY EntryOf, CallOf
<1>1. CASE harness = "opencode"
  <2>1. CASE mirror[e] = "good"
    <3>1. e \in SecondRows(F) /\ e \in SecondCalls(e) /\ SecondFull(e)
      BY <1>0, <1>1, <2>1 DEF SecondRows, SecondCalls, SecondFull, Parsed, Left
    <3> QED BY <3>1 DEF InSecond
  <2>2. CASE mirror[e] = "bad"
    BY <1>1, <2>2 DEF MirrorReading, OpencodeJson, Reading, Holding
  <2> QED BY <1>1, <2>1, <2>2 DEF Left
<1>2. CASE harness = "deepseek"
  <2>1. CASE mirror[e] = "good"
    <3>1. e \in SecondRows(F) /\ e \in SecondCalls(e) /\ SecondFull(e)
      BY <1>0, <1>2, <2>1 DEF SecondRows, SecondCalls, SecondFull, Holding, Left
    <3> QED BY <3>1 DEF InSecond
  <2>2. CASE mirror[e] = "bad"
    BY <1>2, <2>2 DEF MirrorReading, DeepseekDb, Reading, Holding
  <2> QED BY <1>2, <2>1, <2>2 DEF Left
<1>3. CASE harness = "jcode"
  <2>1. CASE Snapshot(messages, e[1]) /\ e[1] \notin covered
    <3>1. e \in SecondRows(F) /\ e \in SecondCalls(e) /\ SecondFull(e)
      BY <1>3, <2>1 DEF SecondRows, SecondCalls, SecondFull, Holding, Left
    <3> QED BY <3>1 DEF InSecond
  <2> QED BY <1>3, <2>1 DEF Left, Superseding, Unlisted
<1>4. CASE harness \in {"zcode", "cline"} /\ e[1] \notin covered
  <2>1. CASE mirror[e] = "good"
    <3>1. e \in SecondRows(F) /\ e \in SecondCalls(e) /\ SecondFull(e)
      BY <1>4, <2>1 DEF SecondRows, SecondCalls, SecondFull, Holding
    <3> QED BY <3>1 DEF InSecond
  <2>2. CASE mirror[e] = "bad" /\ harness = "zcode"
    BY <1>4, <2>2 DEF MirrorReading, ZcodeJsonl, Reading, Holding
  <2> QED BY <1>0, <1>4, <2>1, <2>2 DEF Left, Usable, StoreInv
<1>11. CASE harness = "grok" /\ e[1] \notin covered
  <2>1. mirror[e] \in {"good", "fell"}
    BY <1>11 DEF Left, Usable
  <2> DEFINE v == Event("mirror", e[1], Since(mirror, e), TRUE, Marked(mirror, e) /\ Fresh(mirror, e))
  <2>2. e \in UsageTold(mirror)
    BY <2>1 DEF UsageTold, Holding
  <2>3. v \in Legacy
    BY <2>2 DEF Legacy, UsageEvents
  <2>4. e \in Since(mirror, e)
    BY DEF Since, UpTo
  <2>5. v.sess = e[1] /\ v.calls = Since(mirror, e) /\ v.full
    BY DEF Event
  <2> HIDE DEF v
  <2>6. v \in SecondRows(F) /\ e \in SecondCalls(v) /\ SecondFull(v)
    BY <1>11, <2>3, <2>4, <2>5 DEF SecondRows, SecondCalls, SecondFull
  <2> QED BY <2>6 DEF InSecond
<1>5. CASE harness = "copilot" /\ e[1] \notin covered
  <2>1. CASE mirror[e] = "good" \/ (mirror[e] = "anon" /\ covered = {})
    <3>1. e \in SecondRows(F) /\ e \in SecondCalls(e) /\ SecondFull(e)
      BY <1>5, <2>1 DEF SecondRows, SecondCalls, SecondFull, Holding
    <3> QED BY <3>1 DEF InSecond
  <2>2. CASE mirror[e] = "bad" \/ (mirror[e] = "anon" /\ covered # {})
    BY <1>5, <2>2 DEF MirrorReading, CopilotOtel, Reading, Holding
  <2> QED BY <1>0, <1>5, <2>1, <2>2 DEF Left, Usable, StoreInv
<1>6. CASE harness = "reasonix" /\ covered = {}
  <2>1. mirror[e] \in {"good", "bad"}
    BY <1>0, <1>6 DEF Left, Usable, StoreInv
  <2>2. CASE mirror[e] = "good" /\ InSession(Holding(mirror, {"bad"}), e[1]) = {}
    <3>1. e[1] \in SecondRows(F) /\ e \in SecondCalls(e[1]) /\ SecondFull(e[1])
      BY <1>0, <1>6, <2>2 DEF SecondRows, SecondCalls, SecondFull, Holding, InSession
    <3> QED BY <3>1 DEF InSecond
  <2>3. CASE ~(mirror[e] = "good" /\ InSession(Holding(mirror, {"bad"}), e[1]) = {})
    <3>1. InSession(Holding(mirror, {"bad"}), e[1]) # {}
      BY <2>1, <2>3 DEF InSession, Holding
    <3>2. e \in Holding(mirror, {"good", "bad"})
      BY <2>1 DEF Holding
    <3> QED BY <1>6, <3>1, <3>2 DEF MirrorReading, ReasonixSidecars, Reading, InSession
  <2> QED BY <2>2, <2>3
<1>7. CASE harness = "hermes" /\ e[1] \notin covered
  <2>1. mirror[e] \in {"good", "bad"}
    BY <1>0, <1>7 DEF Left, Usable, StoreInv
  <2>2. CASE ~Undated(mirror, e[1])
    <3>1. mirror[e] = "good"
      BY <2>1, <2>2 DEF Undated, Holding
    <3>2. e[1] \in SecondRows(F) /\ e \in SecondCalls(e[1]) /\ SecondFull(e[1])
      BY <1>0, <1>7, <2>2, <3>1 DEF SecondRows, SecondCalls, SecondFull, Holding, InSession
    <3> QED BY <3>2 DEF InSecond
  <2>3. CASE Undated(mirror, e[1])
    <3>1. e \in Holding(mirror, {"good", "bad"})
      BY <2>1 DEF Holding
    <3> QED BY <1>0, <1>7, <2>3, <3>1 DEF MirrorReading, HermesTotals, Reading
  <2> QED BY <2>2, <2>3
<1>8. CASE harness = "devin" /\ e[1] \notin covered
  <2>1. mirror[e] \in {"good", "bad"}
    BY <1>0, <1>8 DEF Left, Usable, StoreInv
  <2>2. CASE quirk /\ mirror[e] = "good"
    <3>1. e \in SecondRows(F) /\ e \in SecondCalls(e) /\ SecondFull(e)
      BY <1>8, <2>2 DEF SecondRows, SecondCalls, SecondFull, Holding
    <3> QED BY <3>1 DEF InSecond
  <2>3. CASE ~quirk /\ InSession(Holding(mirror, {"good"}), e[1]) # {}
    <3>1. e[1] \in SecondRows(F) /\ e \in SecondCalls(e[1]) /\ SecondFull(e[1])
      BY <1>0, <1>8, <2>1, <2>3 DEF SecondRows, SecondCalls, SecondFull, Holding, InSession
    <3> QED BY <3>1 DEF InSecond
  <2>4. CASE mirror[e] = "bad" /\ (quirk \/ InSession(Holding(mirror, {"good"}), e[1]) = {})
    <3>1. e \in InSession(Holding(mirror, {"bad"}), e[1])
      BY <2>4 DEF InSession, Holding
    <3>2. MirrorReading(F).reported = UNION
            {IF quirk \/ InSession(Holding(mirror, {"good"}), s) = {}
             THEN InSession(Holding(mirror, {"bad"}), s) ELSE {} : s \in Sessions}
      BY <1>8 DEF MirrorReading, DevinDesktop, Reading, InSession
    <3> QED BY <1>0, <2>4, <3>1, <3>2
  <2>5. CASE ~quirk /\ mirror[e] = "good" /\ InSession(Holding(mirror, {"good"}), e[1]) = {}
    BY <2>5 DEF InSession, Holding
  <2> QED BY <2>1, <2>2, <2>3, <2>4, <2>5
<1>9. CASE /\ harness \in {"zcode", "cline", "grok", "copilot", "hermes", "devin"} /\ e[1] \in covered
  BY <1>9 DEF Left, Superseding
<1>10. CASE harness = "reasonix" /\ covered # {}
  BY <1>10 DEF Left, Superseding
<1> QED BY Ten, <1>1, <1>2, <1>3, <1>4, <1>5, <1>6, <1>7, <1>8, <1>9, <1>10, <1>11 DEF PhaseInv

HasEvent(e) == \E ev \in CountsOf(e) : ev.full

\* Harnesses whose second store is left out session by session.
BySession == harness \in {"zcode", "cline", "devin", "copilot", "grok", "hermes"}

Found(e) ==
    \/ HasEvent(e) \/ e \in reported \/ e \in dropped
    \/ Unlisted(e[1]) \/ Unnamed(e)

LossInv ==
    /\ PhaseInv
    /\ StoreInv
    /\ recorded \subseteq Calls
    /\ harness \notin {"opencode", "devin", "jcode"} => phase # "ahead"
    /\ phase = "ahead" => messages = Empty /\ \A e \in recorded : InStores(e)
    /\ phase = "db" => \A e \in recorded : Ahead(e)
    /\ phase = "half" => harness = "opencode" /\ \A e \in recorded : e \in dropped \/ Ahead(e)
    /\ phase = "mirror" =>
            /\ \A e \in recorded : Found(e) \/ Left(covered, e)
            /\ BySession => \A s \in covered : \E ev \in events : ev.from = "db" /\ ev.sess = s
    /\ NoSilentLoss

LEMMA LossInit == Init => LossInv
BY StoreInit DEF Init, LossInv, PhaseInv, NoSilentLoss

LEMMA LossHarness == LossInv /\ Harness => LossInv'
<1> SUFFICES ASSUME LossInv, Harness PROVE LossInv'
  OBVIOUS
<1>1. StoreInv' /\ Keeps /\ StoreInv
  BY StoreHarness DEF LossInv
<1>2. /\ harness' = harness /\ quirk' = quirk /\ phase' = phase /\ recorded' = recorded
      /\ inDb' = inDb /\ messages' = messages /\ covered' = covered /\ resolved' = resolved
      /\ events' = events /\ reported' = reported /\ dropped' = dropped
  BY HarnessLeavesReader DEF reader
<1>4. \A e \in recorded : e \in Entries
  BY EntryOf DEF LossInv
<1>11. \A e \in recorded : Unnamed(e) => Unnamed(e)'
  BY <1>1, <1>2, <1>4 DEF Unnamed, Keeps, Final
<1>3. PhaseInv' /\ NoSilentLoss'
  <2>1. PhaseInv'
    BY <1>2 DEF LossInv, PhaseInv
  <2>2. \A e \in recorded : Accounted(e) => Accounted(e)'
    BY <1>2, <1>11 DEF Accounted, CountsOf, Superseded, Unlisted, NamedRight
  <2> QED BY <1>2, <2>1, <2>2 DEF LossInv, NoSilentLoss
<1>5. Usable' = Usable /\ Usable \subseteq Final
  BY <1>2 DEF Usable, Final
<1>6. ASSUME NEW e \in recorded, InStores(e)
      PROVE  InStores(e)'
  <2>1. CASE harness = "opencode"
    BY <1>1, <1>2, <1>4, <1>6, <2>1 DEF InStores, Keeps, Final
  <2>2. CASE harness # "opencode"
    BY <1>1, <1>2, <1>4, <1>5, <1>6, <2>2 DEF InStores, Keeps, Final
  <2> QED BY <2>1, <2>2
<1>7. ASSUME NEW e \in recorded, Ahead(e)
      PROVE  Ahead(e)'
  <2>1. CASE harness = "opencode"
    BY <1>1, <1>2, <1>4, <1>7, <2>1 DEF Ahead, Keeps, Final
  <2>2. CASE harness = "jcode"
    BY <1>1, <1>2, <1>4, <1>7, <2>2 DEF Ahead, Keeps, Final
  <2>3. CASE harness \notin {"opencode", "jcode"}
    BY <1>2, <1>6, <1>7, <2>3 DEF Ahead
  <2> QED BY <2>1, <2>2, <2>3
<1>8. ASSUME NEW e \in recorded, Left(covered, e)
      PROVE  Left(covered, e)'
  BY <1>1, <1>2, <1>4, <1>5, <1>8 DEF Left, Keeps, Final
<1>9. \A e \in recorded : Found(e) => Found(e)'
  BY <1>2, <1>11 DEF Found, HasEvent, CountsOf, Unlisted, Snapshot, Written
<1>10. BySession' <=> BySession
  BY <1>2 DEF BySession
<1> QED BY <1>1, <1>2, <1>3, <1>6, <1>7, <1>8, <1>9, <1>10 DEF LossInv

LEMMA LossBegin == LossInv /\ Begin => LossInv'
<1> SUFFICES ASSUME LossInv, Begin PROVE LossInv'
  OBVIOUS
<1>1. /\ harness' = harness /\ quirk' = quirk /\ db' = db /\ mirror' = mirror
      /\ sessionMessages' = sessionMessages /\ phase' \in {"ahead", "db"}
      /\ UNCHANGED <<harness, stores>> /\ messages' = Empty
      /\ phase' = "ahead" <=> harness \in {"opencode", "devin", "jcode"}
      /\ recorded' = UNION {Holding(x, Usable) : x \in {db, sessionMessages, mirror}}
      /\ inDb' = Holding(db, {"good"}) \cup Holding(sessionMessages, {"good"})
  BY DEF Begin, stores
<1>2. StoreInv' /\ StoreInv /\ PhaseInv
  BY <1>1, StoreIdle DEF LossInv
<1>3. \A e \in recorded' : /\ e \in Calls /\ e \in Entries
                           /\ {db[e], sessionMessages[e], mirror[e]} \cap Usable # {}
  BY <1>1, EntryOf DEF Holding
<1>4. ASSUME NEW e \in recorded'
      PROVE  InStores(e)'
  <2>1. CASE harness = "opencode"
    <3>1. {db[e], sessionMessages[e], mirror[e]} \cap {"good", "bad"} # {}
      BY <1>2, <1>3, <2>1 DEF Usable, StoreInv
    <3> QED BY <1>1, <1>2, <1>3, <2>1, <3>1 DEF InStores, Trusted, StoreInv
  <2>2. CASE harness # "opencode"
    <3>1. sessionMessages[e] = "none" /\ "none" \notin Usable
      BY <1>2, <1>3, <2>2 DEF Usable, StoreInv
    <3>2. e \in inDb' => db[e] = "good"
      BY <1>1, <3>1 DEF Holding
    <3>3. Usable' = Usable
      BY <1>1 DEF Usable
    <3> QED BY <1>1, <1>3, <2>2, <3>1, <3>2, <3>3 DEF InStores
  <2> QED BY <2>1, <2>2
<1>5. phase' = "db" => \A e \in recorded' : Ahead(e)'
  BY Ten, <1>1, <1>2, <1>4 DEF Ahead, PhaseInv
<1>6. PhaseInv' /\ NoSilentLoss'
  BY <1>1, <1>2 DEF PhaseInv, NoSilentLoss
<1> QED BY <1>1, <1>2, <1>3, <1>4, <1>5, <1>6 DEF LossInv

LEMMA LossAhead == LossInv /\ ReadAhead => LossInv'
<1> SUFFICES ASSUME LossInv, ReadAhead PROVE LossInv'
  OBVIOUS
<1>1. /\ UNCHANGED <<harness, stores>> /\ harness' = harness /\ quirk' = quirk /\ db' = db /\ mirror' = mirror
      /\ sessionMessages' = sessionMessages /\ phase = "ahead" /\ phase' = "db"
      /\ recorded' = recorded /\ inDb' = inDb
      /\ messages' = CASE harness = "opencode" -> db
                       [] harness = "jcode" -> mirror
                       [] OTHER -> Empty
  BY DEF ReadAhead, stores
<1>2. StoreInv' /\ StoreInv /\ PhaseInv /\ harness \in {"opencode", "devin", "jcode"}
  BY <1>1, StoreIdle DEF LossInv
<1>3. Usable' = Usable
  BY <1>1 DEF Usable
<1>4. ASSUME NEW e \in recorded
      PROVE  Ahead(e)'
  <2>1. InStores(e) /\ e \in Entries
    BY <1>1, EntryOf DEF LossInv
  <2>2. CASE harness = "opencode"
    <3>1. mirror[e] \in {"good", "bad"} => Trusted(e) # "zero"
      BY <1>2, <2>1, <2>2 DEF StoreInv, Final
    <3>2. /\ db[e] \in CellKinds
          /\ db[e] # "none" => Trusted(e) = db[e]
          /\ Trusted(e) \notin {"anon", "total", "fell", "unnamed"}
      BY <1>2, <2>1, <2>2 DEF StoreInv, Store, Trusted
    <3> QED BY <1>1, <2>1, <2>2, <3>1, <3>2 DEF Ahead, InStores, Trusted, CellKinds
  <2>3. CASE harness = "jcode"
    BY <1>1, <2>1, <2>3 DEF Ahead, InStores, Usable
  <2>4. CASE harness = "devin"
    BY <1>1, <1>3, <2>1, <2>4 DEF Ahead, InStores
  <2> QED BY <1>2, <2>2, <2>3, <2>4
<1>5. PhaseInv' /\ NoSilentLoss'
  BY <1>1, <1>2 DEF PhaseInv, NoSilentLoss
<1> QED BY <1>1, <1>2, <1>4, <1>5 DEF LossInv

\* OpenCode's first table is not to be had.
LEMMA LossMissAhead == LossInv /\ MissAhead => LossInv'
<1> SUFFICES ASSUME LossInv, MissAhead PROVE LossInv'
  OBVIOUS
<1>1. /\ UNCHANGED <<harness, stores>> /\ harness' = harness /\ quirk' = quirk
      /\ phase = "ahead" /\ phase' = "half" /\ harness = "opencode"
      /\ recorded' = recorded /\ messages' = messages /\ dropped' = Holding(db, Usable)
      /\ db' = db /\ mirror' = mirror /\ sessionMessages' = sessionMessages
  BY DEF MissAhead, stores
<1>2. StoreInv' /\ StoreInv /\ PhaseInv /\ messages = Empty
  BY <1>1, StoreIdle DEF LossInv
<1>3. ASSUME NEW e \in recorded
      PROVE  (e \in dropped \/ Ahead(e))'
  <2>1. InStores(e) /\ e \in Entries /\ e \in Calls
    BY <1>1, EntryOf DEF LossInv
  <2>2. messages[e] = "none"
    BY <1>2, <2>1 DEF Empty
  <2>3. db[e] \in {"good", "bad"} => e \in dropped'
    BY <1>1, <2>1 DEF Holding, Usable
  <2> QED BY <1>1, <2>1, <2>2, <2>3 DEF Ahead, InStores, Trusted
<1>4. PhaseInv' /\ NoSilentLoss'
  BY <1>1, <1>2 DEF PhaseInv, NoSilentLoss
<1> QED BY <1>1, <1>2, <1>3, <1>4 DEF LossInv

\* What the first store makes of what was recorded; the second table has gone
\* unread where M is Empty.
LEMMA LossFirst ==
    ASSUME LossInv, phase \in {"db", "half"}, NEW M \in {sessionMessages, Empty}, NEW e \in recorded,
           events' = DbReading(M).events, DbReading(M).reported \subseteq reported',
           covered' = Covers(DbReading(M)), UNCHANGED <<harness, stores, inDb, messages>>,
           e \in dropped => e \in reported' \cup dropped',
           harness = "opencode" /\ M = Empty /\ sessionMessages[e] \in {"good", "bad"}
               => e \in reported' \cup dropped'
    PROVE  (Found(e) \/ Left(covered, e))'
<1>1. StoreInv /\ PhaseInv /\ e \in Calls /\ (e \in dropped \/ Ahead(e))
  BY DEF LossInv
<1>2. events' = {FirstEvent(M, r) : r \in FirstRows(M)}
  BY <1>1, FirstForm DEF PhaseInv
<1>3. CASE InFirst(M, e)
  <2>1. PICK r \in FirstRows(M) : e \in FirstCalls(r) /\ FirstFull(M, r)
    BY <1>3 DEF InFirst
  <2> QED BY <1>2, <2>1, FirstFields DEF Found, HasEvent, CountsOf
<1>4. CASE e \in DbReading(M).reported \/ e \in dropped
  BY <1>4 DEF Found
<1>5. CASE Unlisted(e[1]) \/ Unnamed(e)
  BY <1>5 DEF Found, Unlisted, Unnamed, Snapshot, Written, stores
<1>6. CASE harness = "opencode" /\ M = Empty /\ sessionMessages[e] \in {"good", "bad"}
  BY <1>6 DEF Found
<1>7. CASE Left(Covers(DbReading(M)), e)
  BY <1>7 DEF Left, Usable, stores
<1> QED BY <1>1, <1>3, <1>4, <1>5, <1>6, <1>7, FirstOutcome

LEMMA CoveredHaveEvents ==
    ASSUME PhaseInv, BySession, NEW M, NEW s \in Covers(DbReading(M))
    PROVE  \E ev \in DbReading(M).events : ev.from = "db" /\ ev.sess = s
<1>1. Covers(DbReading(M)) = {FirstSess(r) : r \in FirstRows(M)}
  BY CoversForm DEF BySession, PhaseInv
<1>2. DbReading(M).events = {FirstEvent(M, r) : r \in FirstRows(M)}
  BY FirstForm DEF PhaseInv
<1> QED BY <1>1, <1>2, FirstFields

LEMMA LossDb == LossInv /\ ReadDb => LossInv'
<1> SUFFICES ASSUME LossInv, ReadDb PROVE LossInv'
  OBVIOUS
<1>1. /\ UNCHANGED <<harness, stores, inDb, messages>> /\ harness' = harness /\ quirk' = quirk
      /\ phase \in {"db", "half"} /\ phase' = "mirror"
      /\ recorded' = recorded /\ dropped' = dropped
      /\ events' = DbReading(sessionMessages).events /\ reported' = DbReading(sessionMessages).reported
      /\ covered' = Covers(DbReading(sessionMessages))
  BY DEF ReadDb
<1>2. StoreInv' /\ PhaseInv
  BY <1>1, StoreIdle DEF LossInv
<1>3. ASSUME NEW e \in recorded
      PROVE  (Found(e) \/ Left(covered, e))'
  <2>1. harness = "opencode" /\ sessionMessages = Empty => sessionMessages[e] = "none"
    BY EntryOf DEF LossInv, Empty
  <2> QED BY <1>1, <2>1, LossFirst
<1>4. BySession => \A s \in covered' : \E ev \in events' : ev.from = "db" /\ ev.sess = s
  BY <1>1, <1>2, CoveredHaveEvents
<1>5. PhaseInv' /\ NoSilentLoss' /\ (BySession' <=> BySession)
  BY <1>1, <1>2 DEF PhaseInv, NoSilentLoss, BySession
<1>6. recorded' \subseteq Calls
  BY <1>1 DEF LossInv
<1> QED BY <1>1, <1>2, <1>3, <1>4, <1>5, <1>6 DEF LossInv

\* The database is not to be had: it is reported, or its records are dropped.
LEMMA LossMissDb == LossInv /\ MissDb => LossInv'
<1> SUFFICES ASSUME LossInv, MissDb PROVE LossInv'
  OBVIOUS
<1>1. /\ UNCHANGED <<harness, stores, inDb, messages>> /\ harness' = harness /\ quirk' = quirk
      /\ phase \in {"db", "half"} /\ phase' = "mirror"
      /\ harness \in {"opencode", "zcode", "devin", "hermes"}
      /\ recorded' = recorded /\ inDb' = inDb /\ mirror' = mirror
      /\ events' = DbMissed.events /\ covered' = Covers(DbMissed)
      /\ DbMissed.reported \subseteq reported'
      /\ dropped \subseteq reported' \cup dropped'
      /\ Holding(Queried, Usable) \subseteq reported' \cup dropped'
  BY DEF MissDb, stores
<1>2. StoreInv' /\ StoreInv /\ PhaseInv
  BY <1>1, StoreIdle DEF LossInv
<1>3. ASSUME NEW e \in recorded
      PROVE  (Found(e) \/ Left(covered, e))'
  <2>1. e \in Calls
    BY DEF LossInv
  <2>2. CASE harness = "opencode"
    <3>1. DbMissed = DbReading(Empty)
      BY <2>2 DEF DbMissed
    <3>2. sessionMessages[e] \in {"good", "bad"} => e \in reported' \cup dropped'
      BY <1>1, <2>1, <2>2 DEF Queried, Holding, Usable
    <3> QED BY <1>1, <3>1, <3>2, LossFirst
  <2>3. CASE harness # "opencode"
    <3>1. Ahead(e)
      BY <1>1, <2>3 DEF LossInv
    <3>2. db[e] \in Usable => e \in reported' \cup dropped'
      BY <1>1, <2>1, <2>3 DEF Queried, Holding
    <3>3. "good" \in Usable /\ Usable' = Usable
      BY <1>1 DEF Usable
    <3>4. CASE db[e] \in Usable
      BY <3>2, <3>4 DEF Found
    <3>5. CASE db[e] \notin Usable
      <4>1. e \notin inDb /\ mirror[e] \in Usable
        BY <1>1, <2>3, <3>1, <3>3, <3>5 DEF Ahead, InStores
      <4> QED BY <1>1, <2>3, <3>3, <4>1 DEF Left
    <3> QED BY <3>4, <3>5
  <2> QED BY <2>2, <2>3
<1>4. ASSUME BySession, NEW s \in covered'
      PROVE  \E ev \in events' : ev.from = "db" /\ ev.sess = s
  <2>1. harness # "opencode" /\ Covers(DbMissed) = {}
    BY <1>1, <1>4 DEF BySession, Covers, DbMissed, Reading
  <2> QED BY <1>1, <1>4, <2>1
<1>5. PhaseInv' /\ NoSilentLoss' /\ (BySession' <=> BySession)
  BY <1>1, <1>2 DEF PhaseInv, NoSilentLoss, BySession
<1>6. recorded' \subseteq Calls
  BY <1>1 DEF LossInv
<1> QED BY <1>1, <1>2, <1>3, <1>4, <1>5, <1>6 DEF LossInv

LEMMA LossMirror == LossInv /\ ReadMirror => LossInv'
<1> SUFFICES ASSUME LossInv, ReadMirror PROVE LossInv'
  OBVIOUS
<1> DEFINE F == FilesAre
<1>1. /\ UNCHANGED <<harness, stores>> /\ dropped' = dropped /\ harness' = harness /\ quirk' = quirk /\ db' = db /\ mirror' = mirror
      /\ sessionMessages' = sessionMessages /\ phase = "mirror" /\ phase' = "done"
      /\ recorded' = recorded /\ inDb' = inDb /\ messages' = messages /\ covered' = covered
      /\ resolved' = F
      /\ events' = events \cup MirrorReading(F).events
      /\ reported' = reported \cup MirrorReading(F).reported
  BY DEF ReadMirror, stores
<1>2. StoreInv' /\ StoreInv /\ PhaseInv
  BY <1>1, StoreIdle DEF LossInv
<1>3. events' = events \cup {SecondEvent(F, r) : r \in SecondRows(F)}
  BY <1>1, <1>2, SecondForm DEF PhaseInv
<1> HIDE DEF F
<1>4. ASSUME NEW e \in recorded, F[e[1]] = e[1]
      PROVE  (Found(e) \/ Superseded(e))'
  <2>1. e \in Calls
    BY DEF LossInv
  <2>2. CASE HasEvent(e)
    BY <1>1, <2>2 DEF Found, HasEvent, CountsOf
  <2>3. CASE e \in reported \/ e \in MirrorReading(F).reported \/ e \in dropped
    BY <1>1, <2>3 DEF Found
  <2>4. CASE Unlisted(e[1]) \/ Unnamed(e)
    BY <1>1, <2>4 DEF Found, Unlisted, Unnamed, Snapshot, Written
  <2>5. CASE InSecond(F, e)
    <3>1. PICK r \in SecondRows(F) : e \in SecondCalls(r) /\ SecondFull(r)
      BY <2>5 DEF InSecond
    <3> QED BY <1>3, <3>1, SecondFields DEF Found, HasEvent, CountsOf
  <2>6. CASE Superseding(covered, e)
    <3>1. CASE harness \in {"opencode", "deepseek"}
      BY <2>6, <3>1 DEF Superseding
    <3>2. CASE harness \in {"reasonix", "jcode"}
      BY <1>1, <2>6, <3>2 DEF Superseding, Superseded
    <3>3. CASE BySession
      <4>1. \E ev \in events' : ev.from = "db" /\ ev.sess = e[1]
        BY <1>1, <2>6, <3>3 DEF Superseding, BySession, LossInv
      <4> QED BY <1>1, <2>6, <3>3, <4>1 DEF Superseding, Superseded, BySession
    <3> QED BY Ten, <1>2, <3>1, <3>2, <3>3 DEF PhaseInv, BySession
  <2>7. CASE Left(covered, e)
    BY <1>2, <1>4, <2>1, <2>3, <2>4, <2>5, <2>6, <2>7, SecondOutcome
  <2> QED BY <1>1, <2>2, <2>3, <2>4, <2>7 DEF LossInv, Found
<1>5. NoSilentLoss'
  BY <1>1, <1>4 DEF NoSilentLoss, Accounted, Found, HasEvent, NamedRight
<1>6. PhaseInv' /\ recorded' \subseteq Calls
  BY <1>1, <1>2 DEF PhaseInv, LossInv
<1> QED BY <1>1, <1>2, <1>5, <1>6 DEF LossInv

LEMMA LossMissMirror == LossInv /\ MissMirror => LossInv'
<1> SUFFICES ASSUME LossInv, MissMirror PROVE LossInv'
  OBVIOUS
<1>1. /\ UNCHANGED <<harness, stores>> /\ harness' = harness /\ db' = db
      /\ phase = "mirror" /\ phase' = "done" /\ recorded' = recorded
      /\ events' = events /\ messages' = messages /\ resolved' = resolved
      /\ reported \subseteq reported' /\ dropped \subseteq dropped'
      /\ harness \in {"deepseek", "hermes"}
      /\ Holding(mirror, Usable) \subseteq reported' \cup dropped'
  BY DEF MissMirror, stores
<1>2. StoreInv' /\ PhaseInv
  BY <1>1, StoreIdle DEF LossInv
<1>3. ASSUME NEW e \in recorded
      PROVE  Found(e)'
  <2>1. e \in Calls /\ (Found(e) \/ Left(covered, e))
    BY <1>1 DEF LossInv
  <2>2. CASE Found(e)
    BY <1>1, <2>2 DEF Found, HasEvent, CountsOf, Unlisted, Unnamed, Snapshot, Written
  <2>3. CASE Left(covered, e)
    <3>1. mirror[e] \in Usable
      BY <1>1, <2>3 DEF Left, Usable
    <3> QED BY <1>1, <2>1, <3>1 DEF Found, Holding
  <2> QED BY <2>1, <2>2, <2>3
<1>4. NoSilentLoss'
  BY <1>1, <1>3 DEF NoSilentLoss, Accounted, Found, HasEvent
<1>5. PhaseInv' /\ recorded' \subseteq Calls
  BY <1>1, <1>2 DEF PhaseInv, LossInv
<1> QED BY <1>1, <1>2, <1>4, <1>5 DEF LossInv

LEMMA LossNext == LossInv /\ [Next]_vars => LossInv'
<1> SUFFICES ASSUME LossInv, [Next]_vars PROVE LossInv'
  OBVIOUS
<1>1. CASE UNCHANGED vars
  <2>1. StoreInv'
    BY <1>1, StoreIdle DEF LossInv, vars
  <2> QED BY <1>1, <2>1 DEF vars, stores, reader, LossInv, PhaseInv, Trusted, InStores, Ahead, Left,
        Found, HasEvent, CountsOf, Unlisted, Unnamed, Snapshot, Written, Usable, BySession,
        NoSilentLoss, Accounted, Superseded, NamedRight
<1> QED BY <1>1, NextSplit, LossHarness, LossBegin, LossAhead, LossDb, LossMirror,
           LossMissAhead, LossMissDb, LossMissMirror

\* A call that either store had in full before a reading began is in an event
\* with its usage, or reported, or its record in the mirror was superseded, or
\* it is one of Devin's without a model, or went with a query that failed.
THEOREM NothingSilentlyLost == Spec => []NoSilentLoss
<1>1. LossInv => NoSilentLoss
  BY DEF LossInv
<1> QED BY <1>1, LossInit, LossNext, PTL DEF Spec
-----------------------------------------------------------------------------
(***************************************************************************)
(* Prompts.  The prompt that a call answers is the last before it.         *)
(***************************************************************************)
LEMMA GreatestPrompt ==
    ASSUME NEW e \in Entries, Prompted(e) # {}
    PROVE  /\ PromptOf(e) \in Prompted(e)
           /\ \A q \in Prompted(e) : q[2] <= PromptOf(e)[2]
<1> DEFINE R == {ss \in Nat \X Nat : ss[1] < ss[2]}
           Before(q) == e[2] - q[2]
           T == {Before(q) : q \in Prompted(e)}
<1>1. \A q \in Prompted(e) : q \in Entries /\ q[2] \in Nat /\ q[2] < e[2]
  BY Places DEF Prompted, Prompts, Precedes
<1>2. T \subseteq Nat /\ T # {}
  BY <1>1, Places
<1>3. IsWellFoundedOn(R, Nat)
  BY NatLessThanWellFounded DEF OpToRel
<1>4. PICK i \in T : \A j \in T : <<j, i>> \notin R
  <2> HIDE DEF T, R
  <2> QED BY <1>2, <1>3, WFMin
<1>5. PICK p \in Prompted(e) : i = Before(p)
  BY DEF T
<1>6. ASSUME NEW q \in Prompted(e)
      PROVE  q[2] <= p[2]
  <2>1. Before(q) \in T /\ Before(q) \in Nat /\ i \in Nat
    BY <1>2
  <2>2. <<Before(q), i>> \in Nat \X Nat /\ <<Before(q), i>>[1] = Before(q) /\ <<Before(q), i>>[2] = i
    BY <2>1
  <2>3. ~(Before(q) < i)
    <3> HIDE DEF Before, T
    <3> QED BY <1>4, <2>1, <2>2
  <2> QED BY <1>1, <1>5, <2>3, Places
<1> QED BY <1>6 DEF PromptOf

SamePrompt(e, f) == Prompted(e) # {} /\ Prompted(f) # {} /\ PromptOf(e) = PromptOf(f)

LEMMA PromptInSession ==
    ASSUME NEW e \in Entries, NEW f \in Entries, SamePrompt(e, f)
    PROVE  SameSession(e, f) /\ PromptOf(e)[1] = e[1] /\ SamePrompt(f, e)
BY GreatestPrompt DEF SamePrompt, Prompted, Precedes, SameSession

\* No prompt is between two calls that answer the same.
LEMMA NoPromptBetween ==
    ASSUME NEW e \in Calls, NEW f \in Calls, SamePrompt(e, f), NEW p \in Prompts,
           Precedes(e, f), Precedes(p, f)
    PROVE  Precedes(p, e)
<1>1. e \in Entries /\ f \in Entries /\ p \in Entries
  BY DEF Calls, Prompts
<1>2. p \in Prompted(f)
  BY DEF Prompted
<1>3. p[2] <= PromptOf(f)[2]
  BY <1>1, <1>2, GreatestPrompt
<1>4. PromptOf(e) \in Prompted(e)
  BY <1>1, GreatestPrompt DEF SamePrompt
<1>5. PromptOf(e) \in Entries /\ PromptOf(e)[2] < e[2]
  BY <1>4 DEF Prompted, Prompts, Precedes
<1>6. p[2] \in Nat /\ e[2] \in Nat /\ PromptOf(e)[2] \in Nat
  BY <1>1, <1>5, Places
<1>7. p[2] < e[2]
  BY <1>3, <1>5, <1>6 DEF SamePrompt
<1> QED BY <1>7 DEF Precedes, SameSession

\* The later of two calls that answer a prompt is not the one it starts.
LEMMA PendingStartsFirst ==
    ASSUME NEW e \in Calls, NEW f \in Calls, SamePrompt(e, f), Precedes(e, f),
           NEW m, NEW rows, e \in rows
    PROVE  ~Pending(m, rows, f)
BY NoPromptBetween DEF Pending

LEMMA AfterPromptStartsFirst ==
    ASSUME NEW e \in Calls, NEW f \in Calls, SamePrompt(e, f), Precedes(e, f),
           NEW parsed, e \in parsed
    PROVE  ~AfterPrompt(parsed, f)
BY NoPromptBetween DEF AfterPrompt

MayStartMore ==
    \/ EachIsATurn
    \/ harness = "zcode" /\ quirk

LEMMA FirstTurnOnce ==
    ASSUME PhaseInv, ~MayStartMore, NEW M, NEW q \in FirstRows(M), NEW r \in FirstRows(M),
           FirstTurn(M, q), FirstTurn(M, r),
           NEW e \in FirstCalls(q) \cap Calls, NEW f \in FirstCalls(r) \cap Calls, SamePrompt(e, f)
    PROVE  q = r
<1>1. e \in Entries /\ f \in Entries /\ e[2] \in Nat /\ f[2] \in Nat /\ SameSession(e, f)
  BY EntryOf, Places, PromptInSession
<1>2. CASE harness = "opencode"
  <2> DEFINE parsed == Parsed(messages) \cup Parsed(M)
  <2>1. e = q /\ f = r /\ e \in parsed /\ f \in parsed
    BY <1>2 DEF FirstCalls, FirstRows
  <2>2. AfterPrompt(parsed, e) /\ AfterPrompt(parsed, f)
    BY <1>2, <2>1 DEF FirstTurn
  <2> HIDE DEF parsed
  <2>3. ~Precedes(e, f) /\ ~Precedes(f, e)
    BY <1>1, <2>1, <2>2, PromptInSession, AfterPromptStartsFirst
  <2> QED BY <1>1, <2>1, <2>3, Places
<1>3. CASE harness = "zcode"
  <2>1. e = q /\ f = r /\ {e, f} \subseteq Holding(db, {"good"}) /\ ~quirk
    BY <1>3 DEF FirstCalls, FirstRows, MayStartMore
  <2>2. Earliest(Holding(db, {"good"}), e) /\ Earliest(Holding(db, {"good"}), f)
    BY <1>3, <2>1 DEF FirstTurn
  <2>3. e[2] <= f[2] /\ f[2] <= e[2]
    BY <1>1, <2>1, <2>2 DEF Earliest, SamePrompt, SameSession
  <2> QED BY <1>1, <2>1, <2>3, CallOf DEF SameSession
<1>4. CASE harness = "grok"
  <2>1. e = q /\ f = r /\ ~quirk
    BY <1>4 DEF FirstCalls, MayStartMore, EachIsATurn
  <2>2. FirstOf(e) /\ FirstOf(f)
    BY <1>4, <2>1 DEF FirstTurn
  <2>3. ~Precedes(e, f) /\ ~Precedes(f, e)
    BY <2>2 DEF FirstOf, SamePrompt
  <2> QED BY <1>1, <2>1, <2>3, Places
<1>5. CASE harness \in {"cline", "copilot", "hermes"}
  BY <1>5 DEF FirstTurn
<1> QED BY Ten, <1>2, <1>3, <1>4, <1>5 DEF PhaseInv, MayStartMore, EachIsATurn

\* The call that an event ends with, whose prompt is the event's.
Ends(ev, e) == e \in ev.calls /\ \A f \in ev.calls : ~Precedes(e, f)

\* A turn of Grok's updates that a prompt opened has all that answers it so far.
LEMMA OneTurnOfPrompt ==
    ASSUME NEW e \in Told(mirror), NEW f \in Told(mirror), SamePrompt(e, f), Precedes(e, f),
           Marked(mirror, f)
    PROVE  SameTurn(mirror, e, f)
<1>1. e \in Calls /\ f \in Calls /\ e \in Entries /\ f \in Entries
  BY ToldEntries
<1>2. PICK p \in Chunks(mirror) :
        Precedes(p, f) /\ \A g \in Fallen(mirror) : ~(Precedes(p, g) /\ UpTo(g, f))
  BY DEF Marked
<1>3. p \in Prompts /\ p \in Entries /\ Precedes(p, e)
  BY <1>1, <1>2, NoPromptBetween, ToldEntries
<1>4. ASSUME NEW q \in Chunks(mirror), Precedes(e, q), Precedes(q, f)
      PROVE  FALSE
  <2>1. q \in Prompts /\ q \in Entries /\ Precedes(q, e)
    BY <1>1, <1>4, NoPromptBetween, ToldEntries
  <2> QED BY <1>1, <1>4, <2>1, Between DEF UpTo
<1>5. ASSUME NEW g \in Fallen(mirror), Precedes(e, g), UpTo(g, f)
      PROVE  FALSE
  <2>1. g \in Entries /\ Precedes(p, g)
    BY <1>1, <1>3, <1>5, Between, ToldEntries
  <2> QED BY <1>2, <1>5, <2>1
<1> QED BY <1>4, <1>5 DEF SameTurn, UpTo

\* A legacy event that starts a turn ends with the call it was told by.
TurnUsage(v, e) ==
    /\ e \in UsageTold(mirror) /\ Fresh(mirror, e)
    /\ v = Event("mirror", e[1], Since(mirror, e), TRUE, TRUE)
TurnFallback(v, e) ==
    /\ Closing(mirror, e) /\ Unused(mirror, e)
    /\ v = Event("mirror", e[1], Risen(mirror, e), TRUE, TRUE)

LEMMA LegacyTurn ==
    ASSUME NEW v \in Legacy, v.turn = TRUE, NEW e \in Calls, Ends(v, e)
    PROVE  e \in Told(mirror) /\ Marked(mirror, e) /\ (TurnUsage(v, e) \/ TurnFallback(v, e))
<1>1. CASE v \in UsageEvents(mirror)
  <2>1. PICK f \in UsageTold(mirror) :
            v = Event("mirror", f[1], Since(mirror, f), TRUE, Marked(mirror, f) /\ Fresh(mirror, f))
    BY <1>1, UsageShape
  <2>2. v.calls = Since(mirror, f) /\ v.turn = (Marked(mirror, f) /\ Fresh(mirror, f))
    BY <2>1 DEF Event
  <2>3. f \in Told(mirror) /\ f \in Calls /\ f \in Entries /\ e \in Entries
    BY ToldEntries, EntryOf
  <2>4. f \in Since(mirror, f)
    BY <2>3 DEF Since, UpTo
  <2>5. e = f
    BY <2>2, <2>4 DEF Ends, Since, UpTo
  <2>6. (Marked(mirror, f) /\ Fresh(mirror, f)) = TRUE
    BY <2>2
  <2>7. Marked(mirror, f) /\ Fresh(mirror, f)
    BY <2>6
  <2>8. v = Event("mirror", f[1], Since(mirror, f), TRUE, TRUE)
    BY <2>1, <2>6
  <2> QED BY <2>3, <2>5, <2>7, <2>8 DEF TurnUsage
<1>2. CASE v \in FallbackEvents(mirror)
  <2>1. PICK f \in Told(mirror) :
            /\ Closing(mirror, f) /\ Unused(mirror, f)
            /\ v = Event("mirror", f[1], Risen(mirror, f), TRUE, Marked(mirror, f))
    BY <1>2, FallbackShape
  <2>2. v.calls = Risen(mirror, f) /\ v.turn = Marked(mirror, f)
    BY <2>1 DEF Event
  <2>3. f \in Calls /\ f \in Entries /\ e \in Entries
    BY ToldEntries, EntryOf
  <2>4. f \in Risen(mirror, f)
    BY <2>3 DEF Risen, UpTo
  <2>5. e = f
    BY <2>2, <2>4 DEF Ends, Risen, UpTo
  <2>6. Marked(mirror, f) = TRUE
    BY <2>2
  <2>7. v = Event("mirror", f[1], Risen(mirror, f), TRUE, TRUE)
    BY <2>1, <2>6
  <2> QED BY <2>1, <2>5, <2>6, <2>7 DEF TurnFallback
<1>3. CASE v \in SignalsEvents(mirror, signals, TurnCounted)
  BY <1>3, SignalsShape
<1> QED BY <1>1, <1>2, <1>3 DEF Legacy, TurnCounted

\* The later of two calls that answer a prompt finds its turn told of already.
LEMMA LaterStartsNoTurn ==
    ASSUME NEW v \in Legacy, NEW w \in Legacy, v.turn = TRUE, w.turn = TRUE,
           NEW e \in Calls, NEW f \in Calls, Ends(v, e), Ends(w, f), SamePrompt(e, f)
    PROVE  ~Precedes(e, f)
<1> SUFFICES ASSUME Precedes(e, f) PROVE FALSE
  OBVIOUS
<1>1. e \in Told(mirror) /\ (TurnUsage(v, e) \/ TurnFallback(v, e))
  BY LegacyTurn
<1>2. f \in Told(mirror) /\ Marked(mirror, f) /\ (TurnUsage(w, f) \/ TurnFallback(w, f))
  BY LegacyTurn
<1>3. SameTurn(mirror, e, f)
  BY <1>1, <1>2, OneTurnOfPrompt
<1>4. e # f
  BY EntryOf, Places
<1>5. CASE TurnUsage(v, e)
  BY <1>2, <1>3, <1>5 DEF TurnUsage, TurnFallback, Fresh, Unused
<1>6. CASE TurnFallback(v, e)
  BY <1>2, <1>3, <1>4, <1>6 DEF TurnFallback, Closing
<1> QED BY <1>1, <1>5, <1>6

LEMMA LegacyTurnOnce ==
    ASSUME NEW v \in Legacy, NEW w \in Legacy, v.turn = TRUE, w.turn = TRUE,
           NEW e \in Calls, NEW f \in Calls, Ends(v, e), Ends(w, f), SamePrompt(e, f)
    PROVE  v = w
<1>1. SamePrompt(f, e) /\ SameSession(e, f) /\ e \in Entries /\ f \in Entries
  BY EntryOf, PromptInSession
<1>2. ~Precedes(e, f) /\ ~Precedes(f, e)
  BY <1>1, LaterStartsNoTurn
<1>3. e = f
  BY <1>1, <1>2, Places
<1>4. TurnUsage(v, e) \/ TurnFallback(v, e)
  BY LegacyTurn
<1>5. TurnUsage(w, e) \/ TurnFallback(w, e)
  BY <1>3, LegacyTurn
<1>6. ~(e \in UsageTold(mirror) /\ Unused(mirror, e))
  BY SameTurnSelf, ToldEntries DEF Unused
<1>7. CASE TurnUsage(v, e) /\ TurnUsage(w, e)
  BY <1>7 DEF TurnUsage
<1>8. CASE TurnFallback(v, e) /\ TurnFallback(w, e)
  BY <1>8 DEF TurnFallback
<1>9. ~(TurnUsage(v, e) /\ TurnFallback(w, e)) /\ ~(TurnFallback(v, e) /\ TurnUsage(w, e))
  BY <1>6 DEF TurnUsage, TurnFallback
<1> QED BY <1>4, <1>5, <1>7, <1>8, <1>9

LEMMA SecondTurnOnce ==
    ASSUME PhaseInv, ~MayStartMore, NEW F, NEW q \in SecondRows(F), NEW r \in SecondRows(F),
           SecondTurn(q) = TRUE, SecondTurn(r) = TRUE, NEW e \in Calls, NEW f \in Calls,
           Ends(SecondEvent(F, q), e), Ends(SecondEvent(F, r), f), SamePrompt(e, f)
    PROVE  q = r
<1>0. e \in SecondCalls(q) /\ f \in SecondCalls(r)
  BY SecondFields DEF Ends
<1>1. e \in Entries /\ f \in Entries /\ SameSession(e, f) /\ SamePrompt(f, e)
  BY EntryOf, PromptInSession
<1>2. CASE harness = "opencode"
  <2>1. e = q /\ f = r /\ e \in Parsed(mirror) /\ f \in Parsed(mirror)
    BY <1>0, <1>2 DEF SecondCalls, SecondRows
  <2>2. AfterPrompt(Parsed(mirror), e) /\ AfterPrompt(Parsed(mirror), f)
    BY <1>2, <2>1 DEF SecondTurn
  <2>3. ~Precedes(e, f) /\ ~Precedes(f, e)
    BY <1>1, <2>1, <2>2, AfterPromptStartsFirst
  <2> QED BY <1>1, <2>1, <2>3, Places
<1>3. CASE harness \in {"zcode", "cline"}
  <2> DEFINE rows == {x \in Holding(mirror, {"good"}) : x[1] \notin covered}
  <2>1. e = q /\ f = r /\ e \in rows /\ f \in rows
    BY <1>0, <1>3 DEF SecondCalls, SecondRows
  <2>2. Pending(mirror, rows, e) /\ Pending(mirror, rows, f)
    BY <1>3, <2>1 DEF SecondTurn
  <2> HIDE DEF rows
  <2>3. ~Precedes(e, f) /\ ~Precedes(f, e)
    BY <1>1, <2>1, <2>2, PendingStartsFirst
  <2> QED BY <1>1, <2>1, <2>3, Places
<1>4. CASE harness = "grok"
  <2>1. q \in Legacy /\ r \in Legacy /\ q.turn = TRUE /\ r.turn = TRUE
    BY <1>4 DEF SecondRows, SecondTurn
  <2>2. Ends(q, e) /\ Ends(r, f)
    BY <1>4, SecondFields DEF Ends, SecondCalls
  <2> QED BY <2>1, <2>2, LegacyTurnOnce
<1>5. CASE harness \in {"copilot", "hermes"}
  BY <1>5 DEF SecondTurn
<1> QED BY Ten, <1>2, <1>3, <1>4, <1>5 DEF PhaseInv, MayStartMore, EachIsATurn
-----------------------------------------------------------------------------
(***************************************************************************)
(* One turn a prompt.  OpenCode's stores have a session's entries in their *)
(* order: the mirror has all before what it has, and the database, of what *)
(* is known, all before what it has; its second table has the earlier.     *)
(***************************************************************************)
OrderInv ==
    /\ \A f \in Entries : Known(f) => f \in Given(harness)
    /\ \A e \in Entries, f \in Given(harness) : Known(e) /\ Precedes(f, e) => Known(f)
    /\ harness = "opencode" =>
        \A e, f \in Entries : Precedes(f, e) =>
            /\ mirror[e] # "none" => mirror[f] # "none"
            /\ Trusted(e) # "none" /\ Known(f) => Trusted(f) # "none"
            /\ sessionMessages[e] # "none" => db[f] = "none"

\* What a step of the harness does to what is there.
Grows ==
    \A e \in Entries :
        /\ Known(e) => Known(e)'
        /\ Trusted(e) # "none" => Trusted(e)' # "none"
        /\ sessionMessages[e] # "none" => sessionMessages'[e] # "none"

LEMMA OrderInit == Init => OrderInv
BY DEF Init, OrderInv, Known, Trusted, Empty

LEMMA OrderHarness ==
    ASSUME PhaseInv, StoreInv, OrderInv, Harness
    PROVE  OrderInv' /\ Grows
<1> USE DEF Store
<1>0. harness' = harness
  BY HarnessLeavesReader
<1>a. Given(harness) \subseteq Entries
  BY StoresAssumption DEF PhaseInv
\* One entry becomes known.
<1>b. ASSUME NEW e \in Entries, IsNext(e), \A f \in Entries : Known(f)' <=> Known(f) \/ f = e
      PROVE  /\ \A f \in Entries : Known(f)' => f \in Given(harness)
             /\ \A g \in Entries, f \in Given(harness) : Known(g)' /\ Precedes(f, g) => Known(f)'
             /\ \A g \in Entries : Precedes(e, g) => ~Known(g)
  BY <1>a, <1>b DEF OrderInv, IsNext
<1>1. ASSUME NEW e \in Entries, WriteMirror(e)
      PROVE  OrderInv' /\ Grows
  <2>1. PICK c \in CellsFor(e, MirrorCells) : mirror' = [mirror EXCEPT ![e] = c]
    BY <1>1 DEF WriteMirror
  <2>2. db' = db /\ sessionMessages' = sessionMessages /\ IsNext(e) /\ (Migrates => GoesOn(e))
    BY <1>1 DEF WriteMirror
  <2>3. c # "none"
    BY CellsKnown
  <2>4. \A f \in Entries : /\ Trusted(f)' = Trusted(f)
                           /\ mirror'[f] = IF f = e THEN c ELSE mirror[f]
    BY <2>1, <2>2 DEF Trusted, StoreInv
  <2>5. \A f \in Entries : Known(f)' <=> Known(f) \/ f = e
    BY <2>2, <2>3, <2>4 DEF Known
  <2>6. Grows
    BY <2>2, <2>4, <2>5 DEF Grows
  <2>7. ASSUME harness = "opencode", NEW g \in Entries, NEW f \in Entries, Precedes(f, g)
        PROVE  /\ mirror'[g] # "none" => mirror'[f] # "none"
               /\ Trusted(g)' # "none" /\ Known(f)' => Trusted(f)' # "none"
               /\ sessionMessages'[g] # "none" => db'[f] = "none"
    <3>1. mirror'[g] # "none" => mirror'[f] # "none"
      BY <2>2, <2>3, <2>4, <2>7 DEF OrderInv, GoesOn, Migrates
    <3>2. Trusted(g) # "none" => Known(g)
      BY DEF Trusted, Known
    <3>3. Trusted(g) # "none" => f # e
      BY <1>b, <2>2, <2>5, <2>7, <3>2
    <3> QED BY <2>2, <2>4, <2>5, <2>7, <3>1, <3>3 DEF OrderInv
  <2> QED BY <1>0, <1>b, <2>2, <2>5, <2>6, <2>7 DEF OrderInv
<1>2. ASSUME NEW e \in Entries, WriteDb(e)
      PROVE  OrderInv' /\ Grows
  <2>1. PICK c \in CellsFor(e, DbCells) :
            \/ /\ NotMovedTo(sessionMessages, e[1])
               /\ db' = [db EXCEPT ![e] = c]
               /\ UNCHANGED sessionMessages
            \/ /\ harness = "opencode" /\ NotMovedTo(db, e[1])
               /\ sessionMessages' = [sessionMessages EXCEPT ![e] = c]
               /\ UNCHANGED db
    BY <1>2 DEF WriteDb
  <2>2. mirror' = mirror /\ IsNext(e) /\ (Migrates => Migrated(e[1]))
    BY <1>2 DEF WriteDb
  <2>3. c # "none" /\ db[e] = "none" /\ sessionMessages[e] = "none"
    BY <2>2, CellsKnown DEF IsNext, Known
  <2>4. \A f \in Entries : Trusted(f)' = IF f = e THEN c ELSE Trusted(f)
    BY <2>1, <2>3 DEF Trusted, StoreInv
  <2>5. \A f \in Entries : Known(f)' <=> Known(f) \/ f = e
    BY <2>1, <2>2, <2>3 DEF Known, StoreInv
  <2>6. Grows
    BY <2>1, <2>3, <2>4, <2>5 DEF Grows, StoreInv
  <2>7. ASSUME harness = "opencode", NEW g \in Entries, NEW f \in Entries, Precedes(f, g)
        PROVE  /\ mirror'[g] # "none" => mirror'[f] # "none"
               /\ Trusted(g)' # "none" /\ Known(f)' => Trusted(f)' # "none"
               /\ sessionMessages'[g] # "none" => db'[f] = "none"
    <3>1. mirror'[g] # "none" => mirror'[f] # "none"
      BY <2>2, <2>7 DEF OrderInv
    <3>2. ASSUME Trusted(g)' # "none", Known(f)'
          PROVE  Trusted(f)' # "none"
      <4>1. CASE f = e
        BY <2>3, <2>4, <4>1
      <4>2. CASE f # e /\ g = e
        <5>1. Known(f) /\ f[1] = e[1]
          BY <2>5, <2>7, <3>2, <4>2 DEF Precedes, SameSession
        <5>2. Trusted(f) # "none"
          BY <2>2, <2>7, <5>1 DEF Migrated, Migrates, Known, Trusted
        <5> QED BY <2>4, <4>2, <5>2
      <4>3. CASE f # e /\ g # e
        BY <2>4, <2>5, <2>7, <3>2, <4>3 DEF OrderInv
      <4> QED BY <4>1, <4>2, <4>3
    <3>3. sessionMessages'[g] # "none" => db'[f] = "none"
      <4>1. g[1] = f[1]
        BY <2>7 DEF Precedes, SameSession
      <4>2. sessionMessages[g] # "none" => db[f] = "none"
        BY <2>7 DEF OrderInv
      <4> QED BY <2>1, <4>1, <4>2 DEF NotMovedTo, StoreInv
    <3> QED BY <3>1, <3>2, <3>3
  <2> QED BY <1>0, <1>b, <2>2, <2>5, <2>6, <2>7 DEF OrderInv
<1>3. ASSUME NEW e \in Entries, CopyToMirror(e)
      PROVE  OrderInv' /\ Grows
  <2>1. PICK c \in CellsFor(e, MirrorCells \ {"zero"}) : mirror' = [mirror EXCEPT ![e] = c]
    BY <1>3 DEF CopyToMirror
  <2>2. /\ db' = db /\ sessionMessages' = sessionMessages /\ Trusted(e) # "none"
        /\ Migrates => GoesOn(e)
    BY <1>3 DEF CopyToMirror
  <2>3. c # "none"
    BY CellsKnown
  <2>4. \A f \in Entries : /\ Trusted(f)' = Trusted(f)
                           /\ mirror'[f] = IF f = e THEN c ELSE mirror[f]
    BY <2>1, <2>2 DEF Trusted, StoreInv
  <2>5. \A f \in Entries : Known(f)' <=> Known(f)
    BY <2>2, <2>3, <2>4 DEF Known, Trusted
  <2>6. Grows
    BY <2>2, <2>4, <2>5 DEF Grows
  <2>7. ASSUME harness = "opencode", NEW g \in Entries, NEW f \in Entries, Precedes(f, g)
        PROVE  mirror'[g] # "none" => mirror'[f] # "none"
    BY <2>2, <2>3, <2>4, <2>7 DEF OrderInv, GoesOn, Migrates
  <2> QED BY <1>0, <1>a, <2>2, <2>4, <2>5, <2>6, <2>7 DEF OrderInv
<1>4. ASSUME NEW e \in Entries, Migrate(e)
      PROVE  OrderInv' /\ Grows
  <2>1. PICK c \in {mirror[e], "bad"} : db' = [db EXCEPT ![e] = c]
    BY <1>4 DEF Migrate
  <2>2. /\ mirror' = mirror /\ sessionMessages' = sessionMessages /\ mirror[e] # "none"
        /\ NotMovedTo(sessionMessages, e[1])
        /\ \A f \in Entries : Precedes(f, e) => Trusted(f) # "none"
    BY <1>4 DEF Migrate
  <2>3. c # "none" /\ db[e] = "none"
    BY <1>4, <2>1, <2>2 DEF Migrate, Trusted
  <2>4. \A f \in Entries : /\ Trusted(f)' = IF f = e THEN c ELSE Trusted(f)
                           /\ db'[f] = IF f = e THEN c ELSE db[f]
    BY <2>1, <2>2, <2>3 DEF Trusted, StoreInv
  <2>5. \A f \in Entries : Known(f)' <=> Known(f)
    BY <2>2, <2>3, <2>4 DEF Known
  <2>6. Grows
    BY <2>2, <2>3, <2>4, <2>5 DEF Grows
  <2>7. ASSUME harness = "opencode", NEW g \in Entries, NEW f \in Entries, Precedes(f, g)
        PROVE  /\ Trusted(g)' # "none" /\ Known(f)' => Trusted(f)' # "none"
               /\ sessionMessages'[g] # "none" => db'[f] = "none"
    <3>1. g[1] = f[1]
      BY <2>7 DEF Precedes, SameSession
    <3>2. sessionMessages'[g] # "none" => db'[f] = "none"
      BY <2>2, <2>4, <2>7, <3>1 DEF OrderInv, NotMovedTo
    <3>3. Trusted(g)' # "none" /\ Known(f)' => Trusted(f)' # "none"
      BY <2>2, <2>3, <2>4, <2>5, <2>7 DEF OrderInv
    <3> QED BY <3>2, <3>3
  <2> QED BY <1>0, <1>a, <2>2, <2>5, <2>6, <2>7 DEF OrderInv
<1>5. ASSUME NEW e \in Entries, MoveRow(e)
      PROVE  OrderInv' /\ Grows
  <2>1. /\ sessionMessages' = [sessionMessages EXCEPT ![e] = db[e]]
        /\ db' = [db EXCEPT ![e] = "none"]
        /\ mirror' = mirror /\ db[e] # "none"
        /\ \A f \in Entries : Precedes(f, e) => db[f] = "none"
    BY <1>5 DEF MoveRow
  <2>2. \A f \in Entries : /\ Trusted(f)' = Trusted(f)
                           /\ sessionMessages'[f] = IF f = e THEN db[e] ELSE sessionMessages[f]
                           /\ db'[f] = IF f = e THEN "none" ELSE db[f]
    BY <2>1 DEF Trusted, StoreInv
  <2>3. \A f \in Entries : Known(f)' <=> Known(f)
    BY <2>1, <2>2 DEF Known
  <2>4. Grows
    BY <2>1, <2>2, <2>3 DEF Grows
  <2>5. ASSUME harness = "opencode", NEW g \in Entries, NEW f \in Entries, Precedes(f, g)
        PROVE  sessionMessages'[g] # "none" => db'[f] = "none"
    BY <2>1, <2>2, <2>5 DEF OrderInv
  <2> QED BY <1>0, <1>a, <2>1, <2>2, <2>3, <2>4, <2>5 DEF OrderInv
<1>6. ASSUME NEW e \in Entries, Finish(e)
      PROVE  OrderInv' /\ Grows
  <2>1. \A f \in Entries : /\ db'[f] = "none" <=> db[f] = "none"
                           /\ sessionMessages'[f] = "none" <=> sessionMessages[f] = "none"
                           /\ mirror'[f] = "none" <=> mirror[f] = "none"
    BY <1>6 DEF Finish, StoreInv
  <2>2. \A f \in Entries : /\ Trusted(f)' = "none" <=> Trusted(f) = "none"
                           /\ Known(f)' <=> Known(f)
    BY <2>1 DEF Trusted, Known
  <2>3. Grows
    BY <2>1, <2>2 DEF Grows
  <2> QED BY <1>0, <1>a, <2>1, <2>2, <2>3 DEF OrderInv
<1>7. ASSUME NEW s \in Sessions, NEW t \in Titles, Rename(s, t)
      PROVE  OrderInv' /\ Grows
  BY <1>7 DEF Rename, OrderInv, Grows, Trusted, Known
<1>8. ASSUME NEW s \in Sessions, Signal(s)
      PROVE  OrderInv' /\ Grows
  BY <1>8 DEF Signal, OrderInv, Grows, Trusted, Known
<1> QED BY <1>1, <1>2, <1>3, <1>4, <1>5, <1>6, <1>7, <1>8 DEF Harness

\* What OpenCode's first table had when it was read is still in one of them,
\* and it had all that was known between two of its rows.
AheadSeen ==
    /\ \A e \in Entries : /\ messages[e] # "none" => Trusted(e) # "none"
                          /\ messages[e] \in {"zero", "good"} \/ messages[e] = "none"
                             \/ Trusted(e) = "bad"
    /\ \A e, f \in Entries :
            Precedes(f, e) /\ messages[e] # "none" /\ Known(f)
                => messages[f] # "none" \/ sessionMessages[f] # "none"
    /\ \A p, e, f \in Entries :
            /\ Precedes(p, f) /\ Precedes(f, e) /\ Known(f)
            /\ messages[p] # "none" /\ messages[e] # "none"
            => messages[f] # "none"

\* Of a session without unusable records the database is taken up to a call
\* that starts a turn, from its prompt on.
SeenInOrder ==
    /\ \A e \in covered : e \in Calls /\ Known(e)
    /\ \A v \in events : v.calls \subseteq covered
    /\ \A v \in events : \A e \in v.calls, f \in Calls :
            /\ v.turn /\ Precedes(f, e) /\ SamePrompt(e, f)
            /\ Known(f) /\ ~Damaged(f[1])
            => f \in covered

TurnOnce ==
    \A v, w \in events : \A e, f \in Calls :
        v.turn = TRUE /\ w.turn = TRUE /\ Ends(v, e) /\ Ends(w, f) /\ SamePrompt(e, f)
            => \/ v = w
               \/ MayStartMore
               \/ harness = "opencode" /\ Damaged(e[1])

TurnInv ==
    /\ CountInv /\ OrderInv
    /\ \A v \in events : v.calls \subseteq Calls /\ v.turn \in BOOLEAN
    /\ phase = "ahead" => messages = Empty
    /\ harness = "opencode" /\ phase \in {"db", "half"} => AheadSeen
    /\ harness = "opencode" /\ phase = "mirror" => SeenInOrder
    /\ TurnOnce

LEMMA TurnFacts == TurnInv => CountInv /\ PhaseInv /\ StoreInv /\ OrderInv /\ signals \subseteq Calls
BY DEF TurnInv, CountInv

\* The stores are as they were, and so is what is said of them.
LEMMA OrderIdle ==
    ASSUME OrderInv, UNCHANGED <<harness, stores>>
    PROVE  /\ OrderInv'
           /\ \A e : (Known(e)' <=> Known(e)) /\ Trusted(e)' = Trusted(e)
           /\ \A s : Damaged(s)' <=> Damaged(s)
BY DEF OrderInv, Known, Trusted, Damaged, stores

LEMMA CallsOnly ==
    ASSUME PhaseInv, signals \subseteq Calls
    PROVE  /\ \A M : \A r \in FirstRows(M) : FirstCalls(r) \subseteq Calls
           /\ \A F : \A r \in SecondRows(F) : SecondCalls(r) \subseteq Calls
<1>1. \A store, cells, s : Holding(store, cells) \subseteq Calls /\ InSession(Holding(store, cells), s) \subseteq Calls
  BY DEF Holding, InSession
<1>2. \A M : \A r \in FirstRows(M) : FirstCalls(r) \subseteq Calls
  BY Ten, <1>1 DEF PhaseInv, FirstRows, FirstCalls
<1>3. ASSUME NEW F, NEW r \in SecondRows(F)
      PROVE  SecondCalls(r) \subseteq Calls
  <2>1. CASE \/ harness \in {"reasonix", "hermes"}
             \/ harness = "devin" /\ ~quirk
    BY <1>1, <2>1 DEF SecondCalls
  <2>2. CASE harness = "grok"
    BY <2>2, LegacyCalls DEF SecondCalls, SecondRows
  <2>3. CASE ~(\/ harness \in {"reasonix", "hermes", "grok"}
               \/ harness = "devin" /\ ~quirk)
    <3>1. SecondCalls(r) = {r}
      BY <2>3 DEF SecondCalls
    <3>2. r \in Calls
      BY Ten, <1>1, <2>3 DEF PhaseInv, SecondRows
    <3> QED BY <3>1, <3>2
  <2> QED BY <2>1, <2>2, <2>3
<1> QED BY <1>2, <1>3

LEMMA TurnsAreFlags ==
    /\ \A M : \A r \in FirstRows(M) : FirstTurn(M, r) \in BOOLEAN
    /\ \A F : \A r \in SecondRows(F) : SecondTurn(r) \in BOOLEAN
<1>1. \A M, r : FirstTurn(M, r) \in BOOLEAN
  BY DEF FirstTurn, AfterPrompt, Earliest
<1>2. ASSUME NEW r \in Legacy
      PROVE  r.turn \in BOOLEAN
  <2>1. \A e : /\ (Marked(mirror, e) /\ Fresh(mirror, e)) \in BOOLEAN
               /\ Marked(mirror, e) \in BOOLEAN
    BY DEF Marked
  <2>2. CASE r \in UsageEvents(mirror)
    <3>1. PICK e \in UsageTold(mirror) :
            r = Event("mirror", e[1], Since(mirror, e), TRUE, Marked(mirror, e) /\ Fresh(mirror, e))
      BY <2>2, UsageShape
    <3>2. r.turn = (Marked(mirror, e) /\ Fresh(mirror, e))
      BY <3>1 DEF Event
    <3> QED BY <2>1, <3>2
  <2>3. CASE r \in FallbackEvents(mirror)
    <3>1. PICK e \in Told(mirror) :
            /\ Closing(mirror, e) /\ Unused(mirror, e)
            /\ r = Event("mirror", e[1], Risen(mirror, e), TRUE, Marked(mirror, e))
      BY <2>3, FallbackShape
    <3>2. r.turn = Marked(mirror, e)
      BY <3>1 DEF Event
    <3> QED BY <2>1, <3>2
  <2>4. CASE r \in SignalsEvents(mirror, signals, TurnCounted)
    BY <2>4, SignalsShape
  <2> QED BY <2>2, <2>3, <2>4 DEF Legacy, TurnCounted
<1>3. ASSUME NEW F, NEW r \in SecondRows(F)
      PROVE  SecondTurn(r) \in BOOLEAN
  <2>1. CASE harness = "grok"
    BY <1>2, <2>1 DEF SecondRows, SecondTurn
  <2>2. CASE harness # "grok"
    BY <2>2 DEF SecondTurn, AfterPrompt, Pending
  <2> QED BY <2>1, <2>2
<1> QED BY <1>1, <1>3

LEMMA TurnInit == Init => TurnInv
BY CountInit, OrderInit DEF Init, TurnInv, TurnOnce

\* A damaged session stays so.
LEMMA DamageStays ==
    ASSUME StoreInv, StoreInv', Keeps, NEW s, Damaged(s)
    PROVE  Damaged(s)'
<1>1. PICK e \in Calls : e[1] = s /\ "bad" \in {db[e], sessionMessages[e], mirror[e]}
  BY DEF Damaged
<1>2. e \in Entries
  BY <1>1, EntryOf
<1>3. CASE db[e] = "bad"
  <2>1. Trusted(e)' = "bad"
    BY <1>2, <1>3 DEF Keeps, Trusted, Final
  <2> QED BY <1>1, <2>1 DEF Damaged, Trusted
<1>4. CASE sessionMessages[e] = "bad" \/ mirror[e] = "bad"
  BY <1>1, <1>2, <1>4 DEF Keeps, Final, Damaged
<1> QED BY <1>1, <1>3, <1>4

LEMMA TurnHarness == TurnInv /\ Harness => TurnInv'
<1> SUFFICES ASSUME TurnInv, Harness PROVE TurnInv'
  OBVIOUS
<1>1. PhaseInv /\ StoreInv /\ OrderInv
  BY TurnFacts
<1>2. StoreInv' /\ Keeps /\ OrderInv' /\ Grows
  BY <1>1, StoreHarness, OrderHarness
<1>3. /\ harness' = harness /\ quirk' = quirk /\ phase' = phase /\ messages' = messages
      /\ covered' = covered /\ events' = events
  BY HarnessLeavesReader DEF reader
<1>4. CountInv'
  BY CountNext DEF Next, Harness, TurnInv
<1>5. \A s : ~Damaged(s)' => ~Damaged(s)
  BY <1>1, <1>2, DamageStays
<1>6. \A e, f \in Entries : Known(e) /\ Precedes(f, e) /\ Known(f)' => Known(f)
  BY <1>1, <1>2, <1>3 DEF OrderInv
<1>7. ASSUME harness = "opencode", phase \in {"db", "half"}
      PROVE  AheadSeen'
  <2>1. AheadSeen
    BY <1>7 DEF TurnInv
  <2>2. ASSUME NEW e \in Entries
        PROVE  /\ messages[e] # "none" => Trusted(e)' # "none"
               /\ \/ messages[e] \in {"zero", "good"} \/ messages[e] = "none"
                  \/ Trusted(e)' = "bad"
    BY <1>2, <2>1 DEF AheadSeen, Grows, Keeps, Final
  <2>3. ASSUME NEW e \in Entries, NEW f \in Entries,
               Precedes(f, e), messages[e] # "none", Known(f)'
        PROVE  Known(f)
    <3>1. Known(e)
      BY <2>1, <2>3 DEF AheadSeen, Trusted, Known
    <3> QED BY <1>6, <2>3, <3>1
  <2>4. ASSUME NEW e \in Entries, NEW f \in Entries,
               Precedes(f, e), messages[e] # "none", Known(f)'
        PROVE  messages[f] # "none" \/ sessionMessages'[f] # "none"
    BY <1>2, <2>1, <2>3, <2>4 DEF AheadSeen, Grows
  <2>5. ASSUME NEW q \in Entries, NEW e \in Entries, NEW f \in Entries, Precedes(q, f),
               Precedes(f, e), messages[q] # "none", messages[e] # "none", Known(f)'
        PROVE  messages[f] # "none"
    BY <2>1, <2>3, <2>5 DEF AheadSeen
  <2> QED BY <1>3, <2>2, <2>4, <2>5 DEF AheadSeen
<1>8. ASSUME harness = "opencode", phase = "mirror"
      PROVE  SeenInOrder'
  <2>1. SeenInOrder
    BY <1>8 DEF TurnInv
  <2>2. \A e \in covered : e \in Calls /\ Known(e)'
    BY <1>2, <2>1, EntryOf DEF SeenInOrder, Grows
  <2>3. ASSUME NEW v \in events, NEW e \in v.calls, NEW f \in Calls,
               v.turn, Precedes(f, e), SamePrompt(e, f), Known(f)', ~Damaged(f[1])'
        PROVE  f \in covered
    <3>1. e \in Entries /\ f \in Entries /\ Known(e)
      BY <2>1, EntryOf DEF SeenInOrder
    <3>2. Known(f) /\ ~Damaged(f[1])
      BY <1>5, <1>6, <2>3, <3>1
    <3> QED BY <2>1, <2>3, <3>2 DEF SeenInOrder
  <2> QED BY <1>3, <2>1, <2>2, <2>3 DEF SeenInOrder
<1>9. TurnOnce'
  <2>1. MayStartMore' <=> MayStartMore
    BY <1>3 DEF MayStartMore, EachIsATurn
  <2> QED BY <1>3, <1>5, <2>1 DEF TurnInv, TurnOnce
<1>10. \A v \in events : v.calls \subseteq Calls /\ v.turn \in BOOLEAN
  BY DEF TurnInv
<1>11. phase = "ahead" => messages = Empty
  BY DEF TurnInv
<1> QED BY <1>2, <1>3, <1>4, <1>7, <1>8, <1>9, <1>10, <1>11 DEF TurnInv

LEMMA TurnAhead == TurnInv /\ ReadAhead => TurnInv'
<1> SUFFICES ASSUME TurnInv, ReadAhead PROVE TurnInv'
  OBVIOUS
<1>1. /\ UNCHANGED <<harness, stores>> /\ harness' = harness
      /\ db' = db /\ sessionMessages' = sessionMessages /\ phase = "ahead" /\ phase' = "db"
      /\ events' = events
      /\ harness = "opencode" => messages' = db
  BY DEF ReadAhead, stores
<1>2. CountInv' /\ StoreInv /\ OrderInv /\ events = {}
  BY <1>1, CountAhead, TurnFacts DEF CountInv
<1>3. OrderInv' /\ \A e : (Known(e)' <=> Known(e)) /\ Trusted(e)' = Trusted(e)
  BY <1>1, <1>2, OrderIdle
<1>4. harness = "opencode" => AheadSeen'
  <2> SUFFICES ASSUME harness = "opencode" PROVE AheadSeen'
    OBVIOUS
  <2>1. \A e \in Entries : db[e] # "none" => Trusted(e) = db[e]
    BY DEF Trusted
  <2>2. \A e \in Entries : db[e] \in {"none", "zero", "good", "bad"}
    BY <1>2, <2>1 DEF StoreInv, Store, CellKinds
  <2>3. \A e, f \in Entries :
            Precedes(f, e) /\ db[e] # "none" /\ Known(f) => db[f] # "none" \/ sessionMessages[f] # "none"
    BY <1>2, <2>1 DEF OrderInv, Trusted
  <2>4. ASSUME NEW q \in Entries, NEW e \in Entries, NEW f \in Entries, Precedes(q, f),
               Precedes(f, e), db[q] # "none", db[e] # "none", Known(f)
        PROVE  db[f] # "none"
    BY <1>2, <2>3, <2>4 DEF OrderInv
  <2> QED BY <1>1, <1>3, <2>1, <2>2, <2>3, <2>4 DEF AheadSeen
<1> QED BY <1>1, <1>2, <1>3, <1>4 DEF TurnInv, TurnOnce

LEMMA TurnMissAhead == TurnInv /\ MissAhead => TurnInv'
<1> SUFFICES ASSUME TurnInv, MissAhead PROVE TurnInv'
  OBVIOUS
<1>1. /\ UNCHANGED <<harness, stores>> /\ harness' = harness
      /\ phase = "ahead" /\ phase' = "half" /\ events' = events /\ messages' = messages
  BY DEF MissAhead
<1>2. CountInv' /\ OrderInv' /\ events = {} /\ messages = Empty
  BY <1>1, CountAhead, TurnFacts, OrderIdle DEF TurnInv, CountInv
<1>3. AheadSeen'
  BY <1>1, <1>2 DEF AheadSeen, Empty
<1> QED BY <1>1, <1>2, <1>3 DEF TurnInv, TurnOnce

LEMMA TurnBegin == TurnInv /\ Begin => TurnInv'
<1> SUFFICES ASSUME TurnInv, Begin PROVE TurnInv'
  OBVIOUS
<1>1. /\ UNCHANGED <<harness, stores>> /\ harness' = harness /\ phase' \in {"ahead", "db"}
      /\ phase' = "ahead" <=> harness \in {"opencode", "devin", "jcode"}
      /\ events' = {} /\ messages' = Empty
  BY DEF Begin
<1>2. CountInv' /\ OrderInv' /\ Empty' = Empty
  BY <1>1, CountBegin, TurnFacts, OrderIdle DEF Empty
<1> QED BY <1>1, <1>2 DEF TurnInv, TurnOnce

\* The first store is read; OpenCode's second table has gone unread where M is
\* Empty.
LEMMA TurnFirst ==
    ASSUME TurnInv, CountInv', NEW M \in {sessionMessages, Empty}, phase \in {"db", "half"},
           UNCHANGED <<harness, quirk, stores, messages>>, phase' = "mirror",
           events' = DbReading(M).events, covered' = Covers(DbReading(M))
    PROVE  TurnInv'
<1>1. /\ UNCHANGED <<harness, stores>> /\ harness' = harness /\ quirk' = quirk
      /\ StoreInv /\ OrderInv /\ PhaseInv /\ signals \subseteq Calls
  BY TurnFacts
<1>2. /\ OrderInv' /\ \A e : Known(e)' <=> Known(e)
      /\ \A s : Damaged(s)' <=> Damaged(s)
  BY <1>1, OrderIdle
<1>3. events' = {FirstEvent(M, r) : r \in FirstRows(M)}
  BY <1>1, FirstForm DEF PhaseInv
<1>4. ASSUME harness = "opencode"
      PROVE  SeenInOrder'
  <2>1. Covers(DbReading(M)) = FirstRows(M)
    BY <1>1, <1>4, CoversForm DEF PhaseInv
  <2>2. FirstRows(M) = (Parsed(messages) \cup Parsed(M)) \cap Calls
    BY <1>4 DEF FirstRows
  <2>3. AheadSeen
    BY <1>4 DEF TurnInv
  <2>4. \A e \in Entries : e \in Parsed(Empty) => FALSE
    BY DEF Parsed, Empty
  <2>5. \A e \in FirstRows(M) : e \in Calls /\ e \in Entries /\ Known(e)
    BY <1>1, <2>2, <2>3, <2>4, EntryOf DEF AheadSeen, Parsed, StoreInv, Trusted, Known
  <2>6. \A r : FirstEvent(M, r).calls = {r} /\ FirstEvent(M, r).turn = FirstTurn(M, r)
    BY <1>4, FirstFields DEF FirstCalls
  <2>7. ASSUME NEW e \in FirstRows(M), FirstTurn(M, e), NEW f \in Calls,
               Precedes(f, e), SamePrompt(e, f), Known(f), ~Damaged(f[1])
        PROVE  f \in FirstRows(M)
    <3>1. e \in Entries /\ f \in Entries /\ e \in Calls
      BY <2>5, EntryOf
    <3>2. db[f] # "bad" /\ sessionMessages[f] # "bad"
      BY <2>7 DEF Damaged
    <3>3. messages[f] \in {"none", "zero", "good"}
      BY <2>3, <3>1, <3>2 DEF AheadSeen, Trusted
    <3>4. CASE M = sessionMessages
      <4>1. sessionMessages[f] \in {"none", "zero", "good"}
        BY <1>1, <1>4, <3>1, <3>2 DEF StoreInv, Store, CellKinds, Trusted
      <4>2. messages[f] # "none" \/ sessionMessages[f] # "none"
        <5>1. CASE e \in Parsed(messages)
          BY <2>3, <2>7, <3>1, <5>1 DEF AheadSeen, Parsed
        <5>2. CASE e \in Parsed(sessionMessages)
          <6>1. sessionMessages[e] # "none" /\ Trusted(e) # "none"
            BY <1>1, <3>1, <5>2 DEF Parsed, StoreInv, Trusted
          <6>2. db[f] = "none" /\ Trusted(f) # "none"
            BY <1>1, <1>4, <2>7, <3>1, <6>1 DEF OrderInv
          <6> QED BY <6>2 DEF Trusted
        <5> QED BY <2>2, <3>4, <5>1, <5>2
      <4> QED BY <2>2, <3>1, <3>3, <3>4, <4>1, <4>2 DEF Parsed
    <3>5. CASE M = Empty
      <4>1. e \in Parsed(messages)
        BY <2>2, <2>4, <3>1, <3>5
      <4>2. PICK p \in Prompts \cap (Parsed(messages) \cup Parsed(M)) :
                /\ Precedes(p, e)
                /\ ~ \E g \in Parsed(messages) \cup Parsed(M) : Precedes(p, g) /\ Precedes(g, e)
        BY <1>4, <2>7 DEF FirstTurn, AfterPrompt
      <4>3. p \in Prompts /\ p \in Entries /\ p \in Parsed(messages)
        BY <2>4, <3>5, <4>2 DEF Prompts
      <4>4. Precedes(p, f)
        BY <2>7, <3>1, <4>2, <4>3, PromptInSession, NoPromptBetween
      <4>5. messages[f] # "none"
        BY <2>3, <2>7, <3>1, <4>1, <4>3, <4>4 DEF AheadSeen, Parsed
      <4>6. f \in Parsed(messages)
        BY <3>1, <3>3, <4>5 DEF Parsed
      <4> QED BY <2>2, <4>6
    <3> QED BY <3>4, <3>5
  <2>8. \A v \in events' : v.calls \subseteq covered'
    BY <1>3, <2>1, <2>6
  <2>9. ASSUME NEW v \in events', NEW e \in v.calls, NEW f \in Calls,
               v.turn, Precedes(f, e), SamePrompt(e, f), Known(f)', ~Damaged(f[1])'
        PROVE  f \in covered'
    <3>1. PICK r \in FirstRows(M) : v = FirstEvent(M, r)
      BY <1>3
    <3>2. e = r /\ FirstTurn(M, e)
      BY <2>6, <2>9, <3>1
    <3> QED BY <1>2, <2>1, <2>7, <2>9, <3>2
  <2>10. \A e \in covered' : e \in Calls /\ Known(e)'
    BY <1>2, <2>1, <2>5
  <2> QED BY <2>8, <2>9, <2>10 DEF SeenInOrder
<1>5. ASSUME ~MayStartMore, NEW v \in events', NEW w \in events', v.turn = TRUE, w.turn = TRUE,
             NEW e \in Calls, NEW f \in Calls, Ends(v, e), Ends(w, f), SamePrompt(e, f)
      PROVE  v = w
  <2>1. PICK q \in FirstRows(M) : v = FirstEvent(M, q)
    BY <1>3
  <2>2. PICK r \in FirstRows(M) : w = FirstEvent(M, r)
    BY <1>3
  <2>3. /\ e \in FirstCalls(q) \cap Calls /\ f \in FirstCalls(r) \cap Calls
        /\ FirstTurn(M, q) /\ FirstTurn(M, r)
    BY <1>5, <2>1, <2>2, FirstFields DEF Ends
  <2> QED BY <1>1, <1>5, <2>1, <2>2, <2>3, FirstTurnOnce
<1>6. MayStartMore' <=> MayStartMore
  BY <1>1 DEF MayStartMore, EachIsATurn
<1>7. TurnOnce'
  BY <1>5, <1>6 DEF TurnOnce
<1>8. \A v \in events' : v.calls \subseteq Calls /\ v.turn \in BOOLEAN
  BY <1>1, <1>3, FirstFields, CallsOnly, TurnsAreFlags
<1> QED BY <1>1, <1>2, <1>4, <1>7, <1>8 DEF TurnInv

LEMMA TurnDb == TurnInv /\ (ReadDb \/ MissDb) => TurnInv'
<1> SUFFICES ASSUME TurnInv, ReadDb \/ MissDb PROVE TurnInv'
  OBVIOUS
<1>1. /\ UNCHANGED <<harness, quirk, stores, messages>> /\ harness' = harness
      /\ phase \in {"db", "half"} /\ phase' = "mirror" /\ CountInv'
  BY CountDb, TurnFacts DEF ReadDb, MissDb
<1>2. CASE ReadDb
  BY <1>1, <1>2, TurnFirst DEF ReadDb
<1>3. CASE MissDb /\ harness = "opencode"
  BY <1>1, <1>3, TurnFirst DEF MissDb, DbMissed
<1>4. CASE MissDb /\ harness # "opencode"
  <2>1. events' = {}
    BY <1>4 DEF MissDb, DbMissed, Reading
  <2>2. OrderInv'
    BY <1>1, TurnFacts, OrderIdle
  <2> QED BY <1>1, <1>4, <2>1, <2>2 DEF TurnInv, TurnOnce
<1> QED BY <1>2, <1>3, <1>4

\* A turn of the second store answers no prompt of one of the first.
LEMMA TurnsApart ==
    ASSUME TurnInv, phase = "mirror", ~MayStartMore, NEW F, NEW r \in SecondRows(F), SecondTurn(r),
           NEW v \in events, v.turn, NEW e \in v.calls \cap Calls, NEW f \in SecondCalls(r) \cap Calls,
           SamePrompt(e, f)
    PROVE  harness = "opencode" /\ Damaged(e[1])
<1>1. PhaseInv /\ StoreInv /\ OrderInv /\ signals \subseteq Calls /\ Shields(covered, e)
  BY TurnFacts DEF TurnInv, CountInv
<1>2. /\ e \in Entries /\ f \in Entries /\ e[1] = f[1]
      /\ SamePrompt(f, e) /\ (Precedes(e, f) \/ Precedes(f, e) \/ e = f)
  BY EntryOf, Places, PromptInSession DEF SameSession
<1>3. CASE harness = "opencode"
  <2> SUFFICES ASSUME ~Damaged(e[1]) PROVE FALSE
    BY <1>3
  <2>1. SeenInOrder /\ e \in covered
    BY <1>3 DEF TurnInv, SeenInOrder
  <2>2. f = r /\ f \in Parsed(mirror) /\ f \notin covered /\ AfterPrompt(Parsed(mirror), f)
    BY <1>3 DEF SecondCalls, SecondRows, SecondTurn
  <2>3. Known(f)
    BY <1>2, <2>2 DEF Parsed, Known
  <2>4. CASE Precedes(f, e)
    BY <1>2, <2>1, <2>2, <2>3, <2>4 DEF SeenInOrder
  <2>5. CASE Precedes(e, f)
    <3>1. mirror[e] # "none"
      BY <1>1, <1>2, <1>3, <2>2, <2>5 DEF OrderInv, Parsed
    <3>2. mirror[e] # "bad"
      BY DEF Damaged
    <3>3. mirror[e] \in CellKinds /\ mirror[e] \notin {"anon", "total", "fell", "unnamed"}
      BY <1>1, <1>2, <1>3 DEF StoreInv, Store
    <3>4. e \in Parsed(mirror)
      BY <1>2, <3>1, <3>2, <3>3 DEF Parsed, CellKinds
    <3> QED BY <2>2, <2>5, <3>4, AfterPromptStartsFirst
  <2> QED BY <1>2, <2>1, <2>2, <2>4, <2>5
<1>4. CASE harness \in {"zcode", "cline"}
  BY <1>1, <1>2, <1>4 DEF Shields, SecondRows, SecondCalls
<1>5. CASE harness = "grok"
  <2>1. r \in Legacy /\ r.sess \notin covered /\ f \in r.calls /\ e[1] \in covered
    BY <1>1, <1>5 DEF Shields, SecondRows, SecondCalls
  <2> QED BY <1>1, <1>2, <2>1, LegacyCalls
<1>6. CASE harness \in {"copilot", "hermes"}
  BY <1>6 DEF SecondTurn
<1> QED BY Ten, <1>1, <1>3, <1>4, <1>5, <1>6 DEF PhaseInv, MayStartMore, EachIsATurn

LEMMA TurnMirror == TurnInv /\ ReadMirror => TurnInv'
<1> SUFFICES ASSUME TurnInv, ReadMirror PROVE TurnInv'
  OBVIOUS
<1> DEFINE F == FilesAre
<1>1. /\ UNCHANGED <<harness, stores>> /\ harness' = harness /\ quirk' = quirk
      /\ phase = "mirror" /\ phase' = "done"
      /\ events' = events \cup MirrorReading(F).events
  BY DEF ReadMirror
<1>2. CountInv' /\ OrderInv' /\ PhaseInv /\ signals \subseteq Calls
      /\ \A s : Damaged(s)' <=> Damaged(s)
  BY <1>1, CountMirror, TurnFacts, OrderIdle
<1>3. events' = events \cup {SecondEvent(F, r) : r \in SecondRows(F)}
  BY <1>1, <1>2, SecondForm DEF PhaseInv
<1> HIDE DEF F
<1>4. ASSUME ~MayStartMore, NEW v \in events', NEW w \in events', v.turn = TRUE, w.turn = TRUE,
             NEW e \in Calls, NEW f \in Calls, Ends(v, e), Ends(w, f), SamePrompt(e, f)
      PROVE  v = w \/ (harness = "opencode" /\ Damaged(e[1]))
  <2>0. SamePrompt(f, e) /\ e[1] = f[1] /\ e \in v.calls /\ f \in w.calls
    BY <1>4, EntryOf, PromptInSession DEF SameSession, Ends
  <2>1. CASE v \in events /\ w \in events
    BY <1>4, <2>1 DEF TurnInv, TurnOnce
  <2>2. CASE v \in events /\ w \notin events
    <3>1. PICK r \in SecondRows(F) : w = SecondEvent(F, r)
      BY <1>3, <2>2
    <3>2. SecondTurn(r) /\ f \in SecondCalls(r) \cap Calls
      BY <1>4, <2>0, <3>1, SecondFields
    <3> QED BY <1>1, <1>4, <2>0, <2>2, <3>2, TurnsApart
  <2>3. CASE v \notin events /\ w \in events
    <3>1. PICK r \in SecondRows(F) : v = SecondEvent(F, r)
      BY <1>3, <2>3
    <3>2. SecondTurn(r) /\ e \in SecondCalls(r) \cap Calls
      BY <1>4, <2>0, <3>1, SecondFields
    <3> QED BY <1>1, <1>4, <2>0, <2>3, <3>2, TurnsApart
  <2>4. CASE v \notin events /\ w \notin events
    <3>1. PICK q \in SecondRows(F) : v = SecondEvent(F, q)
      BY <1>3, <2>4
    <3>2. PICK r \in SecondRows(F) : w = SecondEvent(F, r)
      BY <1>3, <2>4
    <3>3. SecondTurn(q) = TRUE /\ SecondTurn(r) = TRUE
      BY <1>4, <3>1, <3>2, SecondFields
    <3>4. Ends(SecondEvent(F, q), e) /\ Ends(SecondEvent(F, r), f)
      BY <1>4, <3>1, <3>2
    <3>5. q = r
      BY <1>2, <1>4, <3>3, <3>4, SecondTurnOnce
    <3> QED BY <3>1, <3>2, <3>5
  <2> QED BY <2>1, <2>2, <2>3, <2>4
<1>5. MayStartMore' <=> MayStartMore
  BY <1>1 DEF MayStartMore, EachIsATurn
<1>6. TurnOnce'
  BY <1>1, <1>2, <1>4, <1>5 DEF TurnOnce
<1>7. \A v \in events' : v.calls \subseteq Calls /\ v.turn \in BOOLEAN
  BY <1>2, <1>3, SecondFields, CallsOnly, TurnsAreFlags DEF TurnInv
<1> QED BY <1>1, <1>2, <1>6, <1>7 DEF TurnInv

LEMMA TurnMissMirror == TurnInv /\ MissMirror => TurnInv'
<1> SUFFICES ASSUME TurnInv, MissMirror PROVE TurnInv'
  OBVIOUS
<1>1. /\ UNCHANGED <<harness, stores>> /\ harness' = harness /\ quirk' = quirk
      /\ phase = "mirror" /\ phase' = "done" /\ events' = events
  BY DEF MissMirror
<1>2. CountInv' /\ OrderInv' /\ \A s : Damaged(s)' <=> Damaged(s)
  BY <1>1, CountMissMirror, TurnFacts, OrderIdle
<1>3. TurnOnce'
  BY <1>1, <1>2 DEF TurnInv, TurnOnce, MayStartMore, EachIsATurn
<1> QED BY <1>1, <1>2, <1>3 DEF TurnInv

LEMMA TurnNext == TurnInv /\ [Next]_vars => TurnInv'
<1> SUFFICES ASSUME TurnInv, [Next]_vars PROVE TurnInv'
  OBVIOUS
<1>1. CASE UNCHANGED vars
  <2>1. /\ UNCHANGED <<harness, stores>> /\ harness' = harness /\ quirk' = quirk /\ phase' = phase
        /\ messages' = messages /\ sessionMessages' = sessionMessages
        /\ covered' = covered /\ events' = events
    BY <1>1 DEF vars, stores, reader
  <2>2. CountInv'
    BY <1>1, CountNext, TurnFacts
  <2>3. OrderInv' /\ \A e : (Known(e)' <=> Known(e)) /\ Trusted(e)' = Trusted(e)
    BY <2>1, TurnFacts, OrderIdle
  <2>4. \A s : Damaged(s)' <=> Damaged(s)
    BY <2>1, TurnFacts, OrderIdle
  <2>5. (AheadSeen => AheadSeen') /\ (SeenInOrder => SeenInOrder')
    BY <2>1, <2>3, <2>4 DEF AheadSeen, SeenInOrder
  <2>6. TurnOnce => TurnOnce'
    BY <2>1, <2>4 DEF TurnOnce, MayStartMore, EachIsATurn
  <2> QED BY <2>1, <2>2, <2>3, <2>5, <2>6 DEF TurnInv, Empty
<1> QED BY <1>1, NextSplit, TurnHarness, TurnBegin, TurnAhead, TurnMissAhead, TurnDb, TurnMirror,
           TurnMissMirror

\* Whichever stores its calls are read from, and whatever the harness does in
\* between, a prompt starts at most one turn, with the exceptions named.
THEOREM PromptsStartOneTurn == Spec => []OneTurnAPrompt
<1>1. TurnInv => OneTurnAPrompt
  <2> SUFFICES ASSUME TurnInv, NEW p \in Prompts, ~MayStartMore,
                      ~(harness = "opencode" /\ Damaged(p[1]))
               PROVE  Cardinality(StartedBy(p)) <= 1
    BY DEF OneTurnAPrompt, MayStartMore
  <2>1. ASSUME NEW v \in StartedBy(p), NEW w \in StartedBy(p)
        PROVE  v = w
    <3>1. v \in events /\ w \in events /\ v.turn = TRUE /\ w.turn = TRUE
      BY DEF StartedBy, TurnInv
    <3>2. PICK e \in v.calls : /\ Prompted(e) # {} /\ PromptOf(e) = p
                               /\ \A f \in v.calls : ~Precedes(e, f)
      BY DEF StartedBy
    <3>3. PICK f \in w.calls : /\ Prompted(f) # {} /\ PromptOf(f) = p
                               /\ \A g \in w.calls : ~Precedes(f, g)
      BY DEF StartedBy
    <3>4. e \in Calls /\ f \in Calls /\ SamePrompt(e, f) /\ Ends(v, e) /\ Ends(w, f)
      BY <3>1, <3>2, <3>3 DEF TurnInv, SamePrompt, Ends
    <3>5. e[1] = p[1]
      BY <3>2, <3>4, EntryOf, PromptInSession
    <3> QED BY <3>1, <3>4, <3>5 DEF TurnInv, TurnOnce
  <2> QED BY <2>1, AtMostOne
<1> QED BY <1>1, TurnInit, TurnNext, PTL DEF Spec
=============================================================================
