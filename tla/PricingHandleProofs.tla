------------------------ MODULE PricingHandleProofs ------------------------
(***************************************************************************)
(* What the lock of the pricing object buys, for any number of threads,    *)
(* sources and native handles: memory safety of the native handles, no     *)
(* leak and a refresh spent once, whatever the clock does; fresh queries,  *)
(* none of them on a failed reload, and the promise of the abstract memo,  *)
(* while the clock is not set back.                                        *)
(***************************************************************************)
EXTENDS PricingHandle, SequenceTheorems, TLAPS

\* A thread is past its lock exactly while it owns the lock.
LockInv == \A t \in Threads : pc[t] # "idle" <=> mu = t

\* The object owns the one native handle that is live, and a closed object none.
OwnerInv ==
    /\ handle # Null => handle \in DOMAIN heap /\ heap[handle] = "live"
    /\ closed => handle = Null
    /\ \A h \in DOMAIN heap :
         heap[h] # "corrupt" /\ (heap[h] = "live" => handle = h)

\* The facades that clear the stamp never have one without a handle, nor after
\* a load that failed.
StampInv == ~KeepsStamp /\ loadedAt # Null => handle # Null /\ lastLoad.ok

\* Where in its operation a thread is tells what it knows about the object.
ProgressInv ==
    /\ instance = "absent" => ~closed
    /\ \A t \in Threads :
         /\ pc[t] \in {"loading", "building"} =>
              ~closed /\ (~KeepsStamp => loadedAt = Null)
         /\ pc[t] = "native" =>
              /\ using[t] = handle /\ handle # Null
              /\ ~KeepsStamp => lastLoad.ok

\* A reload asks for sources of the list, and has asked for all when it builds.
NextInv == \A t \in Threads : pc[t] = "loading" => next[t] \in Sources

IInv == TypeOK /\ NextInv /\ LockInv /\ OwnerInv /\ StampInv /\ ProgressInv

-----------------------------------------------------------------------------
(***************************************************************************)
(* Type correctness.                                                       *)
(***************************************************************************)

\* Freeing a handle changes what became of that handle and nothing else.
LEMMA FreedType ==
    ASSUME NEW pool \in Seq({"live", "freed", "corrupt"}),
           NEW h \in Nat \cup {Null}
    PROVE  /\ Freed(pool, h) \in Seq({"live", "freed", "corrupt"})
           /\ Len(Freed(pool, h)) = Len(pool)
<1>1. CASE h = Null
  BY <1>1 DEF Freed
<1>2. CASE h # Null
  <2>1. CASE h \in DOMAIN pool
    <3> DEFINE e == IF pool[h] = "live" THEN "freed" ELSE "corrupt"
    <3>1. h \in 1..Len(pool) /\ e \in {"live", "freed", "corrupt"}
      BY <2>1
    <3> HIDE DEF e
    <3>2. /\ [pool EXCEPT ![h] = e] \in Seq({"live", "freed", "corrupt"})
          /\ Len([pool EXCEPT ![h] = e]) = Len(pool)
      BY <3>1, ExceptSeq
    <3> QED  BY <1>2, <3>2 DEF Freed, e
  <2>2. CASE h \notin DOMAIN pool
    <3>1. Freed(pool, h) = pool
      BY <1>2, <2>2 DEF Freed
    <3> QED  BY <3>1
  <2> QED  BY <2>1, <2>2
<1> QED  BY <1>1, <1>2

LEMMA TypeInit == Init => TypeOK /\ NextInv
<1> SUFFICES ASSUME Init PROVE TypeOK /\ NextInv
  OBVIOUS
<1>1. heap \in Seq({"live", "freed", "corrupt"})
  BY DEF Init
<1>2. pendingRefresh \in BOOLEAN /\ closed \in BOOLEAN
  BY HandleAssumption DEF Init
<1>3. lastLoad \in [ok : BOOLEAN, at : Nat]
  BY DEF Init
<1>4. refreshing \in [Threads -> BOOLEAN]
  BY DEF Init
<1>5. refetches \in [Sources -> Nat] /\ refreshed \subseteq Sources
  BY DEF Init
<1>6. /\ pc \in [Threads -> {"idle", "entered", "loading", "building", "native"}]
      /\ next \in [Threads -> Nat] /\ checkedAt \in [Threads -> Nat]
      /\ using \in [Threads -> Nat \cup {Null}]
      /\ NextInv
  BY DEF Init, NextInv
<1> QED  BY <1>1, <1>2, <1>3, <1>4, <1>5, <1>6 DEF TypeOK, Init

LEMMA TypeStep ==
    ASSUME TypeOK, NextInv, [Next]_vars
    PROVE  TypeOK' /\ NextInv'
<1> USE HandleAssumption DEF TypeOK, NextInv, Goto, locals, history, object
<1>1. ASSUME NEW t \in Threads, New(t) \/ Query(t) PROVE TypeOK' /\ NextInv'
  BY <1>1 DEF New, Query, Lock
<1>2. ASSUME NEW t \in Threads, RefusedClosed(t) PROVE TypeOK' /\ NextInv'
  BY <1>2 DEF RefusedClosed, Leave
<1>3. ASSUME NEW t \in Threads, BeginLoad(t) PROVE TypeOK' /\ NextInv'
  <2>1. refreshing' \in [Threads -> BOOLEAN] /\ pendingRefresh' \in BOOLEAN
    BY <1>3 DEF BeginLoad
  <2>2. 1 \in Sources
    BY DEF Sources
  <2>3. loadedAt' \in Nat \cup {Null}
    BY <1>3 DEF BeginLoad
  <2> QED  BY <1>3, <2>1, <2>2, <2>3 DEF BeginLoad
<1>4. ASSUME NEW t \in Threads, UseFresh(t) PROVE TypeOK' /\ NextInv'
  BY <1>4 DEF UseFresh
<1>5. ASSUME NEW t \in Threads, SourceLoaded(t) PROVE TypeOK' /\ NextInv'
  <2>1. next[t] \in Sources
    BY <1>5 DEF SourceLoaded
  <2>2. refetches' \in [Sources -> Nat] /\ refreshed' \subseteq Sources
    <3>1. CASE RefreshesNext(t)
      <4>1. /\ refreshed' = refreshed \cup {next[t]}
            /\ refetches' = [refetches EXCEPT ![next[t]] = refetches[next[t]] + 1]
        BY <1>5, <3>1 DEF SourceLoaded
      <4>2. refetches[next[t]] \in Nat
        BY <2>1
      <4> QED  BY <2>1, <4>1, <4>2
    <3>2. CASE ~RefreshesNext(t)
      BY <1>5, <3>2 DEF SourceLoaded
    <3> QED  BY <3>1, <3>2
  <2>3. next[t] < NumSources => next[t] + 1 \in Sources
    BY <2>1 DEF Sources
  <2>4. NextInv'
    BY <1>5, <2>3 DEF SourceLoaded
  <2> QED  BY <1>5, <2>2, <2>4 DEF SourceLoaded
<1>6. ASSUME NEW t \in Threads, LoadFails(t) PROVE TypeOK' /\ NextInv'
  BY <1>6 DEF LoadFails, Leave
<1>7. ASSUME NEW t \in Threads, Swap(t) PROVE TypeOK' /\ NextInv'
  <2>1. heap' \in Seq({"live", "freed", "corrupt"}) /\ handle' \in Nat
    BY <1>7, FreedType DEF Swap
  <2>2. lastLoad' \in [ok : BOOLEAN, at : Nat]
    BY <1>7 DEF Swap
  <2>3. CASE instance = "absent"
    <3>1. Leave(t) /\ instance' = "open"
      BY <1>7, <2>3 DEF Swap
    <3>2. /\ mu' \in Threads \cup {Null}
          /\ next' \in [Threads -> Nat] /\ checkedAt' \in [Threads -> Nat]
          /\ using' \in [Threads -> Nat \cup {Null}]
      BY <3>1 DEF Leave
    <3>3. refreshing' \in [Threads -> BOOLEAN]
      BY <3>1 DEF Leave
    <3>4. /\ pc' \in [Threads -> {"idle", "entered", "loading", "building", "native"}]
          /\ NextInv'
      BY <3>1 DEF Leave
    <3> QED  BY <1>7, <2>1, <2>2, <3>1, <3>2, <3>3, <3>4 DEF Swap
  <2>4. CASE instance # "absent"
    <3>1. /\ UNCHANGED <<instance, mu, next, refreshing, checkedAt>>
          /\ using' = [using EXCEPT ![t] = handle']
      BY <1>7, <2>4 DEF Swap
    <3>2. using' \in [Threads -> Nat \cup {Null}]
      BY <2>1, <3>1
    <3>3. /\ pc' \in [Threads -> {"idle", "entered", "loading", "building", "native"}]
          /\ NextInv'
      BY <1>7, <2>4 DEF Swap
    <3> QED  BY <1>7, <2>1, <2>2, <3>1, <3>2, <3>3 DEF Swap
  <2> QED  BY <2>3, <2>4
<1>8. ASSUME NEW t \in Threads, NativeReturns(t) PROVE TypeOK' /\ NextInv'
  BY <1>8 DEF NativeReturns, Leave
<1>9. CASE Close
  BY <1>9, FreedType DEF Close
<1>10. CASE Tick
  BY <1>10 DEF Tick
<1>11. CASE UNCHANGED vars
  BY <1>11 DEF vars
<1> QED
  BY <1>1, <1>2, <1>3, <1>4, <1>5, <1>6, <1>7, <1>8, <1>9, <1>10, <1>11
  DEF Next, Inside

\* The types of the state hold for every instance.
THEOREM TypeCorrect == Spec => []TypeOK
<1>1. TypeOK /\ NextInv /\ [Next]_vars => TypeOK' /\ NextInv'
  BY TypeStep
<1> QED  BY <1>1, TypeInit, PTL DEF Spec

-----------------------------------------------------------------------------
(***************************************************************************)
(* The inductive invariant.  A thread that moves owns the lock, so every   *)
(* other thread is outside and knows nothing that could become stale.      *)
(***************************************************************************)

LEMMA LockStep ==
    ASSUME TypeOK, LockInv, [Next]_vars
    PROVE  LockInv'
<1> USE HandleAssumption DEF TypeOK, LockInv, Goto, locals, history, object
<1>1. ASSUME NEW t \in Threads, New(t) \/ Query(t) PROVE LockInv'
  BY <1>1 DEF New, Query, Lock
<1>2. ASSUME NEW t \in Threads,
             RefusedClosed(t) \/ LoadFails(t) \/ NativeReturns(t)
      PROVE  LockInv'
  <2>1. Leave(t) /\ pc[t] # "idle"
    BY <1>2 DEF RefusedClosed, LoadFails, NativeReturns
  <2> QED  BY <2>1 DEF Leave
<1>3. ASSUME NEW t \in Threads, BeginLoad(t) \/ UseFresh(t) \/ SourceLoaded(t)
      PROVE  LockInv'
  BY <1>3 DEF BeginLoad, UseFresh, SourceLoaded
<1>4. ASSUME NEW t \in Threads, Swap(t) PROVE LockInv'
  <2>1. CASE instance = "absent"
    <3>1. pc[t] = "building" /\ Leave(t)
      BY <1>4, <2>1 DEF Swap
    <3> QED  BY <3>1 DEF Leave
  <2>2. CASE instance # "absent"
    BY <1>4, <2>2 DEF Swap
  <2> QED  BY <2>1, <2>2
<1>5. CASE Close \/ Tick \/ UNCHANGED vars
  BY <1>5 DEF Close, Tick, vars
<1> QED  BY <1>1, <1>2, <1>3, <1>4, <1>5 DEF Next, Inside

\* Freeing the live handle leaves every handle freed, none of them twice.
LEMMA FreedOwner ==
    ASSUME TypeOK, OwnerInv
    PROVE  \A h \in 1..Len(heap) : Freed(heap, handle)[h] = "freed"
<1> SUFFICES ASSUME NEW h \in 1..Len(heap)
             PROVE  Freed(heap, handle)[h] = "freed"
  OBVIOUS
<1>1. heap[h] \in {"live", "freed"} /\ (heap[h] = "live" => handle = h)
  BY DEF TypeOK, OwnerInv
<1>2. CASE handle = Null
  BY <1>1, <1>2, HandleAssumption DEF Freed
<1>3. CASE handle # Null
  BY <1>1, <1>3 DEF Freed, OwnerInv, TypeOK
<1> QED  BY <1>2, <1>3

LEMMA OwnerStep ==
    ASSUME IInv, [Next]_vars
    PROVE  OwnerInv'
<1> USE HandleAssumption DEF IInv, locals, history
<1>1. ASSUME NEW t \in Threads, Swap(t) PROVE OwnerInv'
  <2>1. ~closed
    BY <1>1 DEF Swap, ProgressInv
  <2>2. /\ Freed(heap, handle) \in Seq({"live", "freed", "corrupt"})
        /\ Len(Freed(heap, handle)) = Len(heap)
    BY FreedType DEF TypeOK
  <2>3. /\ heap' = Append(Freed(heap, handle), "live")
        /\ handle' = Len(heap) + 1 /\ closed' = closed
    BY <1>1 DEF Swap
  <2>4. /\ DOMAIN heap' = 1..(Len(heap) + 1)
        /\ heap'[Len(heap) + 1] = "live"
        /\ \A h \in 1..Len(heap) : heap'[h] = "freed"
    BY <2>2, <2>3, FreedOwner
  <2> QED  BY <2>1, <2>3, <2>4 DEF OwnerInv, TypeOK
<1>2. CASE Close
  <2>1. /\ Freed(heap, handle) \in Seq({"live", "freed", "corrupt"})
        /\ Len(Freed(heap, handle)) = Len(heap)
    BY FreedType DEF TypeOK
  <2>2. heap' = Freed(heap, handle) /\ handle' = Null /\ closed' = TRUE
    BY <1>2 DEF Close
  <2>3. \A h \in DOMAIN heap' : heap'[h] = "freed"
    BY <2>1, <2>2, FreedOwner
  <2> QED  BY <2>2, <2>3 DEF OwnerInv
<1>3. ASSUME UNCHANGED <<heap, handle, closed>> PROVE OwnerInv'
  BY <1>3 DEF OwnerInv
<1>4. ASSUME NEW t \in Threads, \/ New(t) \/ Query(t) \/ RefusedClosed(t)
                                \/ BeginLoad(t) \/ UseFresh(t) \/ SourceLoaded(t)
                                \/ LoadFails(t) \/ NativeReturns(t)
      PROVE  UNCHANGED <<heap, handle, closed>>
  BY <1>4 DEF New, Query, Lock, RefusedClosed, BeginLoad, UseFresh,
              SourceLoaded, LoadFails, NativeReturns, object
<1>5. CASE Tick \/ UNCHANGED vars
  BY <1>3, <1>5 DEF Tick, vars, object
<1> QED  BY <1>1, <1>2, <1>3, <1>4, <1>5 DEF Next, Inside

LEMMA StampStep ==
    ASSUME IInv, [Next]_vars
    PROVE  StampInv'
<1> USE HandleAssumption DEF IInv, StampInv, locals, history, object
<1>1. ASSUME NEW t \in Threads, BeginLoad(t) PROVE StampInv'
  BY <1>1 DEF BeginLoad
<1>2. ASSUME NEW t \in Threads, LoadFails(t) PROVE StampInv'
  BY <1>2 DEF LoadFails, ProgressInv
<1>3. ASSUME NEW t \in Threads, Swap(t) PROVE StampInv'
  <2>1. handle' # Null
    BY <1>3 DEF Swap, TypeOK
  <2>2. lastLoad'.ok
    BY <1>3 DEF Swap
  <2> QED  BY <2>1, <2>2
<1>4. CASE Close
  BY <1>4 DEF Close
<1>5. ASSUME NEW t \in Threads, \/ New(t) \/ Query(t) \/ RefusedClosed(t)
                                \/ UseFresh(t) \/ SourceLoaded(t)
                                \/ NativeReturns(t)
      PROVE  StampInv'
  BY <1>5 DEF New, Query, Lock, RefusedClosed, UseFresh, SourceLoaded,
              NativeReturns
<1>6. CASE Tick \/ UNCHANGED vars
  BY <1>6 DEF Tick, vars
<1> QED  BY <1>1, <1>2, <1>3, <1>4, <1>5, <1>6 DEF Next, Inside

\* A thread that does not move was outside, and still is.
LEMMA ProgressStep ==
    ASSUME IInv, [Next]_vars
    PROVE  ProgressInv'
<1> USE HandleAssumption DEF IInv, TypeOK, Goto, locals, history, object
<1>1. ASSUME NEW t \in Threads, New(t) \/ Query(t) PROVE ProgressInv'
  BY <1>1 DEF New, Query, Lock, ProgressInv
<1>2. ASSUME NEW t \in Threads, RefusedClosed(t) \/ NativeReturns(t)
      PROVE  ProgressInv'
  <2>1. Leave(t) /\ UNCHANGED <<instance, object, history>>
    BY <1>2 DEF RefusedClosed, NativeReturns
  <2> QED  BY <2>1 DEF Leave, ProgressInv
<1>3. ASSUME NEW t \in Threads, BeginLoad(t) PROVE ProgressInv'
  BY <1>3 DEF BeginLoad, ProgressInv
<1>4. ASSUME NEW t \in Threads, UseFresh(t) PROVE ProgressInv'
  BY <1>4 DEF UseFresh, NeedsLoad, StampInv, ProgressInv
<1>5. ASSUME NEW t \in Threads, SourceLoaded(t) PROVE ProgressInv'
  BY <1>5 DEF SourceLoaded, ProgressInv
<1>6. ASSUME NEW t \in Threads, LoadFails(t) PROVE ProgressInv'
  BY <1>6 DEF LoadFails, Leave, LockInv, ProgressInv
<1>7. ASSUME NEW t \in Threads, Swap(t) PROVE ProgressInv'
  <2>1. \A u \in Threads \ {t} : pc[u] = "idle"
    BY <1>7 DEF Swap, LockInv
  <2>2. ~closed /\ closed' = closed /\ handle' # Null /\ lastLoad'.ok
    BY <1>7 DEF Swap, ProgressInv
  <2>3. \A u \in Threads \ {t} : pc'[u] = "idle"
    BY <1>7, <2>1 DEF Swap, Leave
  <2>4. \/ pc'[t] = "idle"
        \/ pc'[t] = "native" /\ using'[t] = handle'
    BY <1>7 DEF Swap, Leave
  <2> QED  BY <2>2, <2>3, <2>4 DEF ProgressInv
<1>8. CASE Close
  BY <1>8 DEF Close, LockInv, ProgressInv
<1>9. CASE Tick \/ UNCHANGED vars
  BY <1>9 DEF Tick, vars, ProgressInv
<1> QED  BY <1>1, <1>2, <1>3, <1>4, <1>5, <1>6, <1>7, <1>8, <1>9 DEF Next, Inside

LEMMA IInvCorrect == Spec => []IInv
<1>1. Init => IInv
  BY TypeInit, HandleAssumption
  DEF Init, IInv, LockInv, OwnerInv, StampInv, ProgressInv
<1>2. IInv /\ [Next]_vars => IInv'
  BY TypeStep, LockStep, OwnerStep, StampStep, ProgressStep DEF IInv
<1> QED  BY <1>1, <1>2, PTL DEF Spec

-----------------------------------------------------------------------------
(***************************************************************************)
(* The theorems.                                                           *)
(***************************************************************************)

\* For any number of callers, sources and reloads, no native handle is freed
\* twice or used after it is freed.
THEOREM MemoryIsSafe == Spec => []MemorySafe
<1>1. IInv => MemorySafe
  BY DEF IInv, OwnerInv, ProgressInv, MemorySafe, InNative
<1> QED  BY <1>1, IInvCorrect, PTL

\* Nor does one leak: the only live handle is the one the open object holds.
THEOREM NothingLeaks == Spec => []NoLeak
<1>1. IInv => NoLeak
  BY HandleAssumption DEF IInv, TypeOK, OwnerInv, NoLeak
<1> QED  BY <1>1, IInvCorrect, PTL

\* The facades that clear their stamp when a load starts never run a query on
\* a reload that failed, even if the clock is set back.
THEOREM FailuresNotServed ==
    ASSUME ~KeepsStamp
    PROVE  Spec => []FailureNotMemoized
<1>1. IInv => FailureNotMemoized
  BY DEF IInv, ProgressInv, FailureNotMemoized, InNative
<1> QED  BY <1>1, IInvCorrect, PTL

\* Close is terminal: whatever was under way, a closed object never builds or
\* holds a handle again.
THEOREM CloseIsTerminal == Spec => ClosedForGood
<1> DEFINE Stays == closed' /\ Len(heap') = Len(heap) /\ handle' = Null
<1>1. ASSUME IInv, closed, [Next]_vars PROVE Stays
  <2> USE DEF IInv, locals, history, object
  <2>1. handle = Null
    BY <1>1 DEF OwnerInv
  <2>2. ASSUME NEW t \in Threads, BeginLoad(t) PROVE Stays
    BY <2>1, <2>2, <1>1 DEF BeginLoad
  <2>3. ASSUME NEW t \in Threads, SourceLoaded(t) \/ LoadFails(t) \/ Swap(t)
        PROVE  Stays
    BY <2>3, <1>1 DEF SourceLoaded, LoadFails, Swap, ProgressInv
  <2>4. ASSUME NEW t \in Threads, \/ New(t) \/ Query(t) \/ RefusedClosed(t)
                                  \/ UseFresh(t) \/ NativeReturns(t)
        PROVE  Stays
    BY <2>1, <2>4, <1>1 DEF New, Query, Lock, RefusedClosed, UseFresh, NativeReturns
  <2>5. CASE Close
    BY <2>1, <2>5 DEF Close, Freed
  <2>6. CASE Tick \/ UNCHANGED vars
    BY <2>1, <2>6, <1>1 DEF Tick, vars
  <2> QED  BY <1>1, <2>2, <2>3, <2>4, <2>5, <2>6 DEF Next, Inside
<1>2. IInv /\ [Next]_vars => [closed => Stays]_vars
  BY <1>1
<1> QED  BY <1>2, IInvCorrect, PTL DEF Spec, ClosedForGood

-----------------------------------------------------------------------------
(***************************************************************************)
(* The refresh.  A thread that reloads has taken it; what is owed is       *)
(* pending or with that thread.                                            *)
(***************************************************************************)

Loads(t) == pc[t] \in {"loading", "building"}

RefreshInv ==
    /\ \A s \in Sources : refetches[s] = IF s \in refreshed THEN 1 ELSE 0
    /\ ~Refresh => /\ ~pendingRefresh /\ refreshed = {}
                   /\ \A t \in Threads : ~refreshing[t]
    /\ Refresh => \/ refreshed = Sources
                  \/ pendingRefresh
                  \/ \E t \in Threads : Loads(t) /\ refreshing[t]
    /\ instance = "open" /\ Refresh => refreshed = Sources
    /\ \A t \in Threads :
         /\ pc[t] = "loading" /\ refreshing[t] =>
              \A s \in Sources : s < next[t] => s \in refreshed
         /\ pc[t] = "building" /\ Refresh => refreshed = Sources
         /\ Loads(t) => ~pendingRefresh

\* The one thread inside is the one that moves.
LEMMA Alone ==
    ASSUME TypeOK, LockInv, NEW t \in Threads, Inside(t)
    PROVE  mu = t /\ \A u \in Threads : u # t => pc[u] = "idle"
<1>1. pc[t] # "idle"
  BY DEF Inside, RefusedClosed, BeginLoad, UseFresh, SourceLoaded, LoadFails,
         Swap, NativeReturns
<1> QED BY <1>1 DEF LockInv

LEMMA RefreshStep ==
    ASSUME IInv, RefreshInv, [Next]_vars
    PROVE  RefreshInv'
<1> USE HandleAssumption DEF IInv, TypeOK, Goto, locals, history, object
<1>1. ASSUME NEW t \in Threads, BeginLoad(t) PROVE RefreshInv'
  <2>1. \A u \in Threads : u # t => pc[u] = "idle"
    BY <1>1, Alone DEF Inside
  <2>2. /\ pc'[t] = "loading" /\ next'[t] = 1 /\ refreshing'[t] = pendingRefresh
        /\ pendingRefresh' = FALSE /\ pc[t] = "entered"
        /\ \A u \in Threads : u # t => pc'[u] = pc[u] /\ refreshing'[u] = refreshing[u]
        /\ UNCHANGED <<instance, refreshed, refetches>>
    BY <1>1 DEF BeginLoad
  <2>3. \A s \in Sources : ~(s < 1)
    BY DEF Sources
  <2>4. Refresh => refreshed' = Sources \/ (Loads(t)' /\ refreshing'[t])
    BY <2>1, <2>2 DEF RefreshInv, Loads
  <2> QED BY <2>1, <2>2, <2>3, <2>4 DEF RefreshInv, Loads
<1>2. ASSUME NEW t \in Threads, SourceLoaded(t) PROVE RefreshInv'
  <2>1. \A u \in Threads : u # t => pc[u] = "idle"
    BY <1>2, Alone DEF Inside
  <2>2. /\ pc[t] = "loading" /\ next[t] \in Sources /\ next'[t] = next[t] + 1
        /\ pc'[t] = IF next[t] < NumSources THEN "loading" ELSE "building"
        /\ \A u \in Threads : u # t => pc'[u] = "idle"
        /\ UNCHANGED <<instance, pendingRefresh, refreshing>>
    BY <1>2, <2>1 DEF SourceLoaded, NextInv
  <2>3. /\ refreshed \subseteq refreshed' /\ refreshed' \subseteq Sources
        /\ refreshing[t] => next[t] \in refreshed'
        /\ ~refreshing[t] => refreshed' = refreshed
    BY <1>2, <2>2 DEF SourceLoaded, RefreshesNext
  <2>4. \A s \in Sources : refetches'[s] = IF s \in refreshed' THEN 1 ELSE 0
    <3>1. CASE RefreshesNext(t)
      BY <1>2, <2>2, <3>1 DEF SourceLoaded, RefreshesNext, RefreshInv
    <3>2. CASE ~RefreshesNext(t)
      BY <1>2, <3>2 DEF SourceLoaded, RefreshInv
    <3> QED BY <3>1, <3>2
  <2>5. refreshing[t] => \A s \in Sources : s < next[t] + 1 => s \in refreshed'
    <3>1. refreshing[t] => \A s \in Sources : s < next[t] => s \in refreshed
      BY <2>2 DEF RefreshInv
    <3> QED BY <2>2, <2>3, <3>1 DEF Sources
  <2>6. Refresh => refreshed = Sources \/ refreshing[t]
    BY <2>1, <2>2 DEF RefreshInv, Loads
  <2>7. pc'[t] = "building" /\ Refresh => refreshed' = Sources
    <3>1. pc'[t] = "building" => \A s \in Sources : s < next[t] + 1
      BY <2>2 DEF Sources
    <3> QED BY <2>3, <2>5, <2>6, <3>1
  <2>8. Loads(t)' /\ ~pendingRefresh'
    BY <2>2 DEF RefreshInv, Loads
  <2>9. /\ ~Refresh => refreshed' = {}
        /\ Refresh => refreshed' = Sources \/ refreshing'[t]
        /\ instance = "open" /\ Refresh => refreshed' = Sources
    BY <2>2, <2>3, <2>6 DEF RefreshInv
  <2>10. ~Refresh => ~pendingRefresh' /\ \A u \in Threads : ~refreshing'[u]
    BY <2>2 DEF RefreshInv
  <2>11. ASSUME NEW u \in Threads
         PROVE  /\ pc'[u] = "loading" /\ refreshing'[u] =>
                     \A s \in Sources : s < next'[u] => s \in refreshed'
                /\ pc'[u] = "building" /\ Refresh => refreshed' = Sources
                /\ Loads(u)' => ~pendingRefresh'
    <3>1. CASE u = t
      BY <2>2, <2>5, <2>7, <2>8, <3>1
    <3>2. CASE u # t
      BY <2>2, <3>2 DEF Loads
    <3> QED BY <3>1, <3>2
  <2> QED BY <2>2, <2>4, <2>8, <2>9, <2>10, <2>11 DEF RefreshInv
<1>3. ASSUME NEW t \in Threads, LoadFails(t) PROVE RefreshInv'
  <2>1. \A u \in Threads : u # t => pc[u] = "idle"
    BY <1>3, Alone DEF Inside
  <2>2. /\ Loads(t) /\ pendingRefresh' = (refreshing[t] \/ pendingRefresh)
        /\ \A u \in Threads : pc'[u] = "idle"
        /\ \A u \in Threads : refreshing'[u] => refreshing[u]
        /\ UNCHANGED <<refreshed, refetches>>
        /\ instance' = "open" => instance = "open"
    BY <1>3, <2>1 DEF LoadFails, Leave, Loads
  <2>3. /\ Refresh => refreshed = Sources \/ pendingRefresh'
        /\ ~Refresh => ~pendingRefresh'
    BY <2>1, <2>2 DEF RefreshInv, Loads
  <2> QED BY <2>2, <2>3 DEF RefreshInv, Loads
<1>4. ASSUME NEW t \in Threads, Swap(t) PROVE RefreshInv'
  <2>1. \A u \in Threads : u # t => pc[u] = "idle"
    BY <1>4, Alone DEF Inside
  <2>2. /\ pc[t] = "building"
        /\ UNCHANGED <<refreshed, refetches, pendingRefresh>>
        /\ \A u \in Threads : pc'[u] \in {"idle", "native"}
        /\ \A u \in Threads : refreshing'[u] => refreshing[u]
    BY <1>4, <2>1 DEF Swap, Leave
  <2>3. Refresh => refreshed = Sources
    BY <2>2 DEF RefreshInv
  <2> QED BY <2>2, <2>3 DEF RefreshInv, Loads
<1>5. ASSUME UNCHANGED <<instance, refreshed, refetches, pendingRefresh>>,
             \A u \in Threads : refreshing'[u] => refreshing[u],
             \A u \in Threads : Loads(u)' \/ Loads(u) =>
                 pc'[u] = pc[u] /\ next'[u] = next[u] /\ refreshing'[u] = refreshing[u]
      PROVE  RefreshInv'
  BY <1>5 DEF RefreshInv, Loads
<1>6. ASSUME NEW t \in Threads, \/ New(t) \/ Query(t) \/ UseFresh(t)
                                \/ RefusedClosed(t) \/ NativeReturns(t)
      PROVE  RefreshInv'
  <2>1. CASE New(t) \/ Query(t)
    BY <1>5, <2>1 DEF New, Query, Lock, LockInv, Loads
  <2>2. CASE UseFresh(t)
    BY <1>5, <2>2 DEF UseFresh, Loads
  <2>3. CASE RefusedClosed(t) \/ NativeReturns(t)
    BY <1>5, <2>3 DEF RefusedClosed, NativeReturns, Leave, Loads
  <2> QED BY <1>6, <2>1, <2>2, <2>3
<1>7. CASE Close \/ Tick \/ UNCHANGED vars
  BY <1>5, <1>7 DEF Close, Tick, vars, Loads
<1> QED BY <1>1, <1>2, <1>3, <1>4, <1>6, <1>7 DEF Next, Inside

LEMMA RefreshCorrect == Spec => [](IInv /\ RefreshInv)
<1>1. Init => RefreshInv
  BY HandleAssumption DEF Init, RefreshInv, Loads
<1>2. IInv /\ RefreshInv /\ [Next]_vars => RefreshInv'
  BY RefreshStep
<1> QED BY <1>1, <1>2, IInvCorrect, PTL DEF Spec

\* An object that exists has asked every source exactly once to bypass its
\* cache, if it was told to, and it never asks again.
THEOREM RefreshIsSpentOnce == Spec => []RefreshExactlyOnce
<1>1. RefreshInv => RefreshExactlyOnce
  BY DEF RefreshInv, RefreshExactlyOnce
<1> QED BY <1>1, RefreshCorrect, PTL

-----------------------------------------------------------------------------
(***************************************************************************)
(* Freshness, where the clock is not set back.  A stamp beside a handle is *)
(* that of the last load, or was kept by one that failed: then it has      *)
(* expired, and a clock that only advances leaves it so.                   *)
(***************************************************************************)

FreshInv ==
    /\ instance = "absent" => handle = Null /\ loadedAt = Null /\ ~lastLoad.ok
    /\ handle # Null =>
         /\ KeepsStamp => loadedAt # Null
         /\ loadedAt # Null => \/ lastLoad.ok /\ lastLoad.at = loadedAt
                               \/ KeepsStamp /\ Expired
    /\ lastLoad.ok /\ ~closed =>
         \/ handle # Null /\ loadedAt = lastLoad.at
         \/ \E t \in Threads : Loads(t)
    /\ \A t \in Threads :
         /\ Loads(t) => /\ checkedAt[t] <= now
                        /\ KeepsStamp /\ handle # Null => Expired
         /\ pc[t] = "native" =>
              /\ lastLoad.ok
              /\ lastLoad.at >= checkedAt[t] \/ checkedAt[t] - lastLoad.at < Ttl

LEMMA FreshStep ==
    ASSUME ~ClockSteps, IInv, FreshInv, [Next]_vars
    PROVE  FreshInv'
<1> USE HandleAssumption DEF IInv, TypeOK, Goto, locals, history, object
<1>1. ASSUME NEW t \in Threads, BeginLoad(t) PROVE FreshInv'
  <2>1. \A u \in Threads : u # t => pc[u] = "idle"
    BY <1>1, Alone DEF Inside
  <2>2. /\ pc'[t] = "loading" /\ checkedAt'[t] = now
        /\ \A u \in Threads : u # t => pc'[u] = "idle"
        /\ loadedAt' = IF KeepsStamp THEN loadedAt ELSE Null
        /\ UNCHANGED <<now, instance, handle, closed, lastLoad>>
    BY <1>1, <2>1 DEF BeginLoad
  <2>3. KeepsStamp /\ handle # Null => Expired
    BY <1>1 DEF BeginLoad, FreshInv, NeedsLoad
  <2>4. KeepsStamp => (Expired' <=> Expired)
    BY <2>2 DEF Expired
  <2>5. Loads(t)'
    BY <2>2 DEF Loads
  <2>6. handle # Null => /\ KeepsStamp => loadedAt' # Null
                         /\ loadedAt' # Null => KeepsStamp /\ Expired'
    BY <2>2, <2>3, <2>4 DEF FreshInv
  <2>7. instance = "absent" => loadedAt' = Null /\ handle = Null /\ ~lastLoad.ok
    BY <2>2 DEF FreshInv
  <2>8. now <= now /\ \A u \in Threads : u # t => ~Loads(u)' /\ pc'[u] # "native"
    BY <2>2 DEF Loads
  <2> QED BY <2>2, <2>3, <2>4, <2>5, <2>6, <2>7, <2>8 DEF FreshInv
<1>2. ASSUME NEW t \in Threads, UseFresh(t) PROVE FreshInv'
  <2>1. \A u \in Threads : u # t => pc[u] = "idle"
    BY <1>2, Alone DEF Inside
  <2>2. /\ pc'[t] = "native" /\ pc[t] = "entered" /\ checkedAt'[t] = now
        /\ \A u \in Threads : u # t => pc'[u] = "idle"
        /\ UNCHANGED <<now, instance, handle, loadedAt, closed, lastLoad>>
    BY <1>2, <2>1 DEF UseFresh
  <2>3. handle # Null /\ loadedAt # Null /\ ~Expired
    BY <1>2 DEF UseFresh, NeedsLoad, StampInv, FreshInv
  <2>4. lastLoad.ok /\ lastLoad.at = loadedAt /\ now - lastLoad.at < Ttl
    <3>1. lastLoad.ok /\ lastLoad.at = loadedAt
      BY <2>3 DEF FreshInv
    <3>2. ~(now - loadedAt >= Ttl) /\ loadedAt \in Nat
      BY <2>3 DEF Expired
    <3> QED BY <3>1, <3>2
  <2>5. (Expired' <=> Expired)
    BY <2>2 DEF Expired
  <2> QED BY <2>1, <2>2, <2>3, <2>4, <2>5 DEF FreshInv, Loads
<1>3. ASSUME NEW t \in Threads, SourceLoaded(t) PROVE FreshInv'
  <2>1. \A u \in Threads : u # t => pc[u] = "idle"
    BY <1>3, Alone DEF Inside
  <2>2. /\ Loads(t) /\ Loads(t)' /\ pc'[t] # "native"
        /\ \A u \in Threads : u # t => pc'[u] = "idle"
        /\ UNCHANGED <<now, instance, handle, loadedAt, closed, lastLoad, checkedAt>>
    BY <1>3, <2>1 DEF SourceLoaded, Loads
  <2>3. (Expired' <=> Expired)
    BY <2>2 DEF Expired
  <2> QED BY <2>2, <2>3 DEF FreshInv, Loads
<1>4. ASSUME NEW t \in Threads, LoadFails(t) PROVE FreshInv'
  <2>1. \A u \in Threads : u # t => pc[u] = "idle"
    BY <1>4, Alone DEF Inside
  <2>2. /\ Loads(t) /\ ~lastLoad'.ok /\ instance' # "absent"
        /\ loadedAt' = IF handle = Null THEN Null ELSE loadedAt
        /\ \A u \in Threads : pc'[u] = "idle"
        /\ UNCHANGED <<now, handle, closed>>
    BY <1>4, <2>1 DEF LoadFails, Leave, Loads
  <2>3. handle # Null => (Expired' <=> Expired)
    BY <2>2 DEF Expired
  <2>4. ~KeepsStamp => loadedAt = Null
    BY <2>2 DEF ProgressInv, Loads
  <2>5. handle # Null => (KeepsStamp => loadedAt # Null /\ Expired')
    BY <2>2, <2>3 DEF FreshInv
  <2>6. \A u \in Threads : ~Loads(u)' /\ pc'[u] # "native"
    BY <2>2 DEF Loads
  <2> QED BY <2>2, <2>4, <2>5, <2>6 DEF FreshInv
<1>5. ASSUME NEW t \in Threads, Swap(t) PROVE FreshInv'
  <2>1. \A u \in Threads : u # t => pc[u] = "idle"
    BY <1>5, Alone DEF Inside
  <2>2. /\ Loads(t) /\ lastLoad'.ok /\ lastLoad'.at = now /\ loadedAt' = now
        /\ handle' # Null /\ now # Null /\ instance' # "absent"
        /\ \A u \in Threads : u # t => pc'[u] = "idle"
        /\ now' = now
    BY <1>5, <2>1 DEF Swap, Leave, Loads
  <2>3. pc'[t] = "idle" \/ (pc'[t] = "native" /\ checkedAt'[t] = checkedAt[t])
    BY <1>5 DEF Swap, Leave
  <2>4. now >= checkedAt[t]
    BY <2>2 DEF FreshInv
  <2> QED BY <2>2, <2>3, <2>4 DEF FreshInv, Loads
<1>6. ASSUME NEW t \in Threads, New(t) \/ Query(t) PROVE FreshInv'
  <2>1. /\ UNCHANGED <<now, instance, handle, loadedAt, closed, lastLoad, checkedAt>>
        /\ pc' = [pc EXCEPT ![t] = "entered"] /\ pc[t] = "idle"
    BY <1>6 DEF New, Query, Lock, LockInv
  <2>2. (Expired' <=> Expired)
    BY <2>1 DEF Expired
  <2>3. \A u \in Threads : (Loads(u)' <=> Loads(u)) /\ (pc'[u] = "native" => pc[u] = "native")
    BY <2>1 DEF Loads
  <2> QED BY <2>1, <2>2, <2>3 DEF FreshInv
<1>7. ASSUME NEW t \in Threads, RefusedClosed(t) \/ NativeReturns(t) PROVE FreshInv'
  <2>1. \A u \in Threads : u # t => pc[u] = "idle"
    BY <1>7, Alone DEF Inside
  <2>2. /\ UNCHANGED <<now, instance, handle, loadedAt, closed, lastLoad>>
        /\ ~Loads(t) /\ \A u \in Threads : pc'[u] = "idle"
    BY <1>7, <2>1 DEF RefusedClosed, NativeReturns, Leave, Loads
  <2>3. (Expired' <=> Expired)
    BY <2>2 DEF Expired
  <2> QED BY <2>1, <2>2, <2>3 DEF FreshInv, Loads
<1>8. CASE Close
  <2>1. /\ closed' /\ handle' = Null /\ instance' # "absent"
        /\ \A u \in Threads : pc[u] = "idle"
        /\ UNCHANGED <<now, pc, checkedAt, lastLoad>>
    BY <1>8 DEF Close, LockInv
  <2> QED BY <2>1 DEF FreshInv, Loads
<1>9. CASE Tick
  <2>1. /\ now' = now + 1
        /\ UNCHANGED <<instance, handle, loadedAt, closed, pc, checkedAt, lastLoad>>
    BY <1>9 DEF Tick
  <2>2. Expired => Expired'
    BY <2>1 DEF Expired
  <2>3. \A u \in Threads : Loads(u)' <=> Loads(u)
    BY <2>1 DEF Loads
  <2>4. \A u \in Threads : checkedAt[u] <= now => checkedAt[u] <= now'
    BY <2>1
  <2> QED BY <2>1, <2>2, <2>3, <2>4 DEF FreshInv
<1>10. CASE UNCHANGED vars
  BY <1>10 DEF vars, FreshInv, Loads, Expired
<1> QED
  BY <1>1, <1>2, <1>3, <1>4, <1>5, <1>6, <1>7, <1>8, <1>9, <1>10 DEF Next, Inside

LEMMA FreshCorrect ==
    ASSUME ~ClockSteps
    PROVE  Spec => [](IInv /\ FreshInv)
<1>1. Init => FreshInv
  BY HandleAssumption DEF Init, FreshInv, Loads, Expired
<1>2. IInv /\ FreshInv /\ [Next]_vars => FreshInv'
  BY FreshStep
<1> QED BY <1>1, <1>2, IInvCorrect, PTL DEF Spec

\* No query runs on catalogs that had expired at its freshness check, unless
\* the clock is set back.
THEOREM UsesAreFresh ==
    ASSUME ~ClockSteps
    PROVE  Spec => []FreshUse
<1>1. FreshInv => FreshUse
  BY DEF FreshInv, FreshUse, InNative
<1> QED BY <1>1, FreshCorrect, PTL

\* Without such a clock, the facades that keep the stamp of a failed reload do
\* not serve its handle either.
THEOREM FailuresNotServedByClock ==
    ASSUME ~ClockSteps
    PROVE  Spec => []FailureNotMemoized
<1>1. FreshInv => FailureNotMemoized
  BY DEF FreshInv, FailureNotMemoized, InNative
<1> QED BY <1>1, FreshCorrect, PTL

-----------------------------------------------------------------------------
(***************************************************************************)
(* The refinement.  Loads of the object are loads of the abstract memo;    *)
(* the lock, the close and the native calls are below it.                  *)
(***************************************************************************)
MemoPhase ==
    IF LoadInProgress THEN "loading" ELSE IF lastLoad.ok THEN "ready" ELSE "empty"

ReadyAt == IF lastLoad.ok /\ ~LoadInProgress THEN lastLoad.at ELSE 0

Owed == IF Refresh THEN Sources \ refreshed ELSE {}

\* A step that is not of a load, nor of time, does not show.
LEMMA Hidden ==
    ASSUME UNCHANGED <<now, lastLoad, refreshed>>, LoadInProgress' <=> LoadInProgress
    PROVE  UNCHANGED Memo!memoVars
BY DEF Memo!memoVars

LEMMA BeginMaps ==
    ASSUME IInv, FreshInv, NEW t \in Threads, BeginLoad(t)
    PROVE  Memo!Begin
<1> USE HandleAssumption
<1>1. \A u \in Threads : u # t => pc[u] = "idle"
  BY Alone DEF IInv, Inside
<1>2. ~LoadInProgress
  BY <1>1 DEF BeginLoad, LoadInProgress
<1>3. LoadInProgress'
  BY DEF BeginLoad, Goto, LoadInProgress, IInv, TypeOK
<1>4. UNCHANGED <<now, refreshed, lastLoad>>
  BY DEF BeginLoad, history
<1>5. lastLoad.ok => now - lastLoad.at >= Ttl
  <2> SUFFICES ASSUME lastLoad.ok PROVE now - lastLoad.at >= Ttl
    OBVIOUS
  <2>1. ~closed /\ NeedsLoad
    BY DEF BeginLoad, FreshInv
  <2>2. handle # Null /\ loadedAt = lastLoad.at
    BY <1>2, <2>1 DEF FreshInv, LoadInProgress, Loads
  <2>3. loadedAt # Null
    BY <2>2 DEF IInv, TypeOK
  <2> QED BY <2>1, <2>2, <2>3 DEF NeedsLoad, Expired
<1>6. /\ MemoPhase = IF lastLoad.ok THEN "ready" ELSE "empty"
      /\ ReadyAt = IF lastLoad.ok THEN lastLoad.at ELSE 0
      /\ MemoPhase' = "loading" /\ ReadyAt' = 0 /\ Owed' = Owed
  BY <1>2, <1>3, <1>4 DEF MemoPhase, ReadyAt, Owed
<1> QED BY <1>4, <1>5, <1>6 DEF Memo!Begin, MemoPhase, ReadyAt, Owed

LEMMA SourceMaps ==
    ASSUME IInv, RefreshInv, NEW t \in Threads, SourceLoaded(t)
    PROVE  Memo!Refetched \/ UNCHANGED Memo!memoVars
<1>1. LoadInProgress
  BY DEF SourceLoaded, LoadInProgress
<1>2. LoadInProgress'
  BY DEF SourceLoaded, Goto, LoadInProgress, IInv, TypeOK
<1>3. UNCHANGED <<now, lastLoad>> /\ next[t] \in Sources
  BY DEF SourceLoaded, IInv, NextInv
<1>4. CASE RefreshesNext(t)
  <2>1. refreshed' = refreshed \cup {next[t]} /\ next[t] \notin refreshed /\ Refresh
    BY <1>4 DEF SourceLoaded, RefreshesNext, RefreshInv
  <2>2. next[t] \in Owed /\ Owed' = Owed \ {next[t]}
    BY <1>3, <2>1 DEF Owed
  <2>3. MemoPhase = "loading" /\ MemoPhase' = "loading" /\ ReadyAt = 0 /\ ReadyAt' = 0
    BY <1>1, <1>2 DEF MemoPhase, ReadyAt
  <2> QED BY <1>3, <2>2, <2>3 DEF Memo!Refetched, MemoPhase, ReadyAt, Owed
<1>5. CASE ~RefreshesNext(t)
  BY <1>1, <1>2, <1>3, <1>5, Hidden DEF SourceLoaded
<1> QED BY <1>4, <1>5

LEMMA EndMaps ==
    ASSUME IInv, RefreshInv, NEW t \in Threads
    PROVE  /\ LoadFails(t) => Memo!Fail
           /\ Swap(t) => Memo!Complete
<1> USE HandleAssumption
<1>1. CASE LoadFails(t)
  <2>1. \A u \in Threads : u # t => pc[u] = "idle"
    BY <1>1, Alone DEF IInv, Inside
  <2>2. LoadInProgress /\ ~LoadInProgress'
    BY <1>1, <2>1 DEF LoadFails, Leave, Goto, LoadInProgress, IInv, TypeOK
  <2>3. UNCHANGED <<now, refreshed>> /\ ~lastLoad'.ok
    BY <1>1 DEF LoadFails
  <2>4. /\ MemoPhase = "loading" /\ MemoPhase' = "empty"
        /\ ReadyAt' = ReadyAt /\ Owed' = Owed
    BY <2>2, <2>3 DEF MemoPhase, ReadyAt, Owed
  <2> QED BY <1>1, <2>3, <2>4 DEF Memo!Fail, MemoPhase, ReadyAt, Owed, LoadFails, Swap
<1>2. CASE Swap(t)
  <2>1. \A u \in Threads : u # t => pc[u] = "idle"
    BY <1>2, Alone DEF IInv, Inside
  <2>2. LoadInProgress /\ ~LoadInProgress'
    BY <1>2, <2>1 DEF Swap, Leave, Goto, LoadInProgress, IInv, TypeOK
  <2>3. now' = now /\ lastLoad'.ok /\ lastLoad'.at = now
    BY <1>2 DEF Swap
  <2>4. Refresh => refreshed' = Sources
    BY <1>2 DEF Swap, RefreshInv
  <2>5. MemoPhase = "loading" /\ MemoPhase' = "ready" /\ ReadyAt' = now /\ Owed' = {}
    BY <2>2, <2>3, <2>4 DEF MemoPhase, ReadyAt, Owed
  <2>6. Memo!Complete
    BY <2>3, <2>5 DEF Memo!Complete, MemoPhase, ReadyAt, Owed
  <2>7. ~LoadFails(t)
    BY <1>2 DEF Swap, LoadFails, IInv, TypeOK
  <2> QED BY <2>6, <2>7
<1> QED BY <1>1, <1>2

LEMMA StepMaps ==
    ASSUME ~ClockSteps, IInv, RefreshInv, FreshInv, [Next]_vars
    PROVE  [Memo!Next]_(Memo!memoVars)
<1> USE DEF locals, history, object
<1>1. ASSUME NEW t \in Threads, \/ BeginLoad(t) \/ SourceLoaded(t)
                                \/ LoadFails(t) \/ Swap(t)
      PROVE  Memo!Next \/ UNCHANGED Memo!memoVars
  BY <1>1, BeginMaps, SourceMaps, EndMaps DEF Memo!Next
<1>2. ASSUME NEW t \in Threads, \/ New(t) \/ Query(t) \/ UseFresh(t)
                                \/ RefusedClosed(t) \/ NativeReturns(t)
      PROVE  UNCHANGED Memo!memoVars
  <2>1. UNCHANGED <<now, lastLoad, refreshed>>
    BY <1>2 DEF New, Query, Lock, UseFresh, RefusedClosed, NativeReturns
  <2>2. /\ pc[t] \notin {"loading", "building"}
        /\ pc'[t] \notin {"loading", "building"}
        /\ \A u \in Threads : u # t => pc'[u] = pc[u]
    <3>1. CASE New(t) \/ Query(t)
      BY <3>1, HandleAssumption DEF New, Query, Lock, Goto, IInv, TypeOK, LockInv
    <3>2. CASE UseFresh(t)
      BY <3>2 DEF UseFresh, Goto, IInv, TypeOK
    <3>3. CASE RefusedClosed(t) \/ NativeReturns(t)
      BY <3>3 DEF RefusedClosed, NativeReturns, Leave, Goto, IInv, TypeOK
    <3> QED BY <1>2, <3>1, <3>2, <3>3
  <2> QED BY <2>1, <2>2, Hidden DEF LoadInProgress
<1>3. CASE Close \/ UNCHANGED vars
  BY <1>3, Hidden DEF Close, vars, LoadInProgress
<1>4. CASE Tick
  <2>1. /\ now' = now + 1 /\ now < MaxTime
        /\ UNCHANGED <<pc, lastLoad, refreshed>>
    BY <1>4, HandleAssumption DEF Tick, IInv, TypeOK
  <2>2. Memo!Tick
    BY <2>1 DEF Memo!Tick, LoadInProgress
  <2> QED BY <2>2 DEF Memo!Next
<1> QED BY <1>1, <1>2, <1>3, <1>4 DEF Next, Inside

\* The object over the C ABI keeps the promise of the abstract memo, as the
\* promise-based loader does, unless the clock is set back.
THEOREM HandleImplementsMemo ==
    ASSUME ~ClockSteps
    PROVE  Spec => ImplementsMemo
<1>1. Init => Memo!Init
  BY DEF Init, Memo!Init, LoadInProgress
<1>2. IInv /\ RefreshInv /\ FreshInv /\ [Next]_vars => [Memo!Next]_(Memo!memoVars)
  BY StepMaps
<1> QED
  BY <1>1, <1>2, RefreshCorrect, FreshCorrect, PTL DEF Spec, ImplementsMemo, Memo!Spec
=============================================================================
