--------------------------- MODULE PricingHandle ---------------------------
(***************************************************************************)
(* The pricing object of the SDKs over the C ABI (Go, C#, Java, Swift; the *)
(* Python and Ruby facades have the same shape without a close).  One      *)
(* mutex is held across the freshness check, a reload with its network     *)
(* fetches, the swap of the native handle, the native call and Close.      *)
(*                                                                         *)
(* Native handles are allocated by ag_pricing_new and freed by             *)
(* ag_pricing_free; the heap records what became of each, so a double      *)
(* free, a use after free and a leak are states the model can reach.       *)
(***************************************************************************)
EXTENDS Naturals, Sequences

CONSTANTS
    NumSources,     \* length of the sources list; a source is its position
    Ttl,            \* the in-memory window, in ticks
    Refresh,        \* the one-shot refresh option
    Threads,        \* callers sharing the object
    Null,           \* a nil handle, stamp or lock owner
    KeepsStamp,     \* a failed reload keeps the old stamp (Java, Swift)
    ClockSteps,     \* the wall clock may be set back
    MaxHandles,     \* bound on native handles ever built
    MaxTime         \* bound on the clock

ASSUME HandleAssumption ==
    /\ NumSources \in Nat \ {0}
    /\ Ttl \in Nat /\ Refresh \in BOOLEAN
    /\ KeepsStamp \in BOOLEAN /\ ClockSteps \in BOOLEAN
    /\ Null \notin Nat /\ Null \notin Threads
    /\ MaxHandles \in Nat /\ MaxTime \in Nat

VARIABLES
    now,            \* the injectable clock, by default the wall clock
    instance,       \* "absent", "open", or "discarded" by a failed constructor
    mu,             \* owner of the mutex, or Null
    handle,         \* the native handle in use, or Null
    loadedAt,       \* when its catalogs were loaded, or Null
    closed,         \* the terminal close state
    pendingRefresh, \* the next load bypasses fresh disk caches
    refreshed,      \* sources whose refresh fetch completed
    heap,           \* every native handle ever allocated: live, freed, freed twice
    pc,             \* where each thread is in its operation
    next,           \* the source its reload is at
    refreshing,     \* the refresh flag its reload took
    using,          \* the handle of its native call, or Null
    checkedAt,      \* history: the time of its freshness check
    lastLoad,       \* history: how the last load ended, and when
    refetches       \* history: refresh fetches completed, per source

object == <<handle, loadedAt, closed, pendingRefresh, refreshed, heap>>
locals == <<next, refreshing, using, checkedAt>>
history == <<lastLoad, refetches>>
vars == <<now, instance, mu, object, pc, locals, history>>

Sources == 1..NumSources

TypeOK ==
    /\ now \in Nat
    /\ instance \in {"absent", "open", "discarded"}
    /\ mu \in Threads \cup {Null}
    /\ handle \in Nat \cup {Null}
    /\ loadedAt \in Nat \cup {Null}
    /\ closed \in BOOLEAN
    /\ pendingRefresh \in BOOLEAN
    /\ refreshed \subseteq Sources
    /\ heap \in Seq({"live", "freed", "corrupt"})
    /\ pc \in [Threads -> {"idle", "entered", "loading", "building", "native"}]
    /\ next \in [Threads -> Nat]
    /\ refreshing \in [Threads -> BOOLEAN]
    /\ using \in [Threads -> Nat \cup {Null}]
    /\ checkedAt \in [Threads -> Nat]
    /\ lastLoad \in [ok : BOOLEAN, at : Nat]
    /\ refetches \in [Sources -> Nat]

Init ==
    /\ now = 0
    /\ instance = "absent"
    /\ mu = Null
    /\ handle = Null
    /\ loadedAt = Null
    /\ closed = FALSE
    /\ pendingRefresh = Refresh
    /\ refreshed = {}
    /\ heap = <<>>
    /\ pc = [t \in Threads |-> "idle"]
    /\ next = [t \in Threads |-> 0]
    /\ refreshing = [t \in Threads |-> FALSE]
    /\ using = [t \in Threads |-> Null]
    /\ checkedAt = [t \in Threads |-> 0]
    /\ lastLoad = [ok |-> FALSE, at |-> 0]
    /\ refetches = [s \in Sources |-> 0]

-----------------------------------------------------------------------------
(***************************************************************************)
(* The lock.                                                               *)
(***************************************************************************)

Goto(t, place) == pc' = [pc EXCEPT ![t] = place]

Lock(t) ==
    /\ Len(heap) < MaxHandles
    /\ mu = Null
    /\ mu' = t
    /\ Goto(t, "entered")
    /\ UNCHANGED <<now, instance, object, locals, history>>

\* The constructor takes the lock of an object nobody else can see yet.
New(t) == instance = "absent" /\ Lock(t)

Query(t) == instance = "open" /\ Lock(t)

\* The deferred unlock: whatever the outcome, the caller leaves, and its
\* locals with it.
Leave(t) ==
    /\ mu' = Null
    /\ Goto(t, "idle")
    /\ next' = [next EXCEPT ![t] = 0]
    /\ refreshing' = [refreshing EXCEPT ![t] = FALSE]
    /\ using' = [using EXCEPT ![t] = Null]
    /\ checkedAt' = [checkedAt EXCEPT ![t] = 0]

\* free of one native handle; nil is ignored.
Freed(pool, h) ==
    IF h = Null THEN pool
    ELSE [pool EXCEPT ![h] = IF @ = "live" THEN "freed" ELSE "corrupt"]

-----------------------------------------------------------------------------
(***************************************************************************)
(* ensureFresh and load, with the lock held.  While the object is absent,  *)
(* the thread inside is its constructor.                                   *)
(***************************************************************************)

\* Mutation: catalogs exactly Ttl old still count as fresh.
ExpiredLate == loadedAt # Null /\ now - loadedAt > Ttl

Expired == loadedAt # Null /\ now - loadedAt >= Ttl

\* Mutation: every query reloads.
NeedsLoadAlways == TRUE

NeedsLoad == IF KeepsStamp THEN handle = Null \/ Expired
                           ELSE loadedAt = Null \/ Expired

\* A query on a closed object fails before it considers a reload.
RefusedClosed(t) ==
    /\ pc[t] = "entered" /\ instance = "open"
    /\ closed
    /\ Leave(t)
    /\ UNCHANGED <<now, instance, object, history>>

\* Mutation: the reload does not look at the close state.
BeginLoadReopening(t) ==
    /\ pc[t] = "entered"
    /\ instance = "absent" \/ NeedsLoad
    /\ Goto(t, "loading")
    /\ next' = [next EXCEPT ![t] = 1]
    /\ refreshing' = [refreshing EXCEPT ![t] = pendingRefresh]
    /\ checkedAt' = [checkedAt EXCEPT ![t] = now]
    /\ pendingRefresh' = FALSE
    /\ loadedAt' = IF KeepsStamp THEN loadedAt ELSE Null
    /\ UNCHANGED <<now, instance, mu, handle, closed, refreshed, heap, using,
                   history>>

\* load starts: the refresh is taken, and the stamp cleared by all but the
\* facades that keep it.
BeginLoad(t) ==
    /\ pc[t] = "entered"
    /\ instance = "absent" \/ (~closed /\ NeedsLoad)
    /\ Goto(t, "loading")
    /\ next' = [next EXCEPT ![t] = 1]
    /\ refreshing' = [refreshing EXCEPT ![t] = pendingRefresh]
    /\ checkedAt' = [checkedAt EXCEPT ![t] = now]
    /\ pendingRefresh' = FALSE
    /\ loadedAt' = IF KeepsStamp THEN loadedAt ELSE Null
    /\ UNCHANGED <<now, instance, mu, handle, closed, refreshed, heap, using,
                   history>>

UseFresh(t) ==
    /\ pc[t] = "entered" /\ instance = "open"
    /\ ~closed /\ ~NeedsLoad
    /\ Goto(t, "native")
    /\ using' = [using EXCEPT ![t] = handle]
    /\ checkedAt' = [checkedAt EXCEPT ![t] = now]
    /\ UNCHANGED <<now, instance, mu, object, next, refreshing, history>>

\* Mutation: the loop reads the pending flag, which the reload has cleared.
RefreshesPending(t) == pendingRefresh /\ next[t] \notin refreshed

RefreshesNext(t) == refreshing[t] /\ next[t] \notin refreshed

SourceLoaded(t) ==
    /\ pc[t] = "loading"
    /\ IF RefreshesNext(t)
       THEN /\ refreshed' = refreshed \cup {next[t]}
            /\ refetches' = [refetches EXCEPT ![next[t]] = @ + 1]
       ELSE UNCHANGED <<refreshed, refetches>>
    /\ next' = [next EXCEPT ![t] = @ + 1]
    /\ Goto(t, IF next[t] < NumSources THEN "loading" ELSE "building")
    /\ UNCHANGED <<now, instance, mu, handle, loadedAt, closed, pendingRefresh,
                   heap, refreshing, using, checkedAt, lastLoad>>

\* Mutation: the error path returns with the lock held.
LoadFailsLocked(t) ==
    /\ pc[t] \in {"loading", "building"}
    /\ pendingRefresh' = (refreshing[t] \/ pendingRefresh)
    /\ loadedAt' = IF handle = Null THEN Null ELSE loadedAt
    /\ instance' = IF instance = "absent" THEN "discarded" ELSE instance
    /\ lastLoad' = [ok |-> FALSE, at |-> 0]
    /\ Goto(t, "idle")
    /\ UNCHANGED <<now, mu, handle, closed, refreshed, heap, locals, refetches>>

\* Mutation: a failed reload counts as one.
LoadFailsStamping(t) ==
    /\ pc[t] \in {"loading", "building"}
    /\ pendingRefresh' = (refreshing[t] \/ pendingRefresh)
    /\ loadedAt' = IF handle = Null THEN Null ELSE now
    /\ instance' = IF instance = "absent" THEN "discarded" ELSE instance
    /\ lastLoad' = [ok |-> FALSE, at |-> 0]
    /\ Leave(t)
    /\ UNCHANGED <<now, handle, closed, refreshed, heap, refetches>>

\* A source fails, or ag_pricing_new rejects the options: the refresh is
\* restored and the error propagates; a failed constructor has no object.
LoadFails(t) ==
    /\ pc[t] \in {"loading", "building"}
    /\ pendingRefresh' = (refreshing[t] \/ pendingRefresh)
    /\ loadedAt' = IF handle = Null THEN Null ELSE loadedAt
    /\ instance' = IF instance = "absent" THEN "discarded" ELSE instance
    /\ lastLoad' = [ok |-> FALSE, at |-> 0]
    /\ Leave(t)
    /\ UNCHANGED <<now, handle, closed, refreshed, heap, refetches>>

\* Mutation: the handle that is replaced is not freed.
SwapLeaking(t) ==
    /\ pc[t] = "building"
    /\ heap' = Append(heap, "live")
    /\ handle' = Len(heap) + 1
    /\ loadedAt' = now
    /\ lastLoad' = [ok |-> TRUE, at |-> now]
    /\ IF instance = "absent"
       THEN instance' = "open" /\ Leave(t)
       ELSE /\ Goto(t, "native")
            /\ using' = [using EXCEPT ![t] = handle']
            /\ UNCHANGED <<instance, mu, next, refreshing, checkedAt>>
    /\ UNCHANGED <<now, closed, pendingRefresh, refreshed, refetches>>

\* ag_pricing_new succeeds: free the old handle, swap in the new one, stamp it.
Swap(t) ==
    /\ pc[t] = "building"
    /\ heap' = Append(Freed(heap, handle), "live")
    /\ handle' = Len(heap) + 1
    /\ loadedAt' = now
    /\ lastLoad' = [ok |-> TRUE, at |-> now]
    /\ IF instance = "absent"
       THEN instance' = "open" /\ Leave(t)
       ELSE /\ Goto(t, "native")
            /\ using' = [using EXCEPT ![t] = handle']
            /\ UNCHANGED <<instance, mu, next, refreshing, checkedAt>>
    /\ UNCHANGED <<now, closed, pendingRefresh, refreshed, refetches>>

-----------------------------------------------------------------------------
\* The native call returns, with an answer or an error, and the caller leaves.
NativeReturns(t) ==
    /\ pc[t] = "native"
    /\ Leave(t)
    /\ UNCHANGED <<now, instance, object, history>>

\* Mutation: the closed object keeps the handle it freed.
CloseKeepingHandle ==
    /\ instance = "open" /\ mu = Null
    /\ closed' = TRUE
    /\ heap' = Freed(heap, handle)
    /\ loadedAt' = IF KeepsStamp THEN loadedAt ELSE Null
    /\ UNCHANGED <<now, instance, mu, handle, pendingRefresh, refreshed, pc, locals,
                   history>>

\* Close has nothing to wait for between its lock and its unlock.
Close ==
    /\ instance = "open" /\ mu = Null
    /\ closed' = TRUE
    /\ heap' = Freed(heap, handle)
    /\ handle' = Null
    /\ loadedAt' = IF KeepsStamp THEN loadedAt ELSE Null
    /\ UNCHANGED <<now, instance, mu, pendingRefresh, refreshed, pc, locals, history>>

\* Time passes.  The default clock is the wall clock, which an operator or NTP
\* can also set back.
Tick ==
    /\ now' \in IF ClockSteps THEN 0..MaxTime ELSE {now + 1}
    /\ now' # now /\ now' <= MaxTime
    /\ UNCHANGED <<instance, mu, object, pc, locals, history>>

Inside(t) ==
    \/ RefusedClosed(t) \/ BeginLoad(t) \/ UseFresh(t)
    \/ SourceLoaded(t) \/ LoadFails(t) \/ Swap(t) \/ NativeReturns(t)

Next ==
    \/ \E t \in Threads : New(t) \/ Query(t) \/ Inside(t)
    \/ Close \/ Tick

Spec == Init /\ [][Next]_vars

(***************************************************************************)
(* Fairness: a thread that holds the lock keeps running, and the fetches   *)
(* of a reload return because each is bounded by the fetch timeout.  No    *)
(* thread has to call, and time need not pass.                             *)
(***************************************************************************)
FairSpec == Spec /\ \A t \in Threads : WF_vars(Inside(t))

-----------------------------------------------------------------------------
(***************************************************************************)
(* Properties.                                                             *)
(***************************************************************************)

InNative(t) == pc[t] = "native"

\* However queries, reloads and closes interleave, no native handle is freed
\* twice and no native call runs on a handle that has been freed.
MemorySafe ==
    /\ \A h \in DOMAIN heap : heap[h] # "corrupt"
    /\ \A t \in Threads :
         InNative(t) => using[t] \in DOMAIN heap
                        /\ heap[using[t]] = "live"

\* No native handle leaks: a live one is the one the object holds, so a reload
\* frees what it replaces and a closed object owns nothing.
NoLeak == \A h \in DOMAIN heap : heap[h] = "live" => handle = h /\ ~closed

\* Close is terminal: a closed object never builds or holds a handle again.
ClosedForGood ==
    [][closed => closed' /\ Len(heap') = Len(heap) /\ handle' = Null]_vars

\* A query never runs on catalogs that had expired at its freshness check.
\* (A clock that is set back makes ages meaningless: checked without steps.)
FreshUse ==
    \A t \in Threads :
        InNative(t) => \/ lastLoad.at >= checkedAt[t]
                       \/ checkedAt[t] - lastLoad.at < Ttl

\* A failed reload is not memoized: the query that runs next has reloaded, and
\* none runs on the handle the failed reload was to replace.
FailureNotMemoized == \A t \in Threads : InNative(t) => lastLoad.ok

\* An object that exists has spent its refresh: every source was asked exactly
\* once to bypass its cache, by the constructor, and none is asked again.
RefreshExactlyOnce ==
    instance = "open" =>
        \A s \in Sources : refetches[s] = IF Refresh THEN 1 ELSE 0

\* Every caller that gets the lock gives it back, on every error path.
LockReleased == mu # Null ~> mu = Null

-----------------------------------------------------------------------------
(***************************************************************************)
(* The object implements the abstract memo.                                *)
(***************************************************************************)
LoadInProgress == \E t \in Threads : pc[t] \in {"loading", "building"}

Memo == INSTANCE CatalogMemo WITH
    phase <- IF LoadInProgress THEN "loading"
             ELSE IF lastLoad.ok THEN "ready" ELSE "empty",
    readyAt <- IF lastLoad.ok /\ ~LoadInProgress THEN lastLoad.at ELSE 0,
    owed <- IF Refresh THEN Sources \ refreshed ELSE {}

\* PricingHandle implements CatalogMemo, like the promise-based loader does.
ImplementsMemo == Memo!Spec
=============================================================================
