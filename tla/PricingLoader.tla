--------------------------- MODULE PricingLoader ---------------------------
(***************************************************************************)
(* The TypeScript facade's createPricing: two memoized promises, one for   *)
(* the catalogs and one for the native engine built from them, shared by   *)
(* any number of concurrent queries on one event loop.                     *)
(*                                                                         *)
(* JavaScript runs to completion, so an action is one job of the event     *)
(* loop: the synchronous prefix of a call, the continuation of an await,   *)
(* a .catch handler.  A promise is the index of its attempt in loads or    *)
(* engines; the reactions of one promise run in the order in which they    *)
(* were registered, and both .catch handlers are registered before anyone  *)
(* awaits, so an awaiting job sees a rejection only once it is "caught".   *)
(***************************************************************************)
EXTENDS Naturals, Sequences

CONSTANTS
    NumSources,     \* length of the sources list; a source is its position
    Ttl,            \* ttlMs, in ticks
    Refresh,        \* options.refresh
    Queries,        \* concurrent callers of the Pricing object
    Null,           \* JavaScript's null
    MaxLoads,       \* bound on load attempts
    MaxEngines,     \* bound on engine builds
    MaxTime         \* bound on the clock

ASSUME LoaderAssumption ==
    /\ NumSources \in Nat \ {0}
    /\ Ttl \in Nat
    /\ Refresh \in BOOLEAN
    /\ Null \notin Nat
    /\ MaxLoads \in Nat /\ MaxEngines \in Nat /\ MaxTime \in Nat

VARIABLES
    now,                \* Date.now()
    loads,              \* the async attempts of loadCatalogs, oldest first
    catalogsPromise,    \* the memoized attempt, or Null
    loadedAt,           \* completion time of the memoized attempt, or Null
    pendingRefresh,     \* the next load must bypass fresh disk caches
    refreshedSources,   \* sources whose refresh fetch completed
    engines,            \* the async attempts of buildEngine, oldest first
    enginePromise,      \* the memoized engine attempt, or Null
    engineSource,       \* the load the memoized engine was built from, or Null
    queries,            \* the callers
    refetches           \* history: refresh fetches completed, per source

memo == <<catalogsPromise, loadedAt, pendingRefresh>>
engineMemo == <<engines, enginePromise, engineSource>>
vars == <<now, loads, memo, refreshedSources, engineMemo, queries, refetches>>

Sources == 1..NumSources

\* An attempt of loadCatalogs: next is the source whose load it awaits.
Load == [status : {"running", "resolved", "rejected", "caught"},
         refreshing : BOOLEAN, next : Sources, doneAt : Nat]

\* An attempt of buildEngine: source is the load it awaits.
Engine == [status : {"awaiting", "built", "rejected", "caught"},
           source : Nat]

\* A caller: the engine it waits for or asks, and when it called.
Query == [phase : {"idle", "engine", "native", "answered", "failed"},
          engine : Nat, at : Nat]

Init ==
    /\ now = 0
    /\ loads = <<>>
    /\ catalogsPromise = Null
    /\ loadedAt = Null
    /\ pendingRefresh = Refresh
    /\ refreshedSources = {}
    /\ engines = <<>>
    /\ enginePromise = Null
    /\ engineSource = Null
    /\ queries = [q \in Queries |-> [phase |-> "idle", engine |-> 0, at |-> 0]]
    /\ refetches = [s \in Sources |-> 0]

-----------------------------------------------------------------------------
(***************************************************************************)
(* A query: the synchronous prefix runs buildEngine, which runs            *)
(* loadCatalogs, which runs a new attempt up to its first await.           *)
(***************************************************************************)

\* Mutation: a load that is exactly Ttl old still counts as fresh.
ExpiredLate == loadedAt # Null /\ now - loadedAt > Ttl

Expired == loadedAt # Null /\ now - loadedAt >= Ttl

StartsLoad == catalogsPromise = Null \/ Expired

NewLoad == [status |-> "running", refreshing |-> pendingRefresh,
            next |-> 1, doneAt |-> 0]

\* Mutation: the stamp of the expired load survives the start of the next one.
LoadCatalogsKeepingStamp ==
    IF StartsLoad
    THEN /\ Len(loads) < MaxLoads
         /\ loads' = Append(loads, NewLoad)
         /\ catalogsPromise' = Len(loads) + 1
         /\ pendingRefresh' = FALSE
         /\ UNCHANGED loadedAt
    ELSE UNCHANGED <<loads, memo>>

LoadCatalogs ==
    IF StartsLoad
    THEN /\ Len(loads) < MaxLoads
         /\ loads' = Append(loads, NewLoad)
         /\ catalogsPromise' = Len(loads) + 1
         /\ loadedAt' = Null
         /\ pendingRefresh' = FALSE
    ELSE UNCHANGED <<loads, memo>>

EngineReusable(load) == enginePromise # Null /\ engineSource = load

BuildEngine(load) ==
    IF EngineReusable(load)
    THEN UNCHANGED engineMemo
    ELSE /\ Len(engines) < MaxEngines
         /\ engines' = Append(engines, [status |-> "awaiting", source |-> load])
         /\ enginePromise' = Len(engines) + 1
         /\ engineSource' = load

Call(q) ==
    /\ queries[q].phase \in {"idle", "answered", "failed"}
    /\ LoadCatalogs
    /\ BuildEngine(catalogsPromise')
    /\ queries' = [queries EXCEPT ![q] =
                     [phase |-> "engine", engine |-> enginePromise', at |-> now]]
    /\ UNCHANGED <<now, refreshedSources, refetches>>

\* The await of the engine resumes: hand the query to the native thread pool,
\* which keeps its own reference to the engine, or fail.
EngineReady(q) ==
    /\ queries[q].phase = "engine"
    /\ engines[queries[q].engine].status = "built"
    /\ queries' = [queries EXCEPT ![q].phase = "native"]
    /\ UNCHANGED <<now, loads, memo, refreshedSources, engineMemo, refetches>>

EngineFailed(q) ==
    /\ queries[q].phase = "engine"
    /\ engines[queries[q].engine].status = "caught"
    /\ queries' = [queries EXCEPT ![q].phase = "failed"]
    /\ UNCHANGED <<now, loads, memo, refreshedSources, engineMemo, refetches>>

NativeAnswer(q) ==
    /\ queries[q].phase = "native"
    /\ queries' = [queries EXCEPT ![q].phase = "answered"]
    /\ UNCHANGED <<now, loads, memo, refreshedSources, engineMemo, refetches>>

-----------------------------------------------------------------------------
(***************************************************************************)
(* The load attempt: one source after another, each awaited.               *)
(***************************************************************************)

\* Mutation: a retry refreshes also the sources that were refreshed already.
RefreshesAgain(a) == loads[a].refreshing

\* The refresh flag given to the source the attempt awaits; refreshedSources
\* cannot change between the call of source.load and its return.
RefreshesNext(a) == loads[a].refreshing /\ loads[a].next \notin refreshedSources

SourceLoaded(a) ==
    /\ loads[a].status = "running"
    /\ IF RefreshesNext(a)
       THEN /\ refreshedSources' = refreshedSources \cup {loads[a].next}
            /\ refetches' = [refetches EXCEPT ![loads[a].next] = @ + 1]
       ELSE UNCHANGED <<refreshedSources, refetches>>
    /\ IF loads[a].next < NumSources
       THEN /\ loads' = [loads EXCEPT ![a].next = @ + 1]
            /\ UNCHANGED loadedAt
       ELSE /\ loads' = [loads EXCEPT ![a].status = "resolved", ![a].doneAt = now]
            /\ loadedAt' = now
    /\ UNCHANGED <<now, catalogsPromise, pendingRefresh, engineMemo, queries>>

SourceRejected(a) ==
    /\ loads[a].status = "running"
    /\ loads' = [loads EXCEPT ![a].status = "rejected"]
    /\ UNCHANGED <<now, memo, refreshedSources, engineMemo, queries, refetches>>

\* Mutation: the handler leaves the rejected attempt memoized.
LoadCaughtKept(a) ==
    /\ loads[a].status = "rejected"
    /\ loads' = [loads EXCEPT ![a].status = "caught"]
    /\ UNCHANGED <<now, memo, refreshedSources, engineMemo, queries, refetches>>

\* Mutation: the handler does not restore the refresh the attempt took.
LoadCaughtSpent(a) ==
    /\ loads[a].status = "rejected"
    /\ loads' = [loads EXCEPT ![a].status = "caught"]
    /\ catalogsPromise' = IF catalogsPromise = a THEN Null ELSE catalogsPromise
    /\ UNCHANGED <<now, loadedAt, pendingRefresh, refreshedSources, engineMemo,
                   queries, refetches>>

\* attempt.catch of loadCatalogs: forget the attempt, restore its refresh.
LoadCaught(a) ==
    /\ loads[a].status = "rejected"
    /\ loads' = [loads EXCEPT ![a].status = "caught"]
    /\ IF catalogsPromise = a
       THEN /\ catalogsPromise' = Null
            /\ pendingRefresh' = (loads[a].refreshing \/ pendingRefresh)
       ELSE UNCHANGED <<catalogsPromise, pendingRefresh>>
    /\ UNCHANGED <<now, loadedAt, refreshedSources, engineMemo, queries, refetches>>

-----------------------------------------------------------------------------
(***************************************************************************)
(* The engine attempt: awaits its catalogs, then constructs the native     *)
(* Pricing, whose constructor may throw.                                   *)
(***************************************************************************)

EngineBuilt(e) ==
    /\ engines[e].status = "awaiting"
    /\ loads[engines[e].source].status = "resolved"
    /\ engines' = [engines EXCEPT ![e].status = "built"]
    /\ UNCHANGED <<now, loads, memo, refreshedSources, enginePromise,
                   engineSource, queries, refetches>>

\* Mutation: only the constructor's error rejects the engine, not its load's.
EngineRejectedByNative(e) ==
    /\ engines[e].status = "awaiting"
    /\ loads[engines[e].source].status = "resolved"
    /\ engines' = [engines EXCEPT ![e].status = "rejected"]
    /\ UNCHANGED <<now, loads, memo, refreshedSources, enginePromise,
                   engineSource, queries, refetches>>

EngineRejected(e) ==
    /\ engines[e].status = "awaiting"
    /\ loads[engines[e].source].status \in {"resolved", "caught"}
    /\ engines' = [engines EXCEPT ![e].status = "rejected"]
    /\ UNCHANGED <<now, loads, memo, refreshedSources, enginePromise,
                   engineSource, queries, refetches>>

\* attempt.catch of buildEngine: forget the engine if it is still the memo.
EngineCaught(e) ==
    /\ engines[e].status = "rejected"
    /\ engines' = [engines EXCEPT ![e].status = "caught"]
    /\ IF enginePromise = e
       THEN enginePromise' = Null /\ engineSource' = Null
       ELSE UNCHANGED <<enginePromise, engineSource>>
    /\ UNCHANGED <<now, loads, memo, refreshedSources, queries, refetches>>

Tick ==
    /\ now < MaxTime
    /\ now' = now + 1
    /\ UNCHANGED <<loads, memo, refreshedSources, engineMemo, queries, refetches>>

LoadStep(a) ==
    /\ a \in DOMAIN loads
    /\ SourceLoaded(a) \/ SourceRejected(a) \/ LoadCaught(a)

EngineStep(e) ==
    /\ e \in DOMAIN engines
    /\ EngineBuilt(e) \/ EngineRejected(e) \/ EngineCaught(e)

QueryStep(q) == EngineReady(q) \/ EngineFailed(q) \/ NativeAnswer(q)

Next ==
    \/ \E q \in Queries : Call(q) \/ QueryStep(q)
    \/ \E a \in 1..MaxLoads : LoadStep(a)
    \/ \E e \in 1..MaxEngines : EngineStep(e)
    \/ Tick

Spec == Init /\ [][Next]_vars

(***************************************************************************)
(* Fairness: a job that is ready eventually runs, and a source.load that   *)
(* was called settles, because the default fetch aborts after              *)
(* FETCH_TIMEOUT_MS.  Nobody has to call, and time need not pass.          *)
(***************************************************************************)
Fairness ==
    /\ \A a \in 1..MaxLoads : WF_vars(LoadStep(a))
    /\ \A e \in 1..MaxEngines : WF_vars(EngineStep(e))
    /\ \A q \in Queries : WF_vars(QueryStep(q))

FairSpec == Spec /\ Fairness

-----------------------------------------------------------------------------
(***************************************************************************)
(* Properties.                                                             *)
(***************************************************************************)

Running(a) == loads[a].status = "running"

\* An in-flight load is always reused: however queries, expiries and failures
\* interleave, two loads never run at once, and the one that runs is the memo.
SingleFlight ==
    \A a \in DOMAIN loads : Running(a) => catalogsPromise = a

\* The one-shot refresh is neither lost nor repeated: across any number of
\* partial failures and retries no source completes its refresh fetch twice,
\* and by the time a load succeeds every source has completed it exactly once.
RefreshExactlyOnce ==
    /\ \A s \in Sources : refetches[s] <= 1
    /\ (\E a \in DOMAIN loads : loads[a].status = "resolved")
         => \A s \in Sources : refetches[s] = IF Refresh THEN 1 ELSE 0

Answered(q) == queries[q].phase = "answered"
SourceOf(q) == engines[queries[q].engine].source

\* No query is answered from catalogs whose memo had expired when it called:
\* the load it uses finished less than Ttl before the call, or after it.
FreshAnswer ==
    \A q \in Queries :
        Answered(q) => LET doneAt == loads[SourceOf(q)].doneAt
                       IN  doneAt >= queries[q].at \/ queries[q].at - doneAt < Ttl

\* No .catch handler is pending.
HandlersRan ==
    /\ \A a \in DOMAIN loads : loads[a].status # "rejected"
    /\ \A e \in DOMAIN engines : engines[e].status # "rejected"

\* A rejection is never memoized: a query that calls when the handlers of
\* earlier failures have run waits for an engine that has not failed, built
\* from a load that has not failed.
NoReplayedRejection ==
    [][\A q \in Queries :
         Call(q) /\ HandlersRan =>
           LET e == engines'[queries'[q].engine]
           IN  /\ e.status \in {"awaiting", "built"}
               /\ loads'[e.source].status \in {"running", "resolved"}]_vars

\* Every query settles, whatever the sources and the native constructor do.
QueriesSettle ==
    \A q \in Queries :
        queries[q].phase \in {"engine", "native"}
            ~> queries[q].phase \in {"answered", "failed"}

-----------------------------------------------------------------------------
(***************************************************************************)
(* The loader implements the abstract memo.  A rejected attempt counts as  *)
(* no catalogs from the moment it rejects.                                 *)
(***************************************************************************)
MemoStatus == IF catalogsPromise = Null THEN "none" ELSE loads[catalogsPromise].status

Memo == INSTANCE CatalogMemo WITH
    phase <- CASE MemoStatus = "running" -> "loading"
               [] MemoStatus = "resolved" -> "ready"
               [] OTHER -> "empty",
    readyAt <- IF loadedAt = Null THEN 0 ELSE loadedAt,
    owed <- IF Refresh THEN Sources \ refreshedSources ELSE {}

\* PricingLoader implements CatalogMemo: at most one load at a time, reuse for
\* strictly less than Ttl, failures forgotten, the refresh spent before ready.
ImplementsMemo == Memo!Spec
=============================================================================
