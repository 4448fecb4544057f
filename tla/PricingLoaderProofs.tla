------------------------ MODULE PricingLoaderProofs ------------------------
(***************************************************************************)
(* Proofs about PricingLoader, for any number of callers, sources, loads   *)
(* and engines: loads never overlap, the refresh is spent once, answers    *)
(* are fresh, no rejection is replayed, and the loader implements the      *)
(* abstract memo.                                                          *)
(*                                                                         *)
(* The invariant ties the memo to its attempt: an attempt that runs, or    *)
(* whose rejection was not caught yet, is the memo, and there is a stamp   *)
(* exactly when the memo is resolved (MemoInv); the refresh that is not    *)
(* spent is pending or with the memo (RefreshInv); an engine that is built *)
(* has a resolved load (EngineInv); the load that a query will be answered *)
(* from is fresh for it if it is resolved (QueryInv).                      *)
(***************************************************************************)
EXTENDS PricingLoader, TLAPS

TypeOK ==
    /\ now \in Nat
    /\ loads \in Seq(Load)
    /\ catalogsPromise \in (1..Len(loads)) \cup {Null}
    /\ loadedAt \in Nat \cup {Null}
    /\ pendingRefresh \in BOOLEAN
    /\ refreshedSources \in SUBSET Sources
    /\ engines \in Seq(Engine)
    /\ enginePromise \in (1..Len(engines)) \cup {Null}
    /\ engineSource \in (1..Len(loads)) \cup {Null}
    /\ queries \in [Queries -> Query]
    /\ refetches \in [Sources -> Nat]

MemoInv ==
    /\ \A a \in 1..Len(loads) :
            loads[a].status \in {"running", "rejected"} => catalogsPromise = a
    /\ catalogsPromise # Null => loads[catalogsPromise].status # "caught"
    /\ loadedAt # Null <=>
            catalogsPromise # Null /\ loads[catalogsPromise].status = "resolved"
    /\ loadedAt # Null => loadedAt = loads[catalogsPromise].doneAt

\* The refresh that is owed is pending, or with the attempt in the memo.
Owing ==
    IF catalogsPromise = Null THEN pendingRefresh
    ELSE loads[catalogsPromise].refreshing /\ loads[catalogsPromise].status # "resolved"

RefreshInv ==
    /\ \A s \in Sources : refetches[s] = IF s \in refreshedSources THEN 1 ELSE 0
    /\ ~Refresh => /\ ~pendingRefresh /\ refreshedSources = {}
                   /\ \A a \in 1..Len(loads) : ~loads[a].refreshing
    /\ Refresh => refreshedSources = Sources \/ Owing
    /\ \A a \in 1..Len(loads) :
            /\ loads[a].status = "running" /\ loads[a].refreshing
                    => \A s \in Sources : s < loads[a].next => s \in refreshedSources
            /\ loads[a].status = "resolved" /\ Refresh => refreshedSources = Sources

EngineInv ==
    /\ \A e \in 1..Len(engines) :
            /\ engines[e].source \in 1..Len(loads)
            /\ engines[e].status = "built" => loads[engines[e].source].status = "resolved"
    /\ enginePromise # Null => /\ engines[enginePromise].status # "caught"
                               /\ engines[enginePromise].source = engineSource

\* A load is fresh for a query that called at time at.
FreshFor(load, at) == load.doneAt >= at \/ at - load.doneAt < Ttl

QueryInv ==
    \A q \in Queries :
        queries[q].phase # "idle" =>
            /\ queries[q].engine \in 1..Len(engines)
            /\ queries[q].at <= now
            /\ loads[SourceOf(q)].status = "resolved" => FreshFor(loads[SourceOf(q)], queries[q].at)
            /\ queries[q].phase \in {"native", "answered"}
                    => engines[queries[q].engine].status = "built"

Inv == TypeOK /\ MemoInv /\ RefreshInv /\ EngineInv /\ QueryInv

-----------------------------------------------------------------------------
LEMMA InitInv == Init => Inv
<1> SUFFICES ASSUME Init PROVE Inv
  OBVIOUS
<1>1. TypeOK
  BY LoaderAssumption DEF Init, TypeOK, Query
<1>2. MemoInv /\ EngineInv /\ QueryInv
  BY DEF Init, MemoInv, EngineInv, QueryInv
<1>3. RefreshInv
  BY LoaderAssumption DEF Init, RefreshInv, Owing
<1> QED BY <1>1, <1>2, <1>3 DEF Inv

\* A step of one load attempt: what it keeps whatever else it does.
LEMMA LoadsKept ==
    ASSUME Inv, NEW a \in 1..Len(loads),
           loads' = [b \in DOMAIN loads |-> loads'[b]], loads'[a] \in Load,
           \A b \in 1..Len(loads) : b # a => loads'[b] = loads[b],
           UNCHANGED <<engineMemo, queries>>, now' = now,
           loads[a].status = "resolved" => loads'[a] = loads[a],
           loads'[a].status = "resolved" => loads'[a].doneAt >= now
    PROVE  /\ loads' \in Seq(Load) /\ Len(loads') = Len(loads)
           /\ EngineInv' /\ QueryInv'
<1>1. loads \in Seq(Load)
  BY DEF Inv, TypeOK
<1>2. loads' \in Seq(Load) /\ Len(loads') = Len(loads)
  <2>1. \A b \in 1..Len(loads) : loads'[b] \in Load
    BY <1>1
  <2>2. DOMAIN loads = 1..Len(loads)
    BY <1>1
  <2>3. loads' = [b \in 1..Len(loads) |-> loads'[b]]
    BY <2>2
  <2> QED BY <1>1, <2>1, <2>3
<1>3. UNCHANGED <<engines, enginePromise, engineSource, queries>>
  BY DEF engineMemo
<1>4. EngineInv'
  BY <1>2, <1>3 DEF Inv, EngineInv
<1>5. QueryInv'
  <2> SUFFICES ASSUME NEW q \in Queries, queries[q].phase # "idle"
               PROVE  /\ queries[q].engine \in 1..Len(engines)
                      /\ queries[q].at <= now
                      /\ loads'[SourceOf(q)].status = "resolved"
                            => FreshFor(loads'[SourceOf(q)], queries[q].at)
                      /\ queries[q].phase \in {"native", "answered"}
                            => engines[queries[q].engine].status = "built"
    BY <1>3 DEF QueryInv, SourceOf
  <2>1. /\ queries[q].engine \in 1..Len(engines)
        /\ queries[q].at <= now /\ queries[q].at \in Nat /\ now \in Nat
        /\ loads[SourceOf(q)].status = "resolved" => FreshFor(loads[SourceOf(q)], queries[q].at)
        /\ queries[q].phase \in {"native", "answered"}
              => engines[queries[q].engine].status = "built"
    BY DEF Inv, QueryInv, TypeOK, Query
  <2>2. SourceOf(q) \in 1..Len(loads)
    BY <2>1 DEF Inv, EngineInv, SourceOf
  <2>3. CASE SourceOf(q) # a
    BY <1>2, <2>1, <2>2, <2>3
  <2>4. CASE SourceOf(q) = a
    <3>1. loads'[a].doneAt \in Nat
      BY DEF Load
    <3> QED BY <2>1, <2>4, <3>1 DEF FreshFor
  <2> QED BY <2>1, <2>3, <2>4
<1> QED BY <1>2, <1>4, <1>5

\* A load attempt gets another status.
LEMMA StatusSet ==
    ASSUME loads \in Seq(Load), NEW a \in 1..Len(loads), NEW status,
           loads' = [loads EXCEPT ![a].status = status]
    PROVE  /\ loads' = [b \in DOMAIN loads |-> loads'[b]]
           /\ \A b \in 1..Len(loads) : b # a => loads'[b] = loads[b]
           /\ loads'[a] = [loads[a] EXCEPT !.status = status]
<1>1. loads' = [b \in DOMAIN loads |-> loads'[b]]
  OBVIOUS
<1>2. \A b \in 1..Len(loads) : b # a => loads'[b] = loads[b]
  OBVIOUS
<1>3. loads'[a] = [loads[a] EXCEPT !.status = status]
  OBVIOUS
<1> QED BY <1>1, <1>2, <1>3

LEMMA SourceRejectedKeeps ==
    ASSUME Inv, NEW a \in 1..Len(loads), SourceRejected(a)
    PROVE  Inv'
<1> DEFINE q == loads[a]
           r == loads'[a]
<1>1. loads \in Seq(Load) /\ q \in Load
  BY DEF Inv, TypeOK
<1>2. /\ loads' = [b \in DOMAIN loads |-> loads'[b]]
      /\ \A b \in 1..Len(loads) : b # a => loads'[b] = loads[b]
      /\ r = [q EXCEPT !.status = "rejected"]
      /\ q.status = "running"
  BY <1>1, StatusSet DEF SourceRejected
<1> HIDE DEF q, r
<1>3. /\ r \in Load /\ r.status = "rejected"
      /\ r.refreshing = q.refreshing /\ r.next = q.next /\ r.doneAt = q.doneAt
  BY <1>1, <1>2 DEF Load
<1>4. UNCHANGED <<now, memo, refreshedSources, engineMemo, queries, refetches>>
  BY DEF SourceRejected
<1>5. /\ loads' \in Seq(Load) /\ Len(loads') = Len(loads)
      /\ EngineInv' /\ QueryInv'
  BY <1>2, <1>3, <1>4, LoadsKept DEF q, r
<1>6. TypeOK'
  BY <1>4, <1>5 DEF Inv, TypeOK, memo, engineMemo
<1>7. catalogsPromise = a
  BY <1>2 DEF Inv, MemoInv, q
<1>8. MemoInv'
  BY <1>2, <1>3, <1>4, <1>5, <1>7 DEF Inv, MemoInv, memo, q, r
<1>9. RefreshInv'
  <2>1. /\ UNCHANGED <<catalogsPromise, pendingRefresh, refreshedSources, refetches>>
        /\ catalogsPromise \in 1..Len(loads) /\ Null \notin Nat
    BY <1>4, <1>7, LoaderAssumption DEF memo
  <2>2. \A b \in 1..Len(loads) :
            /\ loads'[b].refreshing = loads[b].refreshing
            /\ loads'[b].status \in {"running", "resolved"} => loads'[b] = loads[b]
    BY <1>3, <1>5, <1>2 DEF q, r
  <2>3. Owing => Owing'
    BY <1>3, <1>7, <2>1, <2>2 DEF Owing, r
  <2> QED BY <1>5, <2>1, <2>2, <2>3 DEF Inv, RefreshInv
<1> QED BY <1>5, <1>6, <1>8, <1>9 DEF Inv

LEMMA LoadCaughtKeeps ==
    ASSUME Inv, NEW a \in 1..Len(loads), LoadCaught(a)
    PROVE  Inv'
<1> DEFINE q == loads[a]
           r == loads'[a]
<1>1. loads \in Seq(Load) /\ q \in Load
  BY DEF Inv, TypeOK
<1>2. /\ loads' = [b \in DOMAIN loads |-> loads'[b]]
      /\ \A b \in 1..Len(loads) : b # a => loads'[b] = loads[b]
      /\ r = [q EXCEPT !.status = "caught"]
      /\ q.status = "rejected"
  BY <1>1, StatusSet DEF LoadCaught
<1> HIDE DEF q, r
<1>3. /\ r \in Load /\ r.status = "caught"
      /\ r.refreshing = q.refreshing /\ r.next = q.next /\ r.doneAt = q.doneAt
  BY <1>1, <1>2 DEF Load
<1>4. catalogsPromise = a
  BY <1>2 DEF Inv, MemoInv, q
<1>5. /\ UNCHANGED <<now, loadedAt, refreshedSources, engineMemo, queries, refetches>>
      /\ catalogsPromise' = Null
      /\ pendingRefresh' = (q.refreshing \/ pendingRefresh)
  BY <1>4 DEF LoadCaught, q
<1>6. /\ loads' \in Seq(Load) /\ Len(loads') = Len(loads)
      /\ EngineInv' /\ QueryInv'
  BY <1>2, <1>3, <1>5, LoadsKept DEF q, r
<1>7. TypeOK'
  <2>1. pendingRefresh' \in BOOLEAN
    BY <1>5
  <2> QED BY <1>5, <1>6, <2>1 DEF Inv, TypeOK, engineMemo
<1>8. MemoInv'
  BY <1>2, <1>3, <1>4, <1>5, <1>6 DEF Inv, MemoInv, q, r
<1>9. RefreshInv'
  <2>1. \A b \in 1..Len(loads) :
            /\ loads'[b].refreshing = loads[b].refreshing
            /\ loads'[b].status \in {"running", "resolved"} => loads'[b] = loads[b]
    BY <1>2, <1>3, <1>6 DEF q, r
  <2>2. Owing => Owing'
    BY <1>4, <1>5, LoaderAssumption DEF Owing, q
  <2>3. ~Refresh => ~pendingRefresh'
    BY <1>5 DEF Inv, RefreshInv, q
  <2> QED BY <1>5, <1>6, <2>1, <2>2, <2>3 DEF Inv, RefreshInv
<1> QED BY <1>6, <1>7, <1>8, <1>9 DEF Inv

\* A refresh is done with the sources one after the other.
LEMMA SourceLoadedKeeps ==
    ASSUME Inv, NEW a \in 1..Len(loads), SourceLoaded(a)
    PROVE  Inv'
<1> DEFINE q == loads[a]
           r == loads'[a]
           last == ~(q.next < NumSources)
<1>1. /\ loads \in Seq(Load) /\ q \in Load /\ now \in Nat
      /\ NumSources \in Nat \ {0} /\ Null \notin Nat
  BY LoaderAssumption DEF Inv, TypeOK
<1>2. q.status = "running" /\ q.next \in Sources /\ q.next \in Nat
  BY <1>1 DEF SourceLoaded, Load, Sources
<1>3. catalogsPromise = a
  BY <1>2 DEF Inv, MemoInv
<1>4. loadedAt = Null
  BY <1>2, <1>3 DEF Inv, MemoInv
<1>5. /\ loads' = [b \in DOMAIN loads |-> loads'[b]]
      /\ \A b \in 1..Len(loads) : b # a => loads'[b] = loads[b]
      /\ r = IF last THEN [q EXCEPT !.status = "resolved", !.doneAt = now]
                     ELSE [q EXCEPT !.next = q.next + 1]
      /\ loadedAt' = IF last THEN now ELSE Null
  <2>1. CASE last
    <3>1. loads' = [loads EXCEPT ![a].status = "resolved", ![a].doneAt = now] /\ loadedAt' = now
      BY <2>1 DEF SourceLoaded
    <3>2. loads' = [b \in DOMAIN loads |-> loads'[b]]
      BY <3>1
    <3>3. \A b \in 1..Len(loads) : b # a => loads'[b] = loads[b]
      BY <3>1, <1>1
    <3>4. r = [q EXCEPT !.status = "resolved", !.doneAt = now]
      <4> DEFINE resolved == [loads EXCEPT ![a].status = "resolved"]
      <4>1. loads' = [resolved EXCEPT ![a].doneAt = now]
        BY <3>1
      <4>2. a \in DOMAIN resolved /\ resolved[a] = [q EXCEPT !.status = "resolved"]
        BY <1>1
      <4> HIDE DEF resolved, q
      <4>3. r = [resolved[a] EXCEPT !.doneAt = now]
        BY <4>1, <4>2
      <4> QED BY <4>2, <4>3
    <3> HIDE DEF q, r
    <3> QED BY <2>1, <3>1, <3>2, <3>3, <3>4
  <2>2. CASE ~last
    <3>1. loads' = [loads EXCEPT ![a].next = q.next + 1] /\ loadedAt' = loadedAt
      BY <2>2 DEF SourceLoaded
    <3>2. loads' = [b \in DOMAIN loads |-> loads'[b]]
      BY <3>1
    <3>3. \A b \in 1..Len(loads) : b # a => loads'[b] = loads[b]
      BY <3>1, <1>1
    <3>4. r = [q EXCEPT !.next = q.next + 1]
      BY <3>1, <1>1
    <3> HIDE DEF q, r
    <3> QED BY <2>2, <3>1, <3>2, <3>3, <3>4, <1>4
  <2> HIDE DEF last
  <2> QED BY <2>1, <2>2
<1>6. UNCHANGED <<now, catalogsPromise, pendingRefresh, engineMemo, queries>>
  BY DEF SourceLoaded
\* What became of the refresh.
<1>7. /\ refreshedSources' \in SUBSET Sources
      /\ refreshedSources \subseteq refreshedSources'
      /\ refreshedSources' \subseteq refreshedSources \cup {q.next}
      /\ q.refreshing => q.next \in refreshedSources'
      /\ ~q.refreshing => refreshedSources' = refreshedSources
  BY <1>2 DEF SourceLoaded, RefreshesNext, Inv, TypeOK
<1>8. /\ refetches' \in [Sources -> Nat]
      /\ \A s \in Sources : refetches'[s] = IF s \in refreshedSources' THEN 1 ELSE 0
  <2>1. /\ refetches \in [Sources -> Nat]
        /\ \A s \in Sources : refetches[s] = IF s \in refreshedSources THEN 1 ELSE 0
    BY DEF Inv, TypeOK, RefreshInv
  <2>2. CASE RefreshesNext(a)
    <3>1. /\ refreshedSources' = refreshedSources \cup {q.next}
          /\ refetches' = [refetches EXCEPT ![q.next] = @ + 1]
          /\ q.next \notin refreshedSources
      BY <2>2 DEF SourceLoaded, RefreshesNext
    <3> HIDE DEF q
    <3> QED BY <2>1, <3>1, <1>2
  <2>3. CASE ~RefreshesNext(a)
    BY <2>1, <2>3 DEF SourceLoaded
  <2> QED BY <2>2, <2>3
<1> HIDE DEF q, r
<1>9. /\ r \in Load /\ r.refreshing = q.refreshing
      /\ last => r.status = "resolved" /\ r.doneAt = now
      /\ ~last => r.status = "running" /\ r.next = q.next + 1
  <2>1. CASE last
    BY <1>1, <1>5, <2>1 DEF Load
  <2>2. CASE ~last
    <3>1. q.next + 1 \in Sources
      BY <1>1, <1>2, <2>2 DEF Sources
    <3> QED BY <1>1, <1>2, <1>5, <2>2, <3>1 DEF Load
  <2> HIDE DEF last
  <2> QED BY <2>1, <2>2
<1> HIDE DEF last
<1>10. /\ loads' \in Seq(Load) /\ Len(loads') = Len(loads)
       /\ EngineInv' /\ QueryInv'
  <2>1. r.status = "resolved" => r.doneAt >= now
    BY <1>1, <1>9
  <2> QED BY <1>2, <1>5, <1>6, <1>9, <2>1, LoadsKept DEF q, r
<1>11. TypeOK'
  <2>1. loadedAt' \in Nat \cup {Null}
    BY <1>1, <1>5
  <2> QED BY <1>6, <1>7, <1>8, <1>10, <2>1 DEF Inv, TypeOK, engineMemo
<1>12. MemoInv'
  <2>1. \A b \in 1..Len(loads) : loads'[b].status \in {"running", "rejected"} => catalogsPromise = b
    BY <1>3, <1>5 DEF Inv, MemoInv
  <2>2. /\ r.status # "caught"
        /\ loadedAt' # Null <=> r.status = "resolved"
        /\ loadedAt' # Null => loadedAt' = r.doneAt
    BY <1>1, <1>5, <1>9
  <2>3. catalogsPromise' = a /\ a # Null
    BY <1>1, <1>3, <1>6
  <2> QED BY <1>3, <1>6, <1>10, <2>1, <2>2, <2>3 DEF MemoInv, r
<1>13. RefreshInv'
  <2>1. ~Refresh => /\ ~pendingRefresh' /\ refreshedSources' = {}
                    /\ \A b \in 1..Len(loads) : ~loads'[b].refreshing
    BY <1>5, <1>6, <1>7, <1>9 DEF Inv, RefreshInv, q, r
  <2>2. q.refreshing => \A s \in Sources : s < q.next + 1 => s \in refreshedSources'
    <3>1. q.refreshing => \A s \in Sources : s < q.next => s \in refreshedSources
      BY <1>2 DEF Inv, RefreshInv, q
    <3> QED BY <1>1, <1>2, <1>7, <3>1 DEF Sources
  <2>3. Refresh /\ refreshedSources # Sources => q.refreshing
    BY <1>1, <1>3 DEF Inv, RefreshInv, Owing, q
  <2>4. Refresh /\ last => refreshedSources' = Sources
    <3>1. last => \A s \in Sources : s < q.next + 1
      BY <1>1, <1>2 DEF Sources, last
    <3> QED BY <1>7, <2>2, <2>3, <3>1
  <2>5. Refresh => refreshedSources' = Sources \/ Owing'
    <3>1. CASE last
      BY <2>4, <3>1
    <3>2. CASE ~last /\ Refresh /\ refreshedSources = Sources
      BY <1>7, <3>2
    <3>3. CASE ~last /\ Refresh /\ refreshedSources # Sources
      <4>1. r.refreshing /\ r.status # "resolved" /\ catalogsPromise' = a /\ a # Null
        BY <1>1, <1>3, <1>6, <1>9, <2>3, <3>3
      <4> QED BY <4>1 DEF Owing, r
    <3> QED BY <3>1, <3>2, <3>3
  <2>6. ASSUME NEW b \in 1..Len(loads)
        PROVE  /\ loads'[b].status = "running" /\ loads'[b].refreshing
                      => \A s \in Sources : s < loads'[b].next => s \in refreshedSources'
               /\ loads'[b].status = "resolved" /\ Refresh => refreshedSources' = Sources
    <3>1. CASE b = a
      BY <1>9, <2>2, <2>4, <3>1 DEF r
    <3>2. CASE b # a
      <4>1. loads'[b] = loads[b]
        BY <1>5, <3>2
      <4>2. loads[b].status # "running"
        BY <1>3, <3>2 DEF Inv, MemoInv
      <4>3. loads[b].status = "resolved" /\ Refresh => refreshedSources = Sources
        BY DEF Inv, RefreshInv
      <4> QED BY <1>7, <4>1, <4>2, <4>3
    <3> QED BY <3>1, <3>2
  <2> QED BY <1>8, <1>10, <2>1, <2>5, <2>6 DEF RefreshInv
<1> QED BY <1>10, <1>11, <1>12, <1>13 DEF Inv

-----------------------------------------------------------------------------
\* What a call finds in the memo, or puts there.
LEMMA CatalogsKept ==
    ASSUME Inv, LoadCatalogs, UNCHANGED <<refreshedSources, refetches>>
    PROVE  /\ loads' \in Seq(Load) /\ Len(loads') >= Len(loads)
           /\ \A b \in 1..Len(loads) : loads'[b] = loads[b]
           /\ catalogsPromise' \in 1..Len(loads')
           /\ loadedAt' \in Nat \cup {Null} /\ pendingRefresh' \in BOOLEAN
           /\ loads'[catalogsPromise'].status # "caught"
           /\ catalogsPromise' \in 1..Len(loads) \/ loads'[catalogsPromise'].status = "running"
           /\ loads'[catalogsPromise'].status = "resolved"
                    => now - loads'[catalogsPromise'].doneAt < Ttl
           /\ MemoInv' /\ RefreshInv'
<1>1. /\ loads \in Seq(Load) /\ now \in Nat /\ Ttl \in Nat /\ Null \notin Nat
      /\ loadedAt \in Nat \cup {Null} /\ pendingRefresh \in BOOLEAN
      /\ catalogsPromise \in (1..Len(loads)) \cup {Null}
  BY LoaderAssumption DEF Inv, TypeOK
<1>2. CASE ~StartsLoad
  <2>1. UNCHANGED <<loads, memo>>
    BY <1>2 DEF LoadCatalogs
  <2>2. UNCHANGED <<loads, catalogsPromise, loadedAt, pendingRefresh>>
    BY <2>1 DEF memo
  <2>3. catalogsPromise \in 1..Len(loads)
    BY <1>1, <1>2 DEF StartsLoad
  <2>4. loads[catalogsPromise].status # "caught"
    BY <1>1, <2>3 DEF Inv, MemoInv
  <2>5. ASSUME loads[catalogsPromise].status = "resolved"
        PROVE  now - loads[catalogsPromise].doneAt < Ttl
    <3>1. loadedAt # Null /\ loadedAt = loads[catalogsPromise].doneAt
      BY <1>1, <2>3, <2>5 DEF Inv, MemoInv
    <3>2. ~(now - loadedAt >= Ttl)
      BY <1>2, <3>1 DEF StartsLoad, Expired
    <3> QED BY <1>1, <3>1, <3>2
  <2>6. MemoInv'
    BY <2>2 DEF Inv, MemoInv
  <2>7. RefreshInv'
    BY <2>2 DEF Inv, RefreshInv, Owing
  <2> QED BY <1>1, <2>2, <2>3, <2>4, <2>5, <2>6, <2>7
<1>3. CASE StartsLoad
  <2> DEFINE n == Len(loads) + 1
  <2>1. /\ loads' = Append(loads, NewLoad) /\ catalogsPromise' = n
        /\ loadedAt' = Null /\ pendingRefresh' = FALSE
    BY <1>3 DEF LoadCatalogs
  <2>2. NewLoad \in Load
    BY <1>1, LoaderAssumption DEF NewLoad, Load, Sources
  <2>3. /\ NewLoad.status = "running" /\ NewLoad.next = 1
        /\ NewLoad.refreshing = pendingRefresh
    BY DEF NewLoad
  <2> HIDE DEF n
  <2>4. /\ loads' \in Seq(Load) /\ Len(loads') = n /\ loads'[n] = NewLoad
        /\ \A b \in 1..Len(loads) : loads'[b] = loads[b]
    BY <1>1, <2>1, <2>2 DEF n
  <2>5. n \in 1..n /\ n # Null /\ n \in Nat /\ \A b \in 1..n : b # n => b \in 1..Len(loads)
    BY <1>1 DEF n
  \* No attempt is under way.
  <2>6. \A b \in 1..Len(loads) : loads[b].status \notin {"running", "rejected"}
    <3>1. CASE catalogsPromise = Null
      BY <1>1, <3>1 DEF Inv, MemoInv
    <3>2. CASE Expired
      <4>1. catalogsPromise # Null /\ loads[catalogsPromise].status = "resolved"
        BY <3>2 DEF Inv, MemoInv, Expired
      <4> QED BY <4>1 DEF Inv, MemoInv
    <3> QED BY <1>3, <3>1, <3>2 DEF StartsLoad
  <2>7. MemoInv'
    <3>1. \A b \in 1..n : loads'[b].status \in {"running", "rejected"} => b = n
      BY <2>4, <2>5, <2>6
    <3> QED BY <2>1, <2>3, <2>4, <2>5, <3>1 DEF MemoInv
  <2>8. RefreshInv'
    <3>1. ~Refresh => /\ ~pendingRefresh' /\ refreshedSources' = {}
                      /\ \A b \in 1..n : ~loads'[b].refreshing
      BY <2>1, <2>3, <2>4, <2>5 DEF Inv, RefreshInv
    <3>2. Refresh /\ refreshedSources # Sources => pendingRefresh
      <4>1. Expired => catalogsPromise # Null /\ loads[catalogsPromise].status = "resolved"
        BY DEF Inv, MemoInv, Expired
      <4> QED BY <1>3, <4>1 DEF Inv, RefreshInv, Owing, StartsLoad
    <3>3. pendingRefresh => Owing'
      BY <2>1, <2>3, <2>4, <2>5 DEF Owing
    <3>4. \A s \in Sources : ~(s < 1)
      BY LoaderAssumption DEF Sources
    <3>5. ASSUME NEW b \in 1..n
          PROVE  /\ loads'[b].status = "running" /\ loads'[b].refreshing
                        => \A s \in Sources : s < loads'[b].next => s \in refreshedSources'
                 /\ loads'[b].status = "resolved" /\ Refresh => refreshedSources' = Sources
      <4>1. CASE b = n
        BY <2>3, <2>4, <3>4, <4>1
      <4>2. CASE b # n
        BY <2>4, <2>5, <2>6, <4>2 DEF Inv, RefreshInv
      <4> QED BY <4>1, <4>2
    <3>6. \A s \in Sources : refetches'[s] = IF s \in refreshedSources' THEN 1 ELSE 0
      BY DEF Inv, RefreshInv
    <3> QED BY <2>4, <3>1, <3>2, <3>3, <3>5, <3>6 DEF RefreshInv
  <2>9. loads'[catalogsPromise'].status = "running" /\ catalogsPromise' \in 1..Len(loads')
    BY <2>1, <2>3, <2>4, <2>5
  <2>10. Len(loads') >= Len(loads)
    BY <1>1, <2>4 DEF n
  <2>11. loadedAt' \in Nat \cup {Null} /\ pendingRefresh' \in BOOLEAN
    BY <2>1
  <2> QED BY <2>4, <2>7, <2>8, <2>9, <2>10, <2>11
<1> QED BY <1>2, <1>3

\* The engine a call waits for is the memo's, or a new one for its catalogs.
LEMMA EngineFound ==
    ASSUME Inv, NEW load, BuildEngine(load)
    PROVE  /\ engines' \in Seq(Engine) \/ load \notin Nat
           /\ Len(engines') >= Len(engines)
           /\ \A e \in 1..Len(engines) : engines'[e] = engines[e]
           /\ enginePromise' \in 1..Len(engines')
           /\ engineSource' = load
           /\ engines'[enginePromise'].source = load
           /\ engines'[enginePromise'].status # "caught"
           /\ \A e \in 1..Len(engines') :
                    e \in 1..Len(engines) \/ (/\ engines'[e].source = load
                                              /\ engines'[e].status = "awaiting")
<1>1. /\ engines \in Seq(Engine) /\ Null \notin Nat
      /\ enginePromise \in (1..Len(engines)) \cup {Null}
  BY LoaderAssumption DEF Inv, TypeOK
<1>2. CASE EngineReusable(load)
  <2>1. UNCHANGED <<engines, enginePromise, engineSource>>
    BY <1>2 DEF BuildEngine, engineMemo
  <2>2. enginePromise \in 1..Len(engines) /\ engineSource = load
    BY <1>1, <1>2 DEF EngineReusable
  <2>3. engines[enginePromise].status # "caught" /\ engines[enginePromise].source = load
    BY <1>1, <2>2 DEF Inv, EngineInv
  <2> QED BY <1>1, <2>1, <2>2, <2>3
<1>3. CASE ~EngineReusable(load)
  <2> DEFINE n == Len(engines) + 1
             new == [status |-> "awaiting", source |-> load]
  <2>1. engines' = Append(engines, new) /\ enginePromise' = n /\ engineSource' = load
    BY <1>3 DEF BuildEngine
  <2>2. new.status = "awaiting" /\ new.source = load /\ (load \in Nat => new \in Engine)
    BY DEF Engine
  <2> HIDE DEF new
  <2>3. /\ Len(engines') = n /\ engines'[n] = new
        /\ \A e \in 1..Len(engines) : engines'[e] = engines[e]
        /\ load \in Nat => engines' \in Seq(Engine)
    BY <1>1, <2>1, <2>2
  <2> QED BY <1>1, <2>1, <2>2, <2>3
<1> QED BY <1>2, <1>3

LEMMA CallKeeps ==
    ASSUME Inv, NEW q \in Queries, Call(q)
    PROVE  Inv'
<1> DEFINE load == catalogsPromise'
           e == enginePromise'
<1>1. LoadCatalogs /\ BuildEngine(load) /\ UNCHANGED <<now, refreshedSources, refetches>>
  BY DEF Call
<1>2. queries' = [queries EXCEPT ![q] = [phase |-> "engine", engine |-> e, at |-> now]]
  BY DEF Call
<1>3. /\ loads' \in Seq(Load) /\ Len(loads') >= Len(loads)
      /\ \A b \in 1..Len(loads) : loads'[b] = loads[b]
      /\ load \in 1..Len(loads')
      /\ loadedAt' \in Nat \cup {Null} /\ pendingRefresh' \in BOOLEAN
      /\ loads'[load].status = "resolved" => now - loads'[load].doneAt < Ttl
      /\ MemoInv' /\ RefreshInv'
  BY <1>1, CatalogsKept
<1>4. load \in Nat
  BY <1>3
<1> HIDE DEF load, e
<1>5. /\ engines' \in Seq(Engine) /\ Len(engines') >= Len(engines)
      /\ \A d \in 1..Len(engines) : engines'[d] = engines[d]
      /\ e \in 1..Len(engines') /\ engineSource' = load
      /\ engines'[e].source = load /\ engines'[e].status # "caught"
      /\ \A d \in 1..Len(engines') :
            d \in 1..Len(engines) \/ (engines'[d].source = load /\ engines'[d].status = "awaiting")
  BY <1>1, <1>4, EngineFound DEF e
<1>6. /\ now \in Nat /\ queries \in [Queries -> Query] /\ Len(loads) \in Nat
      /\ Len(engines) \in Nat /\ Len(loads') \in Nat /\ Len(engines') \in Nat
  BY <1>3, <1>5 DEF Inv, TypeOK
<1>7. /\ queries'[q].phase = "engine" /\ queries'[q].engine = e /\ queries'[q].at = now
      /\ queries' \in [Queries -> Query]
      /\ \A p \in Queries : p # q => queries'[p] = queries[p]
  <2>1. [phase |-> "engine", engine |-> e, at |-> now] \in Query
    BY <1>5, <1>6 DEF Query
  <2> QED BY <1>2, <1>6, <2>1
<1>8. TypeOK'
  BY <1>1, <1>3, <1>5, <1>7 DEF Inv, TypeOK, load, e
<1>9. EngineInv'
  <2>1. ASSUME NEW d \in 1..Len(engines')
        PROVE  /\ engines'[d].source \in 1..Len(loads')
               /\ engines'[d].status = "built" => loads'[engines'[d].source].status = "resolved"
    <3>1. CASE d \in 1..Len(engines)
      <4>1. /\ engines[d].source \in 1..Len(loads)
            /\ engines[d].status = "built" => loads[engines[d].source].status = "resolved"
        BY <3>1 DEF Inv, EngineInv
      <4>2. engines'[d] = engines[d]
        BY <1>5, <3>1
      <4>3. engines[d].source \in 1..Len(loads')
        BY <1>3, <1>6, <4>1
      <4>4. loads'[engines[d].source] = loads[engines[d].source]
        BY <1>3, <4>1
      <4> QED BY <4>1, <4>2, <4>3, <4>4
    <3>2. CASE d \notin 1..Len(engines)
      BY <1>3, <1>5, <3>2
    <3> QED BY <3>1, <3>2
  <2> QED BY <1>5, <2>1 DEF EngineInv, e
<1>10. QueryInv'
  <2> SUFFICES ASSUME NEW p \in Queries, queries'[p].phase # "idle"
               PROVE  LET d == queries'[p].engine
                          l == engines'[d].source
                      IN  /\ d \in 1..Len(engines')
                          /\ queries'[p].at <= now'
                          /\ loads'[l].status = "resolved" => FreshFor(loads'[l], queries'[p].at)
                          /\ queries'[p].phase \in {"native", "answered"}
                                => engines'[d].status = "built"
    BY DEF QueryInv, SourceOf
  <2>1. CASE p = q
    <3>1. loads'[load].status = "resolved" => FreshFor(loads'[load], now)
      BY <1>3 DEF FreshFor
    <3> QED BY <1>1, <1>5, <1>6, <1>7, <2>1, <3>1
  <2>2. CASE p # q
    <3>1. queries'[p] = queries[p]
      BY <1>7, <2>2
    <3>2. /\ queries[p].engine \in 1..Len(engines)
          /\ queries[p].at <= now
          /\ loads[SourceOf(p)].status = "resolved" => FreshFor(loads[SourceOf(p)], queries[p].at)
          /\ queries[p].phase \in {"native", "answered"}
                => engines[queries[p].engine].status = "built"
      BY <3>1 DEF Inv, QueryInv
    <3>3. SourceOf(p) \in 1..Len(loads)
      BY <3>2 DEF Inv, EngineInv, SourceOf
    <3>4. engines'[queries[p].engine] = engines[queries[p].engine] /\ loads'[SourceOf(p)] = loads[SourceOf(p)]
      BY <1>3, <1>5, <3>2, <3>3
    <3> QED BY <1>1, <1>5, <1>6, <3>1, <3>2, <3>4 DEF SourceOf
  <2> QED BY <2>1, <2>2
<1> QED BY <1>3, <1>8, <1>9, <1>10 DEF Inv

-----------------------------------------------------------------------------
\* An engine gets another status: rejected or caught, unless it is new.
LEMMA EngineStatusKeeps ==
    ASSUME Inv, NEW e \in 1..Len(engines), NEW status \in {"built", "rejected", "caught"},
           engines' = [engines EXCEPT ![e].status = status],
           engines[e].status # "built",
           status = "built" => loads[engines[e].source].status = "resolved",
           IF status = "caught" /\ enginePromise = e
           THEN enginePromise' = Null /\ engineSource' = Null
           ELSE UNCHANGED <<enginePromise, engineSource>>,
           UNCHANGED <<now, loads, memo, refreshedSources, queries, refetches>>
    PROVE  Inv'
<1>1. engines \in Seq(Engine) /\ engines[e] \in Engine
  BY DEF Inv, TypeOK
<1>2. /\ engines' = [d \in DOMAIN engines |-> engines'[d]]
      /\ \A d \in 1..Len(engines) : d # e => engines'[d] = engines[d]
  <2>1. engines' = [d \in DOMAIN engines |-> engines'[d]]
    OBVIOUS
  <2>2. \A d \in 1..Len(engines) : d # e => engines'[d] = engines[d]
    BY <1>1
  <2> QED BY <2>1, <2>2
<1>3. engines'[e] = [engines[e] EXCEPT !.status = status]
  BY <1>1
<1>4. /\ engines'[e] \in Engine /\ engines'[e].status = status
      /\ engines'[e].source = engines[e].source
  BY <1>1, <1>3 DEF Engine
<1>5. engines' \in Seq(Engine) /\ Len(engines') = Len(engines)
  <2>1. \A d \in 1..Len(engines) : engines'[d] \in Engine
    BY <1>1, <1>2, <1>4
  <2>2. DOMAIN engines = 1..Len(engines)
    BY <1>1
  <2>3. engines' = [d \in 1..Len(engines) |-> engines'[d]]
    BY <1>2, <2>2
  <2> QED BY <1>1, <2>1, <2>3
<1>6. /\ enginePromise' \in (1..Len(engines)) \cup {Null}
      /\ engineSource' \in (1..Len(loads)) \cup {Null}
      /\ enginePromise' # Null => enginePromise' = enginePromise /\ engineSource' = engineSource
      /\ status = "caught" => enginePromise' # e
  <2>1. e # Null
    BY LoaderAssumption, <1>1
  <2> QED BY <2>1 DEF Inv, TypeOK
<1>7. UNCHANGED <<catalogsPromise, loadedAt, pendingRefresh>>
  BY DEF memo
<1>8. TypeOK'
  BY <1>5, <1>6, <1>7 DEF Inv, TypeOK
<1>9. MemoInv' /\ RefreshInv'
  BY <1>7 DEF Inv, MemoInv, RefreshInv, Owing
<1>10. \A d \in 1..Len(engines) : /\ engines'[d].source = engines[d].source
                                  /\ engines[d].status = "built" => engines'[d].status = "built"
  BY <1>2, <1>4
<1>11. EngineInv'
  <2>1. \A d \in 1..Len(engines) :
            /\ engines'[d].source \in 1..Len(loads)
            /\ engines'[d].status = "built" => loads[engines'[d].source].status = "resolved"
    BY <1>2, <1>4, <1>10 DEF Inv, EngineInv
  <2>2. ASSUME enginePromise' # Null
        PROVE  engines'[enginePromise'].status # "caught"
               /\ engines'[enginePromise'].source = engineSource'
    BY <1>2, <1>4, <1>6, <1>10, <2>2 DEF Inv, EngineInv
  <2> QED BY <1>5, <2>1, <2>2 DEF EngineInv
<1>12. QueryInv'
  <2> SUFFICES ASSUME NEW p \in Queries, queries[p].phase # "idle"
               PROVE  LET d == queries[p].engine
                          l == engines'[d].source
                      IN  /\ d \in 1..Len(engines')
                          /\ queries[p].at <= now
                          /\ loads[l].status = "resolved" => FreshFor(loads[l], queries[p].at)
                          /\ queries[p].phase \in {"native", "answered"}
                                => engines'[d].status = "built"
    BY DEF QueryInv, SourceOf
  <2> QED BY <1>5, <1>10 DEF Inv, QueryInv, SourceOf
<1> QED BY <1>8, <1>9, <1>11, <1>12 DEF Inv

\* A query goes on.
LEMMA QueryStepKeeps ==
    ASSUME Inv, NEW q \in Queries, QueryStep(q)
    PROVE  Inv'
<1>1. queries \in [Queries -> Query] /\ queries[q] \in Query
  BY DEF Inv, TypeOK
<1>2. PICK phase \in {"native", "failed", "answered"} :
        /\ queries' = [queries EXCEPT ![q].phase = phase]
        /\ queries[q].phase # "idle"
        /\ phase \in {"native", "answered"} => engines[queries[q].engine].status = "built"
  BY DEF QueryStep, EngineReady, EngineFailed, NativeAnswer, Inv, QueryInv
<1>3. /\ queries'[q] \in Query /\ queries'[q].phase = phase
      /\ queries'[q].engine = queries[q].engine /\ queries'[q].at = queries[q].at
  BY <1>1, <1>2 DEF Query
<1>4. /\ \A p \in Queries : p # q => queries'[p] = queries[p]
      /\ queries' = [p \in Queries |-> queries'[p]]
  BY <1>1, <1>2
<1>5. queries' \in [Queries -> Query]
  BY <1>1, <1>3, <1>4
<1>6. UNCHANGED <<now, loads, memo, refreshedSources, engineMemo, refetches>>
  BY DEF QueryStep, EngineReady, EngineFailed, NativeAnswer
<1>7. UNCHANGED <<now, loads, catalogsPromise, loadedAt, pendingRefresh, refreshedSources,
                  engines, enginePromise, engineSource, refetches>>
  BY <1>6 DEF memo, engineMemo
<1>8. TypeOK'
  BY <1>5, <1>7 DEF Inv, TypeOK
<1>9. MemoInv' /\ RefreshInv' /\ EngineInv'
  BY <1>7 DEF Inv, MemoInv, RefreshInv, Owing, EngineInv
<1>10. QueryInv'
  <2> SUFFICES ASSUME NEW p \in Queries, queries'[p].phase # "idle"
               PROVE  LET d == queries'[p].engine
                          l == engines[d].source
                      IN  /\ d \in 1..Len(engines)
                          /\ queries'[p].at <= now
                          /\ loads[l].status = "resolved" => FreshFor(loads[l], queries'[p].at)
                          /\ queries'[p].phase \in {"native", "answered"}
                                => engines[d].status = "built"
    BY <1>7 DEF QueryInv, SourceOf
  <2>1. CASE p = q
    BY <1>2, <1>3, <2>1 DEF Inv, QueryInv, SourceOf
  <2>2. CASE p # q
    BY <1>4, <2>2 DEF Inv, QueryInv, SourceOf
  <2> QED BY <2>1, <2>2
<1> QED BY <1>8, <1>9, <1>10 DEF Inv

LEMMA TickKeeps ==
    ASSUME Inv, Tick
    PROVE  Inv'
<1>1. /\ now \in Nat /\ now' = now + 1 /\ queries \in [Queries -> Query]
      /\ UNCHANGED <<loads, catalogsPromise, loadedAt, pendingRefresh, refreshedSources,
                     engines, enginePromise, engineSource, queries, refetches>>
  BY DEF Inv, TypeOK, Tick, memo, engineMemo
<1>2. TypeOK'
  BY <1>1 DEF Inv, TypeOK
<1>3. MemoInv' /\ RefreshInv' /\ EngineInv'
  BY <1>1 DEF Inv, MemoInv, RefreshInv, Owing, EngineInv
<1>4. QueryInv'
  <2>1. \A q \in Queries : queries[q].at \in Nat
    BY <1>1 DEF Query
  <2> QED BY <1>1, <2>1 DEF Inv, QueryInv, SourceOf
<1> QED BY <1>2, <1>3, <1>4 DEF Inv

LEMMA EngineStepKeeps ==
    ASSUME Inv, NEW e \in 1..Len(engines), EngineStep(e)
    PROVE  Inv'
<1>1. CASE EngineBuilt(e)
  BY <1>1, EngineStatusKeeps DEF EngineBuilt
<1>2. CASE EngineRejected(e)
  BY <1>2, EngineStatusKeeps DEF EngineRejected
<1>3. CASE EngineCaught(e)
  BY <1>3, EngineStatusKeeps DEF EngineCaught
<1> QED BY <1>1, <1>2, <1>3 DEF EngineStep

LEMMA NextInv == Inv /\ [Next]_vars => Inv'
<1> SUFFICES ASSUME Inv, [Next]_vars PROVE Inv'
  OBVIOUS
<1>1. DOMAIN loads = 1..Len(loads) /\ DOMAIN engines = 1..Len(engines)
  BY DEF Inv, TypeOK
<1>2. ASSUME NEW q \in Queries, Call(q) PROVE Inv'
  BY <1>2, CallKeeps
<1>3. ASSUME NEW q \in Queries, QueryStep(q) PROVE Inv'
  BY <1>3, QueryStepKeeps
<1>4. ASSUME NEW a, LoadStep(a) PROVE Inv'
  BY <1>1, <1>4, SourceLoadedKeeps, SourceRejectedKeeps, LoadCaughtKeeps DEF LoadStep
<1>5. ASSUME NEW e, EngineStep(e) PROVE Inv'
  <2>1. e \in 1..Len(engines)
    BY <1>1, <1>5 DEF EngineStep
  <2> QED BY <1>5, <2>1, EngineStepKeeps
<1>6. CASE Tick
  BY <1>6, TickKeeps
<1>7. CASE UNCHANGED vars
  <2>1. UNCHANGED <<now, loads, catalogsPromise, loadedAt, pendingRefresh, refreshedSources,
                    engines, enginePromise, engineSource, queries, refetches>>
    BY <1>7 DEF vars, memo, engineMemo
  <2> QED BY <2>1 DEF Inv, TypeOK, MemoInv, RefreshInv, Owing, EngineInv, QueryInv, SourceOf
<1> QED BY <1>2, <1>3, <1>4, <1>5, <1>6, <1>7 DEF Next

-----------------------------------------------------------------------------
\* The state of the facade keeps its type.
THEOREM TypeCorrect == Spec => []TypeOK
<1>1. Inv => TypeOK
  BY DEF Inv
<1> QED BY InitInv, NextInv, <1>1, PTL DEF Spec

\* Two loads never run at once, and the one that runs is the memo.
THEOREM OneLoadAtATime == Spec => []SingleFlight
<1>1. Inv => SingleFlight
  BY DEF Inv, TypeOK, MemoInv, SingleFlight, Running
<1> QED BY InitInv, NextInv, <1>1, PTL DEF Spec

\* No source completes its refresh twice, and all have by the time a load
\* succeeds, whatever failed before.
THEOREM RefreshIsSpentOnce == Spec => []RefreshExactlyOnce
<1>1. ASSUME Inv PROVE RefreshExactlyOnce
  <2>1. /\ DOMAIN loads = 1..Len(loads)
        /\ \A s \in Sources : refetches[s] = IF s \in refreshedSources THEN 1 ELSE 0
        /\ ~Refresh => refreshedSources = {}
        /\ \A a \in 1..Len(loads) :
              loads[a].status = "resolved" /\ Refresh => refreshedSources = Sources
    BY <1>1 DEF Inv, TypeOK, RefreshInv
  <2> QED BY <2>1, LoaderAssumption DEF RefreshExactlyOnce
<1> QED BY InitInv, NextInv, <1>1, PTL DEF Spec

\* No query is answered from catalogs whose memo had expired when it called.
THEOREM AnswersAreFresh == Spec => []FreshAnswer
<1>1. ASSUME Inv PROVE FreshAnswer
  <2> SUFFICES ASSUME NEW q \in Queries, Answered(q)
               PROVE  FreshFor(loads[SourceOf(q)], queries[q].at)
    BY DEF FreshAnswer, FreshFor
  <2>1. queries[q].engine \in 1..Len(engines) /\ engines[queries[q].engine].status = "built"
    BY <1>1 DEF Inv, QueryInv, Answered
  <2>2. loads[SourceOf(q)].status = "resolved"
    BY <1>1, <2>1 DEF Inv, EngineInv, SourceOf
  <2> QED BY <1>1, <2>2 DEF Inv, QueryInv, Answered
<1> QED BY InitInv, NextInv, <1>1, PTL DEF Spec

\* A query that calls when no handler is pending waits for an engine that has
\* not failed, built from a load that has not failed.
THEOREM RejectionsNotReplayed == Spec => NoReplayedRejection
<1>1. ASSUME Inv, NEW q \in Queries, Call(q), HandlersRan
      PROVE  LET e == engines'[queries'[q].engine]
             IN  /\ e.status \in {"awaiting", "built"}
                 /\ loads'[e.source].status \in {"running", "resolved"}
  <2> DEFINE load == catalogsPromise'
             e == enginePromise'
  <2>1. LoadCatalogs /\ BuildEngine(load) /\ UNCHANGED <<refreshedSources, refetches>>
    BY <1>1 DEF Call
  <2>2. queries'[q].engine = e
    BY <1>1 DEF Call, Inv, TypeOK
  <2>3. /\ loads' \in Seq(Load) /\ load \in 1..Len(loads')
        /\ \A b \in 1..Len(loads) : loads'[b] = loads[b]
        /\ loads'[load].status # "caught"
        /\ load \in 1..Len(loads) \/ loads'[load].status = "running"
    BY <1>1, <2>1, CatalogsKept
  <2>4. load \in Nat
    BY <2>3
  <2> HIDE DEF load, e
  <2>5. /\ engines' \in Seq(Engine) /\ e \in 1..Len(engines')
        /\ \A d \in 1..Len(engines) : engines'[d] = engines[d]
        /\ engines'[e].source = load /\ engines'[e].status # "caught"
        /\ e \in 1..Len(engines) \/ engines'[e].status = "awaiting"
    BY <1>1, <2>1, <2>4, EngineFound DEF e
  <2>6. /\ \A b \in 1..Len(loads) : loads[b].status # "rejected"
        /\ \A d \in 1..Len(engines) : engines[d].status # "rejected"
    BY <1>1 DEF HandlersRan, Inv, TypeOK
  <2>7. loads'[load].status \in {"running", "resolved"}
    <3>1. loads'[load] \in Load
      BY <2>3
    <3>2. loads'[load].status # "rejected"
      BY <2>3, <2>6
    <3> QED BY <2>3, <3>1, <3>2 DEF Load
  <2>8. engines'[e].status \in {"awaiting", "built"}
    <3>1. engines'[e] \in Engine
      BY <2>5
    <3>2. engines'[e].status # "rejected"
      BY <2>5, <2>6
    <3> QED BY <2>5, <3>1, <3>2 DEF Engine
  <2> QED BY <2>2, <2>5, <2>7, <2>8
<1>2. Inv /\ [Next]_vars => [\A q \in Queries :
         Call(q) /\ HandlersRan =>
           LET e == engines'[queries'[q].engine]
           IN  /\ e.status \in {"awaiting", "built"}
               /\ loads'[e.source].status \in {"running", "resolved"}]_vars
  BY <1>1
<1> QED BY InitInv, NextInv, <1>2, PTL DEF Spec, NoReplayedRejection

-----------------------------------------------------------------------------
(***************************************************************************)
(* The refinement.  The abstract state, and what the invariant says of it. *)
(***************************************************************************)
MemoPhase ==
    CASE MemoStatus = "running" -> "loading"
      [] MemoStatus = "resolved" -> "ready"
      [] OTHER -> "empty"

ReadyAt == IF loadedAt = Null THEN 0 ELSE loadedAt

Owed == IF Refresh THEN Sources \ refreshedSources ELSE {}

LEMMA PhaseOf ==
    /\ MemoStatus = "running" => MemoPhase = "loading"
    /\ MemoStatus = "resolved" => MemoPhase = "ready"
    /\ MemoStatus \notin {"running", "resolved"} => MemoPhase = "empty"
BY DEF MemoPhase

LEMMA PhaseNext ==
    /\ MemoStatus' = "running" => MemoPhase' = "loading"
    /\ MemoStatus' = "resolved" => MemoPhase' = "ready"
    /\ MemoStatus' \notin {"running", "resolved"} => MemoPhase' = "empty"
BY DEF MemoPhase

\* Begin: a call that finds no catalogs, or expired ones.
LEMMA CallBegins ==
    ASSUME Inv, NEW q \in Queries, Call(q)
    PROVE  Memo!Begin \/ UNCHANGED Memo!memoVars
<1>1. LoadCatalogs /\ UNCHANGED <<now, refreshedSources>>
  BY DEF Call
<1>2. CASE ~StartsLoad
  <2>1. UNCHANGED <<now, loads, catalogsPromise, loadedAt, refreshedSources>>
    BY <1>1, <1>2 DEF LoadCatalogs, memo
  <2> QED BY <2>1 DEF Memo!memoVars, MemoStatus
<1>3. CASE StartsLoad
  <2>1. /\ loads' = Append(loads, NewLoad) /\ catalogsPromise' = Len(loads) + 1
        /\ loadedAt' = Null /\ loads \in Seq(Load)
    BY <1>1, <1>3 DEF LoadCatalogs, Inv, TypeOK
  <2>2. MemoStatus' = "running"
    <3>1. loads'[Len(loads) + 1] = NewLoad /\ Len(loads) + 1 \in Nat
      BY <2>1
    <3> QED BY <2>1, <3>1, LoaderAssumption DEF MemoStatus, NewLoad
  <2>3. MemoPhase' = "loading" /\ ReadyAt' = 0 /\ Owed' = Owed
    BY <1>1, <2>1, <2>2, PhaseNext DEF ReadyAt, Owed
  <2>4. MemoPhase = "empty" \/ (MemoPhase = "ready" /\ now - ReadyAt >= Ttl)
    <3>1. CASE catalogsPromise = Null
      BY <3>1, PhaseOf DEF MemoStatus
    <3>2. CASE Expired
      <4>1. /\ loadedAt # Null /\ now - loadedAt >= Ttl
            /\ catalogsPromise # Null /\ loads[catalogsPromise].status = "resolved"
        BY <3>2 DEF Expired, Inv, MemoInv
      <4> QED BY <4>1, PhaseOf DEF MemoStatus, ReadyAt
    <3> QED BY <1>3, <3>1, <3>2 DEF StartsLoad
  <2> QED BY <1>1, <2>3, <2>4 DEF Memo!Begin, MemoPhase, ReadyAt, Owed
<1> QED BY <1>2, <1>3
\* Fail: the attempt that runs is the memo; its .catch changes nothing more.
LEMMA RejectionFails ==
    ASSUME Inv, NEW a \in 1..Len(loads), SourceRejected(a) \/ LoadCaught(a)
    PROVE  Memo!Fail \/ UNCHANGED Memo!memoVars
<1>1. loads \in Seq(Load) /\ loads[a] \in Load /\ a # Null
  BY LoaderAssumption DEF Inv, TypeOK
<1>2. catalogsPromise = a /\ MemoStatus = loads[a].status
  BY <1>1 DEF SourceRejected, LoadCaught, Inv, MemoInv, MemoStatus
<1>3. UNCHANGED <<now, loadedAt, refreshedSources>>
  BY DEF SourceRejected, LoadCaught, memo
<1>4. ReadyAt' = ReadyAt /\ Owed' = Owed
  BY <1>3 DEF ReadyAt, Owed
<1>5. CASE SourceRejected(a)
  <2>1. catalogsPromise' = a /\ loads'[a].status = "rejected"
    <3>1. loads' = [loads EXCEPT ![a].status = "rejected"] /\ catalogsPromise' = catalogsPromise
      BY <1>5 DEF SourceRejected, memo
    <3>2. loads'[a] = [loads[a] EXCEPT !.status = "rejected"]
      BY <1>1, <3>1
    <3> QED BY <1>1, <1>2, <3>1, <3>2 DEF Load
  <2>2. MemoStatus' = "rejected"
    BY <1>1, <2>1 DEF MemoStatus
  <2>3. MemoPhase = "loading" /\ MemoPhase' = "empty"
    BY <1>2, <1>5, <2>2, PhaseOf, PhaseNext DEF SourceRejected
  <2> QED BY <1>3, <1>4, <2>3 DEF Memo!Fail, MemoPhase, ReadyAt, Owed
<1>6. CASE LoadCaught(a)
  <2>1. MemoStatus = "rejected" /\ MemoStatus' = "none"
    BY <1>2, <1>6 DEF LoadCaught, MemoStatus
  <2>2. MemoPhase' = MemoPhase
    BY <2>1, PhaseOf, PhaseNext
  <2> QED BY <1>3, <1>4, <2>2 DEF Memo!memoVars, MemoPhase, ReadyAt, Owed
<1> QED BY <1>5, <1>6

\* Refetched, or Complete when the source was the last.
LEMMA LoadedCompletes ==
    ASSUME Inv, Inv', NEW a \in 1..Len(loads), SourceLoaded(a)
    PROVE  Memo!Refetched \/ Memo!Complete \/ UNCHANGED Memo!memoVars
<1> DEFINE q == loads[a]
           last == ~(q.next < NumSources)
<1>1. /\ loads \in Seq(Load) /\ q \in Load /\ a # Null /\ now \in Nat /\ Null \notin Nat
      /\ refreshedSources \in SUBSET Sources
  BY LoaderAssumption DEF Inv, TypeOK
<1>2. catalogsPromise = a /\ q.status = "running" /\ loadedAt = Null
  BY DEF SourceLoaded, Inv, MemoInv
<1>3. MemoPhase = "loading" /\ ReadyAt = 0
  BY <1>1, <1>2, PhaseOf DEF MemoStatus, ReadyAt
<1>4. now' = now /\ catalogsPromise' = a
  BY <1>2 DEF SourceLoaded
<1>5. CASE last
  <2>1. loadedAt' = now
    BY <1>5 DEF SourceLoaded
  <2>2. loads'[a].status = "resolved" /\ a \in 1..Len(loads')
    BY <1>1, <1>4, <2>1 DEF Inv, TypeOK, MemoInv
  <2>3. MemoPhase' = "ready" /\ ReadyAt' = now
    BY <1>1, <1>4, <2>1, <2>2, PhaseNext DEF MemoStatus, ReadyAt
  <2>4. Owed' = {}
    BY <2>2 DEF Inv, RefreshInv, Owed
  <2> QED BY <1>3, <1>4, <2>3, <2>4 DEF Memo!Complete, MemoPhase, ReadyAt, Owed
<1>6. CASE ~last
  <2>1. loads' = [loads EXCEPT ![a].next = q.next + 1] /\ loadedAt' = loadedAt
    BY <1>6 DEF SourceLoaded
  <2>2. loads'[a] = [q EXCEPT !.next = q.next + 1]
    BY <1>1, <2>1
  <2> HIDE DEF q, last
  <2>3. loads'[a].status = "running"
    BY <1>1, <1>2, <2>2 DEF Load
  <2>4. MemoPhase' = "loading" /\ ReadyAt' = ReadyAt
    BY <1>1, <1>4, <2>1, <2>3, PhaseNext DEF MemoStatus, ReadyAt
  <2>5. CASE RefreshesNext(a)
    <3>1. /\ refreshedSources' = refreshedSources \cup {q.next}
          /\ q.next \notin refreshedSources /\ q.refreshing
      BY <2>5 DEF SourceLoaded, RefreshesNext, q
    <3>2. Refresh /\ q.next \in Owed /\ Owed' = Owed \ {q.next}
      BY <1>1, <3>1 DEF Inv, RefreshInv, Owed, Load, q
    <3> QED BY <1>3, <1>4, <2>4, <3>2 DEF Memo!Refetched, MemoPhase, ReadyAt, Owed
  <2>6. CASE ~RefreshesNext(a)
    <3>1. Owed' = Owed
      BY <2>6 DEF SourceLoaded, Owed
    <3> QED BY <1>3, <1>4, <2>4, <3>1 DEF Memo!memoVars, MemoPhase, ReadyAt, Owed
  <2> QED BY <2>5, <2>6
<1> QED BY <1>5, <1>6

\* The engine and the queries are below the abstraction.
LEMMA OthersStutter ==
    ASSUME UNCHANGED <<now, loads, memo, refreshedSources>>
    PROVE  UNCHANGED Memo!memoVars
<1>1. UNCHANGED <<now, loads, catalogsPromise, loadedAt, refreshedSources>>
  BY DEF memo
<1> QED BY <1>1 DEF Memo!memoVars, MemoStatus

LEMMA StepMaps == Inv /\ Inv' /\ [Next]_vars => [Memo!Next]_(Memo!memoVars)
<1> SUFFICES ASSUME Inv, Inv', [Next]_vars PROVE Memo!Next \/ UNCHANGED Memo!memoVars
  OBVIOUS
<1>1. DOMAIN loads = 1..Len(loads)
  BY DEF Inv, TypeOK
<1>2. ASSUME NEW q \in Queries, Call(q) PROVE Memo!Begin \/ UNCHANGED Memo!memoVars
  BY <1>2, CallBegins
<1>3. ASSUME NEW q \in Queries, QueryStep(q) PROVE UNCHANGED Memo!memoVars
  BY <1>3, OthersStutter DEF QueryStep, EngineReady, EngineFailed, NativeAnswer
<1>4. ASSUME NEW a, LoadStep(a)
      PROVE  Memo!Fail \/ Memo!Refetched \/ Memo!Complete \/ UNCHANGED Memo!memoVars
  <2>1. a \in 1..Len(loads)
    BY <1>1, <1>4 DEF LoadStep
  <2>2. CASE SourceLoaded(a)
    BY <2>1, <2>2, LoadedCompletes
  <2>3. CASE SourceRejected(a) \/ LoadCaught(a)
    BY <2>1, <2>3, RejectionFails
  <2> QED BY <1>4, <2>2, <2>3 DEF LoadStep
<1>5. ASSUME NEW e, EngineStep(e) PROVE UNCHANGED Memo!memoVars
  BY <1>5, OthersStutter DEF EngineStep, EngineBuilt, EngineRejected, EngineCaught
<1>6. CASE Tick
  <2>1. UNCHANGED <<loads, catalogsPromise, loadedAt, refreshedSources>>
    BY <1>6 DEF Tick, memo
  <2>2. Memo!Tick
    BY <1>6, <2>1 DEF Tick, Memo!Tick, MemoStatus
  <2> QED BY <2>2 DEF Memo!Next
<1>7. CASE UNCHANGED vars
  BY <1>7, OthersStutter DEF vars
<1> QED BY <1>2, <1>3, <1>4, <1>5, <1>6, <1>7 DEF Next, Memo!Next

\* The loader implements the abstract memo: every initial state maps to an
\* initial state, every job of the event loop to a step or a stutter.
THEOREM LoaderImplementsMemo == Spec => ImplementsMemo
<1>1. Init => Memo!Init
  BY DEF Init, Memo!Init, MemoStatus
<1> QED BY InitInv, NextInv, StepMaps, <1>1, PTL DEF Spec, ImplementsMemo, Memo!Spec
=============================================================================
