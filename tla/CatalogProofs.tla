--------------------------- MODULE CatalogProofs ---------------------------
(***************************************************************************)
(* Proofs about the catalogs, kept (CatalogCache) and looked up            *)
(* (CatalogLookup).                                                        *)
(*                                                                         *)
(* CatalogCache, for any number of loads in any processes, any TTL,        *)
(* timeout and clock lag: a file with prices is never lost, what is served *)
(* as fresh is recent, and the lifecycle contract holds.                   *)
(*                                                                         *)
(* None of them is inductive.  The invariant adds that an entry, on disk   *)
(* or in hand, is stamped at most Slack after the server produced it       *)
(* (Honest), how a load's clock and start relate to the time (ClockInv,    *)
(* TimeInv), what a load in progress has in hand (GotInv), and that it is  *)
(* in progress only because the cache would not do (PathInv).              *)
(***************************************************************************)
EXTENDS CatalogCache, CatalogLookup, TLAPS, WellFoundedInduction

TypeOK ==
    /\ now \in Nat
    /\ file \in Files
    /\ loader \in [Loaders -> Loader]

\* What a stamp may run ahead of its payload, and a load of its clock.
Slack == IF StampsAtStart = Loaders THEN 0 ELSE FetchTimeout
Lag(l) == IF l \in StampsAtStart THEN ClockLag ELSE 0

Honest(entry) == entry \in Entry => entry.stamp <= entry.gen + Slack

\* A load needs no fetch.
Local(r) == r.offline \/ (Usable(r.seen) /\ Fresh(r.seen, r.clock) /\ ~r.refresh)

\* How a load that is over came by its answer.
Answers(l, r) ==
    /\ Local(r) <=> r.fetch = "skipped"
    /\ r.fetch = "ok" =>
            r.via = IF r.store = "failed" /\ l \notin ToleratesStore THEN "rejected" ELSE "fetch"
    /\ r.fetch # "ok" => r.via = Fallback(r.seen)

ClockInv(l, r) == r.clock <= r.startedAt /\ r.startedAt <= r.clock + Lag(l)

TimeInv(r, t) ==
    /\ r.startedAt <= t
    /\ r.pc \in {"fetching", "answering"} => t - r.startedAt <= FetchTimeout

GotInv(r, t) ==
    /\ r.pc = "answering" =>
            r.got \in Entry /\ r.startedAt <= r.got.gen /\ r.got.gen <= t
    /\ r.pc \in {"writing", "renaming"} =>
            r.got \in Entry /\ r.got.usable /\ Honest(r.got)

PathInv(l, r) ==
    /\ r.pc \in {"fetching", "answering"} => ~Local(r) /\ r.fetch = "skipped"
    /\ r.pc \in {"writing", "renaming"} => ~Local(r) /\ r.fetch = "ok"
    /\ r.pc = "done" => Answers(l, r)

LoadInv(l, r, t) ==
    ClockInv(l, r) /\ TimeInv(r, t) /\ GotInv(r, t) /\ Honest(r.seen) /\ PathInv(l, r)

Inv ==
    /\ TypeOK
    /\ Honest(file)
    /\ \A l \in Loaders : LoadInv(l, loader[l], now)

-----------------------------------------------------------------------------

LEMMA NotEntries == Null \notin Entry /\ Torn \notin Entry /\ Null # Torn
BY CacheAssumption

\* A step of one load that leaves the clock alone, and the file honest, keeps
\* the invariant.
LEMMA OneLoad ==
    ASSUME Inv, NEW l \in Loaders,
           loader' = [m \in Loaders |-> loader'[m]],
           \A m \in Loaders : m # l => loader'[m] = loader[m],
           loader'[l] \in Loader, LoadInv(l, loader'[l], now),
           now' = now, file' \in Files, Honest(file')
    PROVE  Inv'
<1>1. loader' \in [Loaders -> Loader]
  <2>1. \A m \in Loaders : loader'[m] \in Loader
    BY DEF Inv, TypeOK
  <2> QED BY <2>1
<1>2. TypeOK'
  BY <1>1 DEF Inv, TypeOK
<1>3. \A m \in Loaders : LoadInv(m, loader'[m], now)
  BY DEF Inv
<1>4. \A m \in Loaders : LoadInv(m, loader'[m], now')
  BY <1>3
<1> QED BY <1>2, <1>4 DEF Inv

LEMMA IdleTyped == Idle \in Loader
BY DEF Idle, Loader

\* What Start makes of a load.
LEMMA StartKeeps ==
    ASSUME Inv, NEW l \in Loaders, NEW clock \in Clock(l),
           NEW refresh \in BOOLEAN, NEW offline \in BOOLEAN,
           Start(l, clock, refresh, offline)
    PROVE  Inv'
<1> DEFINE seen == LoadCached
           begun == [Idle EXCEPT !.refresh = refresh, !.offline = offline,
                                 !.clock = clock, !.startedAt = now, !.seen = seen]
           r == loader'[l]
<1>1. /\ clock \in Nat /\ clock <= now /\ now <= clock + Lag(l)
      /\ now \in Nat
  BY CacheAssumption DEF Clock, Lag, Inv, TypeOK
<1>2. seen \in Entry \cup {Null} /\ Honest(seen)
  BY NotEntries DEF LoadCached, Inv, TypeOK, Files, Honest
<1> HIDE DEF seen
<1>3. begun \in Loader
  BY <1>1, <1>2, IdleTyped DEF Loader
<1>4. /\ begun.refresh = refresh /\ begun.offline = offline
      /\ begun.clock = clock /\ begun.startedAt = now /\ begun.seen = seen
      /\ begun.fetch = "skipped"
  BY IdleTyped DEF Loader, Idle
<1>5. r = IF ServesCache(seen, clock, refresh, offline)
          THEN [begun EXCEPT !.pc = "done", !.via = "cache"]
          ELSE IF offline
          THEN [begun EXCEPT !.pc = "done", !.via = "none"]
          ELSE [begun EXCEPT !.pc = "fetching"]
  BY DEF Start, Inv, TypeOK, seen
<1>6. /\ loader' = [m \in Loaders |-> loader'[m]]
      /\ \A m \in Loaders : m # l => loader'[m] = loader[m]
      /\ now' = now /\ file' = file
  BY DEF Start, Inv, TypeOK
<1> HIDE DEF begun, r
<1>7. r \in Loader
  BY <1>3, <1>5 DEF Loader
<1>8. /\ r.refresh = refresh /\ r.offline = offline
      /\ r.clock = clock /\ r.startedAt = now /\ r.seen = seen
      /\ r.fetch = "skipped"
  BY <1>3, <1>4, <1>5 DEF Loader
<1>9. IF ServesCache(seen, clock, refresh, offline)
      THEN r.pc = "done" /\ r.via = "cache"
      ELSE IF offline THEN r.pc = "done" /\ r.via = "none"
      ELSE r.pc = "fetching"
  BY <1>3, <1>5 DEF Loader
<1>10. ServesCache(seen, clock, refresh, offline)
         <=> Local(r) /\ (Usable(seen) \/ ~offline)
  BY <1>8 DEF ServesCache, Local
<1>11. LoadInv(l, r, now)
  <2>1. ClockInv(l, r) /\ TimeInv(r, now) /\ Honest(r.seen)
    BY <1>1, <1>2, <1>8, CacheAssumption DEF ClockInv, TimeInv
  <2>2. GotInv(r, now)
    BY <1>9 DEF GotInv
  <2>3. PathInv(l, r)
    BY <1>8, <1>9, <1>10 DEF PathInv, Answers, Local, Fallback, ServesCache
  <2> QED BY <2>1, <2>2, <2>3 DEF LoadInv
<1>12. file' \in Files /\ Honest(file')
  BY <1>6 DEF Inv, TypeOK
<1> QED BY <1>6, <1>7, <1>11, <1>12, OneLoad DEF r

\* The other steps of a load leave alone what it was asked and what it saw.
SameLoad(q, r) ==
    /\ r.refresh = q.refresh /\ r.offline = q.offline /\ r.clock = q.clock
    /\ r.startedAt = q.startedAt /\ r.seen = q.seen

LEMMA LoadKept ==
    ASSUME NEW l \in Loaders, NEW q \in Loader, NEW r \in Loader, SameLoad(q, r),
           LoadInv(l, q, now), GotInv(r, now), PathInv(l, r),
           r.pc = "answering" => q.pc = "fetching", r.pc # "fetching"
    PROVE  LoadInv(l, r, now)
<1>1. ClockInv(l, r) /\ Honest(r.seen)
  BY DEF LoadInv, ClockInv, SameLoad
<1>2. TimeInv(r, now)
  BY DEF LoadInv, TimeInv, SameLoad
<1> QED BY <1>1, <1>2 DEF LoadInv

LEMMA SameLocal ==
    ASSUME NEW q, NEW r, SameLoad(q, r) PROVE Local(r) <=> Local(q)
BY DEF SameLoad, Local

LEMMA RespondKeeps ==
    ASSUME Inv, NEW l \in Loaders, Respond(l)
    PROVE  Inv'
<1> DEFINE q == loader[l]
           r == loader'[l]
<1>1. q \in Loader /\ LoadInv(l, q, now) /\ now \in Nat /\ file \in Files /\ Honest(file)
  BY DEF Inv, TypeOK
<1>2. PICK usable \in BOOLEAN :
        loader' = [loader EXCEPT ![l].pc = "answering",
                      ![l].got = [stamp |-> 0, gen |-> now, usable |-> usable]]
  BY DEF Respond
<1> DEFINE got == [stamp |-> 0, gen |-> now, usable |-> usable]
<1>3. got \in Entry /\ got.gen = now
  BY <1>1 DEF Entry
<1> HIDE DEF got
<1>4. r = [q EXCEPT !.pc = "answering", !.got = got]
  BY <1>2 DEF Inv, TypeOK, got
<1>5. /\ loader' = [m \in Loaders |-> loader'[m]]
      /\ \A m \in Loaders : m # l => loader'[m] = loader[m]
      /\ now' = now /\ file' = file
  BY <1>2 DEF Respond, Inv, TypeOK
<1>6. q.pc = "fetching"
  BY DEF Respond
<1> HIDE DEF q, r
<1>7. r \in Loader
  BY <1>1, <1>3, <1>4 DEF Loader
<1>8. r.pc = "answering" /\ r.got = got /\ SameLoad(q, r) /\ r.fetch = q.fetch
  BY <1>1, <1>4 DEF Loader, SameLoad
<1>9. GotInv(r, now)
  BY <1>1, <1>3, <1>6, <1>8 DEF LoadInv, TimeInv, GotInv, SameLoad
<1>10. PathInv(l, r)
  BY <1>1, <1>6, <1>8, SameLocal DEF LoadInv, PathInv
<1>11. LoadInv(l, r, now)
  BY <1>1, <1>6, <1>7, <1>8, <1>9, <1>10, LoadKept
<1> QED BY <1>1, <1>5, <1>7, <1>11, OneLoad DEF r

\* A fetch that brings no prices ends the load.
LEMMA NoPricesKeeps ==
    ASSUME Inv, NEW l \in Loaders, NEW fetch \in {"failed", "empty"},
           loader[l].pc \in {"fetching", "answering"},
           loader' = [loader EXCEPT ![l].pc = "done", ![l].fetch = fetch,
                        ![l].got = Null, ![l].via = Fallback(loader[l].seen)],
           UNCHANGED <<now, file>>
    PROVE  Inv'
<1> DEFINE q == loader[l]
           r == loader'[l]
           via == Fallback(q.seen)
<1>1. q \in Loader /\ LoadInv(l, q, now) /\ now \in Nat /\ file \in Files /\ Honest(file)
  BY DEF Inv, TypeOK
<1>2. via \in {"cache", "none"}
  BY DEF Fallback
<1>3. /\ loader' = [m \in Loaders |-> loader'[m]]
      /\ \A m \in Loaders : m # l => loader'[m] = loader[m]
  BY DEF Inv, TypeOK
<1>4. r = [q EXCEPT !.pc = "done", !.fetch = fetch, !.got = Null, !.via = via]
  BY DEF Inv, TypeOK
<1>5. q.pc \in {"fetching", "answering"}
  OBVIOUS
<1> HIDE DEF q, r, via
<1>6. r \in Loader
  BY <1>1, <1>2, <1>4 DEF Loader
<1>7. r.pc = "done" /\ r.fetch = fetch /\ r.via = via /\ SameLoad(q, r)
  BY <1>1, <1>4 DEF Loader, SameLoad
<1>8. GotInv(r, now)
  BY <1>7 DEF GotInv
<1>9. PathInv(l, r)
  <2>1. ~Local(r)
    BY <1>1, <1>5, <1>7, SameLocal DEF LoadInv, PathInv
  <2>2. r.via = Fallback(r.seen)
    BY <1>7 DEF via, SameLoad
  <2> QED BY <1>7, <2>1, <2>2 DEF PathInv, Answers
<1>10. LoadInv(l, r, now)
  BY <1>1, <1>6, <1>7, <1>8, <1>9, LoadKept
<1> QED BY <1>1, <1>3, <1>6, <1>10, OneLoad DEF r

\* The stamp is the clock's reading, which is not after the payload, or the
\* time of the write, which is within the timeout of it.
LEMMA FetchOkKeeps ==
    ASSUME Inv, NEW l \in Loaders, FetchOk(l)
    PROVE  Inv'
<1> DEFINE q == loader[l]
           r == loader'[l]
           stamp == IF l \in StampsAtStart THEN q.clock ELSE now
<1>1. q \in Loader /\ LoadInv(l, q, now) /\ now \in Nat /\ file \in Files /\ Honest(file)
  BY DEF Inv, TypeOK
<1>2. q.pc = "answering" /\ q.got.usable
  BY DEF FetchOk
<1>3. /\ q.got \in Entry /\ q.startedAt <= q.got.gen /\ q.got.gen <= now
      /\ q.startedAt \in Nat /\ q.clock \in Nat
  BY <1>1, <1>2 DEF LoadInv, GotInv, Loader
<1>4. stamp \in Nat /\ stamp <= q.got.gen + Slack
  <2>1. q.got.gen \in Nat
    BY <1>3 DEF Entry
  <2>2. CASE l \in StampsAtStart
    BY <1>1, <1>3, <2>1, <2>2, CacheAssumption DEF LoadInv, ClockInv, Slack
  <2>3. CASE l \notin StampsAtStart
    BY <1>1, <1>2, <1>3, <2>1, <2>3, CacheAssumption DEF LoadInv, TimeInv, Slack
  <2> QED BY <2>2, <2>3
<1> DEFINE got == [q.got EXCEPT !.stamp = stamp]
<1>5. r = [q EXCEPT !.pc = "writing", !.fetch = "ok", !.got = got]
  BY DEF FetchOk, Inv, TypeOK
<1>6. /\ loader' = [m \in Loaders |-> loader'[m]]
      /\ \A m \in Loaders : m # l => loader'[m] = loader[m]
      /\ now' = now /\ file' = file
  BY DEF FetchOk, Inv, TypeOK
<1> HIDE DEF q, r, stamp
<1>7. got \in Entry /\ got.stamp = stamp /\ got.gen = q.got.gen /\ got.usable
  BY <1>2, <1>3, <1>4 DEF Entry
<1> HIDE DEF got
<1>8. r \in Loader
  BY <1>1, <1>5, <1>7 DEF Loader
<1>9. r.pc = "writing" /\ r.fetch = "ok" /\ r.got = got /\ SameLoad(q, r)
  BY <1>1, <1>5 DEF Loader, SameLoad
<1>10. GotInv(r, now)
  BY <1>4, <1>7, <1>9 DEF GotInv, Honest
<1>11. PathInv(l, r)
  BY <1>1, <1>2, <1>9, SameLocal DEF LoadInv, PathInv
<1>12. LoadInv(l, r, now)
  BY <1>1, <1>8, <1>9, <1>10, <1>11, LoadKept
<1> QED BY <1>1, <1>6, <1>8, <1>12, OneLoad DEF r

LEMMA WriteTmpKeeps ==
    ASSUME Inv, NEW l \in Loaders, WriteTmp(l)
    PROVE  Inv'
<1> DEFINE q == loader[l]
           r == loader'[l]
<1>1. q \in Loader /\ LoadInv(l, q, now) /\ now \in Nat /\ file \in Files /\ Honest(file)
  BY DEF Inv, TypeOK
<1>2. r = [q EXCEPT !.pc = "renaming"] /\ q.pc = "writing"
  BY DEF WriteTmp, Inv, TypeOK
<1>3. /\ loader' = [m \in Loaders |-> loader'[m]]
      /\ \A m \in Loaders : m # l => loader'[m] = loader[m]
      /\ now' = now /\ file' = file
  BY DEF WriteTmp, Inv, TypeOK
<1> HIDE DEF q, r
<1>4. r \in Loader
  BY <1>1, <1>2 DEF Loader
<1>5. r.pc = "renaming" /\ r.fetch = q.fetch /\ r.got = q.got /\ SameLoad(q, r)
  BY <1>1, <1>2 DEF Loader, SameLoad
<1>6. GotInv(r, now) /\ PathInv(l, r)
  BY <1>1, <1>2, <1>5, SameLocal DEF LoadInv, GotInv, PathInv
<1>7. LoadInv(l, r, now)
  BY <1>1, <1>4, <1>5, <1>6, LoadKept
<1> QED BY <1>1, <1>3, <1>4, <1>7, OneLoad DEF r

\* The write is over, well or not: what Rename, WriteFails and RenameFails
\* have in common.
LEMMA StoredKeeps ==
    ASSUME Inv, NEW l \in Loaders, NEW store \in {"failed", "ok"},
           NEW via \in {"fetch", "rejected"},
           via = "rejected" <=> store = "failed" /\ l \notin ToleratesStore,
           loader[l].pc \in {"writing", "renaming"},
           loader' = [loader EXCEPT ![l].pc = "done", ![l].store = store,
                        ![l].got = Null, ![l].via = via],
           now' = now, file' \in {file, loader[l].got}
    PROVE  Inv'
<1> DEFINE q == loader[l]
           r == loader'[l]
<1>1. q \in Loader /\ LoadInv(l, q, now) /\ now \in Nat /\ file \in Files /\ Honest(file)
  BY DEF Inv, TypeOK
<1>2. r = [q EXCEPT !.pc = "done", !.store = store, !.got = Null, !.via = via]
  BY DEF Inv, TypeOK
<1>3. /\ loader' = [m \in Loaders |-> loader'[m]]
      /\ \A m \in Loaders : m # l => loader'[m] = loader[m]
  BY DEF Inv, TypeOK
<1>4. q.pc \in {"writing", "renaming"} /\ file' \in {file, q.got}
  OBVIOUS
<1> HIDE DEF q, r
<1>5. file' \in Files /\ Honest(file')
  BY <1>1, <1>4 DEF LoadInv, GotInv, Files
<1>6. r \in Loader
  BY <1>1, <1>2 DEF Loader
<1>7. /\ r.pc = "done" /\ r.store = store /\ r.via = via /\ r.fetch = q.fetch
      /\ SameLoad(q, r)
  BY <1>1, <1>2 DEF Loader, SameLoad
<1>8. GotInv(r, now)
  BY <1>7 DEF GotInv
<1>9. PathInv(l, r)
  <2>1. ~Local(r) /\ r.fetch = "ok"
    BY <1>1, <1>4, <1>7, SameLocal DEF LoadInv, PathInv
  <2> QED BY <1>7, <2>1 DEF PathInv, Answers
<1>10. LoadInv(l, r, now)
  BY <1>1, <1>6, <1>7, <1>8, <1>9, LoadKept
<1> QED BY <1>3, <1>5, <1>6, <1>10, OneLoad DEF r

LEMMA CrashKeeps ==
    ASSUME Inv, NEW l \in Loaders, Crash(l)
    PROVE  Inv'
<1>1. /\ loader'[l] = Idle
      /\ loader' = [m \in Loaders |-> loader'[m]]
      /\ \A m \in Loaders : m # l => loader'[m] = loader[m]
      /\ now' = now /\ file' = file
  BY DEF Crash, Inv, TypeOK
<1>2. LoadInv(l, Idle, now)
  <2>1. now \in Nat
    BY DEF Inv, TypeOK
  <2>2. ClockInv(l, Idle) /\ TimeInv(Idle, now)
    BY <2>1, CacheAssumption DEF Idle, ClockInv, TimeInv, Lag
  <2>3. GotInv(Idle, now) /\ PathInv(l, Idle)
    BY DEF Idle, GotInv, PathInv
  <2>4. Honest(Idle.seen)
    BY NotEntries DEF Idle, Honest
  <2> QED BY <2>2, <2>3, <2>4 DEF LoadInv
<1>3. file' \in Files /\ Honest(file')
  BY <1>1 DEF Inv, TypeOK
<1> QED BY <1>1, <1>2, <1>3, IdleTyped, OneLoad

\* Time passes within the timeouts.
LEMMA TickKeeps ==
    ASSUME Inv, Tick
    PROVE  Inv'
<1>1. now \in Nat /\ now' = now + 1 /\ file' = file /\ loader' = loader
  BY DEF Inv, TypeOK, Tick
<1>2. ASSUME NEW l \in Loaders PROVE LoadInv(l, loader[l], now + 1)
  <2>1. loader[l] \in Loader /\ LoadInv(l, loader[l], now)
    BY DEF Inv, TypeOK
  <2>2. loader[l].startedAt \in Nat
    BY <2>1 DEF Loader
  <2>3. TimeInv(loader[l], now + 1)
    BY <1>1, <2>1, <2>2, CacheAssumption DEF LoadInv, TimeInv, Tick
  <2>4. GotInv(loader[l], now + 1)
    BY <1>1, <2>1 DEF LoadInv, GotInv, Entry
  <2> QED BY <2>1, <2>3, <2>4 DEF LoadInv
<1> QED BY <1>1, <1>2 DEF Inv, TypeOK

-----------------------------------------------------------------------------
LEMMA InitInv == Init => Inv
<1> SUFFICES ASSUME Init PROVE Inv
  OBVIOUS
<1>1. now = 0 /\ file \in Files /\ Honest(file)
  BY CacheAssumption, NotEntries DEF Init, Files, Entry, Honest, Slack
<1>2. ASSUME NEW l \in Loaders PROVE loader[l] \in Loader /\ LoadInv(l, loader[l], now)
  <2>1. loader[l] = Idle
    BY DEF Init
  <2>2. ClockInv(l, Idle) /\ TimeInv(Idle, 0) /\ GotInv(Idle, 0) /\ PathInv(l, Idle)
    BY CacheAssumption DEF Idle, ClockInv, TimeInv, Lag, GotInv, PathInv
  <2>3. Honest(Idle.seen)
    BY NotEntries DEF Idle, Honest
  <2> QED BY <1>1, <2>1, <2>2, <2>3, IdleTyped DEF LoadInv
<1>3. loader \in [Loaders -> Loader]
  BY IdleTyped DEF Init
<1> QED BY <1>1, <1>2, <1>3 DEF Inv, TypeOK

\* One lemma per action, but for those that end a load in the same way.
LEMMA NextInv == Inv /\ [Next]_vars => Inv'
<1> SUFFICES ASSUME Inv, [Next]_vars PROVE Inv'
  OBVIOUS
<1>1. ASSUME NEW l \in Loaders, NEW clock \in Clock(l), NEW refresh \in BOOLEAN,
             NEW offline \in BOOLEAN, Start(l, clock, refresh, offline)
      PROVE  Inv'
  BY <1>1, StartKeeps
<1>2. ASSUME NEW l \in Loaders, Respond(l) PROVE Inv'
  BY <1>2, RespondKeeps
<1>3. ASSUME NEW l \in Loaders, FetchFails(l) PROVE Inv'
  BY <1>3, NoPricesKeeps DEF FetchFails
<1>4. ASSUME NEW l \in Loaders, FetchEmpty(l) PROVE Inv'
  BY <1>4, NoPricesKeeps DEF FetchEmpty
<1>5. ASSUME NEW l \in Loaders, FetchOk(l) PROVE Inv'
  BY <1>5, FetchOkKeeps
<1>6. ASSUME NEW l \in Loaders, WriteTmp(l) PROVE Inv'
  BY <1>6, WriteTmpKeeps
<1>7. ASSUME NEW l \in Loaders, WriteFails(l) \/ RenameFails(l) PROVE Inv'
  <2> DEFINE via == IF l \in ToleratesStore THEN "fetch" ELSE "rejected"
  <2>1. /\ via \in {"fetch", "rejected"}
        /\ via = "rejected" <=> l \notin ToleratesStore
    OBVIOUS
  <2>2. /\ loader' = [loader EXCEPT ![l].pc = "done", ![l].store = "failed",
                        ![l].got = Null, ![l].via = via]
        /\ now' = now /\ file' = file /\ loader[l].pc \in {"writing", "renaming"}
    BY <1>7 DEF WriteFails, RenameFails, StoreFailed
  <2> HIDE DEF via
  <2> QED BY <2>1, <2>2, StoredKeeps
<1>8. ASSUME NEW l \in Loaders, Rename(l) PROVE Inv'
  BY <1>8, StoredKeeps DEF Rename
<1>9. ASSUME NEW l \in Loaders, Crash(l) PROVE Inv'
  BY <1>9, CrashKeeps
<1>10. ASSUME Tick PROVE Inv'
  BY <1>10, TickKeeps
<1>11. ASSUME UNCHANGED vars PROVE Inv'
  BY <1>11 DEF vars, Inv, TypeOK
<1> QED BY <1>1, <1>2, <1>3, <1>4, <1>5, <1>6, <1>7, <1>8, <1>9, <1>10, <1>11 DEF Next

\* The state of the file and of every load keeps its type.
THEOREM TypeCorrect == Spec => []TypeOK
<1>1. Inv => TypeOK
  BY DEF Inv
<1> QED BY InitInv, NextInv, <1>1, PTL DEF Spec

LEMMA RecentWhenFresh ==
    ASSUME Inv PROVE FreshIsRecent
<1> SUFFICES ASSUME NEW l \in Loaders, Done(l), loader[l].via = "cache",
                    loader[l].fetch = "skipped", ~loader[l].offline
             PROVE  loader[l].startedAt - loader[l].seen.gen <= Ttl + Slack + Lag(l)
  BY DEF FreshIsRecent, Slack, Lag
<1> DEFINE r == loader[l]
<1>1. r \in Loader /\ LoadInv(l, r, now)
  BY DEF Inv, TypeOK
<1>2. Local(r)
  BY <1>1 DEF LoadInv, PathInv, Answers, Done
<1>3. Usable(r.seen) /\ Fresh(r.seen, r.clock)
  BY <1>2 DEF Local
<1>4. r.seen \in Entry /\ r.startedAt \in Nat /\ r.clock \in Nat
  BY <1>1, <1>3 DEF Loader, Usable
<1>5. /\ r.seen.stamp \in Nat /\ r.seen.gen \in Nat
      /\ r.seen.stamp <= r.seen.gen + Slack
      /\ r.clock - r.seen.stamp <= Ttl
      /\ r.startedAt <= r.clock + Lag(l)
  BY <1>1, <1>3, <1>4 DEF Entry, LoadInv, Honest, Fresh, ClockInv
<1>6. Slack \in Nat /\ Lag(l) \in Nat /\ Ttl \in Nat
  BY CacheAssumption DEF Slack, Lag
<1> QED BY <1>4, <1>5, <1>6

\* Prices served as fresh were produced at most Ttl before the load, but for
\* the duration of a fetch and the age of a clock reading, whoever wrote the
\* file and whenever it was renamed into place.
THEOREM FreshIsAlwaysRecent == Spec => []FreshIsRecent
BY InitInv, NextInv, RecentWhenFresh, PTL DEF Spec

LEMMA ContractKept ==
    ASSUME Inv PROVE LifecycleContract
<1> SUFFICES ASSUME NEW l \in Loaders, Done(l)
             PROVE  LET load == loader[l]
                        fresh == load.seen # Null /\ load.clock - load.seen.stamp <= Ttl
                        cached == Usable(load.seen)
                        local == load.offline \/ (cached /\ fresh /\ ~load.refresh)
                    IN  /\ local <=> load.fetch = "skipped"
                        /\ load.fetch = "ok" =>
                                load.via = IF load.store = "failed" /\ l \notin ToleratesStore
                                           THEN "rejected" ELSE "fetch"
                        /\ load.fetch # "ok" => load.via = IF cached THEN "cache" ELSE "none"
  BY DEF LifecycleContract
<1>1. Answers(l, loader[l])
  BY DEF Inv, LoadInv, PathInv, Done
<1> QED BY <1>1 DEF Answers, Local, Fresh, Fallback

\* Offline and fresh loads never fetch and all others do; fetched prices win,
\* but where they cannot be stored and a facade then fails, whatever its cache;
\* and a cache of any age is used when the fetch brought none.
THEOREM ContractHolds == Spec => []LifecycleContract
BY InitInv, NextInv, ContractKept, PTL DEF Spec

LEMMA PricesKept ==
    ASSUME Inv, [Next]_vars PROVE Usable(file) => Usable(file')
<1>1. file' = file \/ \E l \in Loaders : Rename(l)
  BY DEF Next, vars, Start, Respond, FetchFails, FetchEmpty, FetchOk, WriteTmp,
         WriteFails, RenameFails, Crash, Tick
<1>2. ASSUME NEW l \in Loaders, Rename(l) PROVE Usable(file')
  BY <1>2, NotEntries DEF Rename, Inv, LoadInv, GotInv, Usable
<1> QED BY <1>1, <1>2

\* Once the file holds prices it holds prices for ever, whatever processes
\* race, crash or run out of disk.
THEOREM PricesAreKept == Spec => UsableFileKept
<1>1. Inv /\ [Next]_vars => [Usable(file) => Usable(file')]_vars
  BY PricesKept
<1> QED BY InitInv, NextInv, <1>1, PTL DEF Spec, UsableFileKept

-----------------------------------------------------------------------------
(***************************************************************************)
(* CatalogLookup: the loop keeps its type and finds the price that the     *)
(* priorities promise, for any catalogs, any number of them and any        *)
(* candidates.                                                             *)
(***************************************************************************)
LEMMA LessThanIsWellFounded == IsWellFoundedOn({ss \in Nat \X Nat : ss[1] < ss[2]}, Nat)
BY NatLessThanWellFounded DEF OpToRel

LEMMA FirstOfIsLeast ==
    ASSUME NEW positions \in SUBSET Nat, positions # {}
    PROVE  /\ FirstOf(positions) \in positions
           /\ \A j \in positions : FirstOf(positions) <= j
<1> DEFINE R == {ss \in Nat \X Nat : ss[1] < ss[2]}
<1>1. PICK i \in positions : \A j \in positions : <<j, i>> \notin R
    BY LessThanIsWellFounded, WFMin
<1>2. ASSUME NEW j \in positions PROVE i <= j
    <2>1. <<j, i>> \in Nat \X Nat /\ <<j, i>> \notin R
        BY <1>1
    <2>2. <<j, i>>[1] = j /\ <<j, i>>[2] = i
        OBVIOUS
    <2>3. ~(j < i)
        BY <2>1, <2>2
    <2> QED
        BY <2>3
<1> QED
    BY <1>2 DEF FirstOf

\* What match_model says of a catalog, by the positions of its candidates.
LEMMA MatchedMeans ==
    ASSUME LookupTypeOK, NEW k \in DOMAIN catalogs
    PROVE  \/ /\ Matched(k) = Miss(None)
              /\ \A i \in DOMAIN Candidates : ~IsBest(k, i)
           \/ \E i \in DOMAIN Candidates :
                 /\ \A j \in DOMAIN Candidates : IsBest(k, j) <=> j = i
                 /\ Candidates[i] \in Keys /\ catalogs[k][Candidates[i]] \in Prices
                 /\ \/ /\ Matched(k) = Miss(Candidates[i])
                       /\ k # override /\ catalogs[k][Candidates[i]] = "zero"
                    \/ /\ Matched(k) = Hit(k, Candidates[i])
                       /\ k = override \/ catalogs[k][Candidates[i]] # "zero"
<1> DEFINE C == catalogs[k]
           F == Found(C)
<1>1. /\ Candidates \in Seq(Keys) /\ DOMAIN Candidates = 1..Len(Candidates)
      /\ Len(Candidates) \in Nat
      /\ C \in [Keys -> Prices \cup {Absent}]
    BY LookupAssumption DEF LookupTypeOK
<1>2. F \subseteq DOMAIN Candidates /\ F \subseteq Nat
    BY <1>1 DEF Found
<1>3. CASE F = {}
    <2>1. Matched(k) = Miss(None)
        BY <1>3 DEF Matched, MatchModel
    <2>2. \A i \in DOMAIN Candidates : ~IsBest(k, i)
        BY <1>3 DEF Found, IsBest
    <2> QED
        BY <2>1, <2>2
<1>4. CASE F # {}
    <2> DEFINE i == FirstOf(F)
    <2>1. i \in F /\ \A j \in F : i <= j
        BY <1>2, <1>4, FirstOfIsLeast
    <2>2. i \in DOMAIN Candidates /\ Candidates[i] \in Keys
        BY <1>1, <1>2, <2>1
    <2>3. C[Candidates[i]] \in Prices
        BY <1>1, <2>1, <2>2 DEF Found
    <2>4. ASSUME NEW j \in DOMAIN Candidates PROVE IsBest(k, j) <=> j = i
        <3> HIDE DEF i
        <3>1. ASSUME IsBest(k, j), j # i PROVE FALSE
            <4>1. j \in F
                BY <3>1 DEF Found, IsBest
            <4>2. i \in 1..(j - 1)
                BY <1>1, <1>2, <2>1, <2>2, <4>1, <3>1
            <4> QED
                BY <3>1, <4>2, <2>1 DEF Found, IsBest
        <3>2. IsBest(k, i)
            <4>1. ASSUME NEW l \in 1..(i - 1) PROVE C[Candidates[l]] = Absent
                <5>1. l \in DOMAIN Candidates /\ ~(i <= l)
                    BY <1>1, <2>2
                <5>2. l \notin F
                    BY <2>1, <5>1
                <5> QED
                    BY <5>1, <5>2 DEF Found
            <4> QED
                BY <2>1, <4>1 DEF Found, IsBest
        <3> QED
            BY <3>1, <3>2
    <2>5. Matched(k) = IF k # override /\ C[Candidates[i]] = "zero"
                       THEN Miss(Candidates[i]) ELSE Hit(k, Candidates[i])
        BY <1>4 DEF Matched, MatchModel
    <2> HIDE DEF i
    <2> QED
        BY <2>2, <2>3, <2>4, <2>5
<1> QED
    BY <1>3, <1>4

-----------------------------------------------------------------------------
\* The loop's state keeps its type for any catalogs and candidates.
THEOREM LookupTypeCorrect == LookupSpec => []LookupTypeOK
<1>1. LookupInit => LookupTypeOK
    <2> SUFFICES ASSUME LookupInit PROVE LookupTypeOK
        OBVIOUS
    <2>1. PICK n \in 0..MaxCatalogs : catalogs \in [1..n -> Catalogs]
        BY DEF LookupInit
    <2>2. n \in Nat
        BY LookupAssumption
    <2>3. catalogs \in Seq(Catalogs) /\ Len(catalogs) = n
        BY <2>1, <2>2
    <2> QED
        BY <2>2, <2>3 DEF LookupInit, LookupTypeOK
<1>2. LookupTypeOK /\ [LookupNext]_lookupVars => LookupTypeOK'
    <2> SUFFICES ASSUME LookupTypeOK, [LookupNext]_lookupVars PROVE LookupTypeOK'
        OBVIOUS
    <2>1. CASE UNCHANGED lookupVars
        BY <2>1 DEF LookupTypeOK, lookupVars, input
    <2>2. CASE SkipEmpty
        BY <2>2 DEF LookupTypeOK, SkipEmpty, Searching, input
    <2>3. CASE TakeOutright
        BY <2>3 DEF LookupTypeOK, TakeOutright, input
    <2>4. CASE Finish
        BY <2>4 DEF LookupTypeOK, Finish, input
    <2>5. CASE KeepFlat
        <3>1. next \in DOMAIN catalogs /\ next \in 1..Len(catalogs)
            BY <2>5 DEF LookupTypeOK, KeepFlat, Searching
        <3>2. Matched(next).kind = "hit"
            BY <2>5 DEF KeepFlat
        <3>3. PICK i \in DOMAIN Candidates :
                 Candidates[i] \in Keys /\ Matched(next) = Hit(next, Candidates[i])
            BY <3>1, <3>2, MatchedMeans DEF Miss
        <3>4. Matched(next) \in [kind : {"hit"}, catalog : 1..Len(catalogs), key : Keys]
            BY <3>1, <3>3 DEF Hit
        <3>5. flat' \in [kind : {"hit"}, catalog : 1..Len(catalogs), key : Keys] \cup {None}
            BY <2>5, <3>4 DEF KeepFlat, LookupTypeOK
        <3> QED
            BY <2>5, <3>1, <3>5 DEF LookupTypeOK, KeepFlat, input
    <2>6. CASE PassOver
        <3>1. next \in DOMAIN catalogs /\ next \in 1..Len(catalogs)
            BY <2>6 DEF LookupTypeOK, PassOver, Searching
        <3>2. Matched(next).kind = "miss"
            BY <2>6 DEF PassOver
        <3>3. Matched(next).key \in Keys \cup {None}
            BY <3>1, <3>2, MatchedMeans DEF Miss, Hit
        <3> QED
            BY <2>6, <3>1, <3>3 DEF LookupTypeOK, PassOver, input
    <2> QED
        BY <2>1, <2>2, <2>3, <2>4, <2>5, <2>6 DEF LookupNext
<1> QED
    BY <1>1, <1>2, PTL DEF LookupSpec

-----------------------------------------------------------------------------
(***************************************************************************)
(* The loop invariant: what is in hand is the best of the catalogs the     *)
(* loop has passed.                                                        *)
(***************************************************************************)
Positions == DOMAIN Candidates

\* Nothing that ends the search was passed, and no flat price missed.
NothingMissed ==
    \A l \in 1..(next - 1), j \in Positions :
        /\ ~Outright(l, j)
        /\ flat = None => ~Offers(l, j)

FlatInHand ==
    flat # None =>
        \E i \in Positions :
            /\ flat = Hit(flat.catalog, Candidates[i])
            /\ flat.catalog \in 1..(next - 1)
            /\ Sells(flat.catalog, i, "flat")
            /\ \A l \in 1..(flat.catalog - 1), j \in Positions : ~Offers(l, j)

ZeroInHand ==
    IF zeroKey = None
    THEN \A l \in 1..(next - 1), j \in Positions : Offers(l, j) \/ ~IsBest(l, j)
    ELSE \E k \in 1..(next - 1), i \in Positions :
            /\ Sells(k, i, "zero") /\ zeroKey = Candidates[i]
            /\ \A l \in 1..(k - 1), j \in Positions : Offers(l, j) \/ ~IsBest(l, j)

TriedInVain ==
    /\ (\A k \in 1..(next - 1) : IsEmpty(k)) => attempted = {}
    /\ \A k \in 1..(next - 1) :
          ~IsEmpty(k) /\ (\A i \in Positions : ~Offers(k, i))
             => attempted = Range(Candidates)

IInv ==
    /\ NothingMissed /\ FlatInHand /\ ZeroInHand /\ TriedInVain
    /\ HitIsBest /\ MissExplained

LEMMA BestIsPriced ==
    ASSUME LookupTypeOK, NEW k \in DOMAIN catalogs, NEW i \in Positions, IsBest(k, i)
    PROVE  Offers(k, i) \/ (Sells(k, i, "zero") /\ k # override)
<1>1. Candidates[i] \in Keys /\ catalogs[k] \in [Keys -> Prices \cup {Absent}]
    BY LookupAssumption DEF LookupTypeOK, Positions
<1>2. catalogs[k][Candidates[i]] \in Prices
    BY <1>1 DEF IsBest
<1> QED
    BY <1>2 DEF Offers, Outright, Sells, Prices

LEMMA OffersAreBest ==
    ASSUME NEW k, NEW i, Offers(k, i) PROVE IsBest(k, i)
BY DEF Offers, Outright, Sells

LEMMA EmptyOffersNothing ==
    ASSUME LookupTypeOK, NEW k \in DOMAIN catalogs, IsEmpty(k), NEW i \in Positions
    PROVE  ~IsBest(k, i) /\ ~Offers(k, i) /\ ~Outright(k, i)
<1>1. Candidates[i] \in Keys
    BY LookupAssumption DEF Positions
<1>2. ~IsBest(k, i)
    BY <1>1 DEF IsEmpty, IsBest
<1> QED
    BY <1>2 DEF Offers, Outright, Sells

\* A catalog that matches offers exactly the key it matched, and ends the
\* search exactly when the hit does.
LEMMA HitMeans ==
    ASSUME LookupTypeOK, NEW k \in DOMAIN catalogs, Matched(k).kind = "hit"
    PROVE  \E i \in Positions :
              /\ Matched(k) = Hit(k, Candidates[i]) /\ Candidates[i] \in Keys
              /\ Offers(k, i)
              /\ WinsOutright(Matched(k)) => Outright(k, i)
              /\ ~WinsOutright(Matched(k)) =>
                    Sells(k, i, "flat") /\ \A j \in Positions : ~Outright(k, j)
<1>1. PICK i \in Positions :
         /\ \A j \in Positions : IsBest(k, j) <=> j = i
         /\ Candidates[i] \in Keys /\ catalogs[k][Candidates[i]] \in Prices
         /\ Matched(k) = Hit(k, Candidates[i])
         /\ k = override \/ catalogs[k][Candidates[i]] # "zero"
    BY MatchedMeans DEF Miss, Positions
<1>2. WinsOutright(Matched(k)) <=> k = override \/ catalogs[k][Candidates[i]] = "tiered"
    BY <1>1 DEF WinsOutright, Hit
<1>3. \A j \in Positions : Outright(k, j) => j = i
    BY <1>1 DEF Outright, Sells
<1>4. Outright(k, i) <=> WinsOutright(Matched(k))
    BY <1>1, <1>2 DEF Outright, Sells
<1>5. Outright(k, i) \/ Sells(k, i, "flat")
    BY <1>1, <1>2, <1>4 DEF Sells, Prices
<1> QED
    BY <1>1, <1>3, <1>4, <1>5 DEF Offers

LEMMA MissMeans ==
    ASSUME LookupTypeOK, NEW k \in DOMAIN catalogs, Matched(k).kind = "miss"
    PROVE  /\ \A j \in Positions : ~Offers(k, j)
           /\ \/ Matched(k).key = None /\ \A j \in Positions : ~IsBest(k, j)
              \/ \E i \in Positions :
                    /\ Sells(k, i, "zero")
                    /\ Matched(k).key = Candidates[i] /\ Candidates[i] \in Keys
<1>1. CASE Matched(k) = Miss(None) /\ \A i \in Positions : ~IsBest(k, i)
    BY <1>1, OffersAreBest DEF Miss
<1>2. CASE ~(Matched(k) = Miss(None) /\ \A i \in Positions : ~IsBest(k, i))
    <2>1. PICK i \in Positions :
             /\ \A j \in Positions : IsBest(k, j) <=> j = i
             /\ Candidates[i] \in Keys
             /\ Matched(k) = Miss(Candidates[i])
             /\ k # override /\ catalogs[k][Candidates[i]] = "zero"
        BY <1>2, MatchedMeans DEF Hit, Positions
    <2>2. Sells(k, i, "zero")
        BY <2>1 DEF Sells
    <2>3. ~Offers(k, i)
        BY <2>1 DEF Offers, Outright, Sells
    <2>4. Matched(k).key = Candidates[i]
        BY <2>1 DEF Miss
    <2> QED
        BY <2>1, <2>2, <2>3, <2>4, OffersAreBest
<1> QED
    BY <1>1, <1>2

-----------------------------------------------------------------------------
\* The operators over the catalogs read nothing that a step changes.
LEMMA CatalogsStay ==
    ASSUME input' = input
    PROVE  /\ catalogs' = catalogs /\ override' = override
           /\ \A k, i : IsBest(k, i)' <=> IsBest(k, i)
           /\ \A k, i : Outright(k, i)' <=> Outright(k, i)
           /\ \A k, i : Offers(k, i)' <=> Offers(k, i)
           /\ \A k, i, kind : Sells(k, i, kind)' <=> Sells(k, i, kind)
           /\ \A k : IsEmpty(k)' <=> IsEmpty(k)
<1>1. catalogs' = catalogs /\ override' = override
    BY DEF input
<1>2. \A k, i : IsBest(k, i)' <=> IsBest(k, i)
    BY <1>1 DEF IsBest
<1>3. \A k, i, kind : Sells(k, i, kind)' <=> Sells(k, i, kind)
    BY <1>1, <1>2 DEF Sells
<1>4. \A k, i : Outright(k, i)' <=> Outright(k, i)
    BY <1>1, <1>2, <1>3 DEF Outright
<1>5. \A k, i : Offers(k, i)' <=> Offers(k, i)
    BY <1>3, <1>4 DEF Offers
<1>6. \A k : IsEmpty(k)' <=> IsEmpty(k)
    BY <1>1 DEF IsEmpty
<1> QED
    BY <1>1, <1>2, <1>3, <1>4, <1>5, <1>6

\* A step of the loop that goes on to the next catalog keeps the invariant when
\* it treats that catalog right.
LEMMA SkipEmptyKeeps ==
    ASSUME LookupTypeOK, IInv, SkipEmpty PROVE IInv'
<1>1. /\ input' = input /\ flat' = flat /\ zeroKey' = zeroKey
      /\ attempted' = attempted /\ answer' = answer
      /\ answer = None /\ next' = next + 1 /\ next \in DOMAIN catalogs /\ next \in Nat \ {0}
      /\ IsEmpty(next)
    BY DEF SkipEmpty, Searching, input, LookupTypeOK
<1>2. \A k : k \in 1..(next' - 1) <=> (k \in 1..(next - 1) \/ k = next)
    BY <1>1
<1>3. \A j \in Positions : ~IsBest(next, j) /\ ~Offers(next, j) /\ ~Outright(next, j)
    BY <1>1, EmptyOffersNothing
<1>4. NothingMissed'
    BY <1>1, <1>2, <1>3, CatalogsStay DEF IInv, NothingMissed, Positions
<1>5. FlatInHand'
    BY <1>1, <1>2, CatalogsStay DEF IInv, FlatInHand, Positions, Hit
<1>6. ZeroInHand'
    BY <1>1, <1>2, <1>3, CatalogsStay DEF IInv, ZeroInHand, Positions
<1>7. TriedInVain'
    BY <1>1, <1>2, CatalogsStay DEF IInv, TriedInVain, Positions
<1>8. HitIsBest' /\ MissExplained'
    BY <1>1 DEF HitIsBest, MissExplained
<1> QED
    BY <1>4, <1>5, <1>6, <1>7, <1>8 DEF IInv

LEMMA KeepFlatKeeps ==
    ASSUME LookupTypeOK, IInv, KeepFlat PROVE IInv'
<1>1. /\ input' = input /\ zeroKey' = zeroKey
      /\ attempted' = attempted /\ answer' = answer
      /\ answer = None /\ next' = next + 1 /\ next \in DOMAIN catalogs /\ next \in Nat \ {0}
      /\ ~IsEmpty(next)
      /\ Matched(next).kind = "hit" /\ ~WinsOutright(Matched(next))
      /\ flat' = IF flat = None THEN Matched(next) ELSE flat
    BY DEF KeepFlat, Searching, input, LookupTypeOK
<1>2. \A k : k \in 1..(next' - 1) <=> (k \in 1..(next - 1) \/ k = next)
    BY <1>1
<1>3. PICK i \in Positions :
         /\ Matched(next) = Hit(next, Candidates[i]) /\ Candidates[i] \in Keys
         /\ Offers(next, i) /\ Sells(next, i, "flat")
         /\ \A j \in Positions : ~Outright(next, j)
    BY <1>1, HitMeans
<1>4. Matched(next) # None /\ flat' # None
    BY <1>1, <1>3, LookupAssumption DEF Hit
<1>5. NothingMissed'
    BY <1>1, <1>2, <1>3, <1>4, CatalogsStay DEF IInv, NothingMissed, Positions
<1>6. FlatInHand'
    <2>1. CASE flat = None
        <3>1. flat' = Hit(next, Candidates[i]) /\ flat'.catalog = next
            BY <1>1, <1>3, <2>1 DEF Hit
        <3>2. \A l \in 1..(next - 1), j \in Positions : ~Offers(l, j)
            BY <2>1 DEF IInv, NothingMissed
        <3> QED
            BY <1>1, <1>2, <1>3, <3>1, <3>2, CatalogsStay DEF FlatInHand, Positions, Hit
    <2>2. CASE flat # None
        BY <1>1, <1>2, <2>2, CatalogsStay DEF IInv, FlatInHand, Positions, Hit
    <2> QED
        BY <2>1, <2>2
<1>7. ZeroInHand'
    <2>1. \A j \in Positions : Offers(next, j) \/ ~IsBest(next, j)
        BY <1>1, <1>3, MatchedMeans DEF Positions, Miss, Offers, Outright, Sells
    <2> QED
        BY <1>1, <1>2, <2>1, CatalogsStay DEF IInv, ZeroInHand, Positions
<1>8. TriedInVain'
    BY <1>1, <1>2, <1>3, CatalogsStay DEF IInv, TriedInVain, Positions
<1>9. HitIsBest' /\ MissExplained'
    BY <1>1 DEF HitIsBest, MissExplained
<1> QED
    BY <1>5, <1>6, <1>7, <1>8, <1>9 DEF IInv

LEMMA PassOverKeeps ==
    ASSUME LookupTypeOK, IInv, PassOver PROVE IInv'
<1>1. /\ input' = input /\ flat' = flat /\ answer' = answer
      /\ attempted' = attempted \cup Range(Candidates)
      /\ answer = None /\ next' = next + 1 /\ next \in DOMAIN catalogs /\ next \in Nat \ {0}
      /\ ~IsEmpty(next)
      /\ Matched(next).kind = "miss"
      /\ zeroKey' = IF zeroKey = None THEN Matched(next).key ELSE zeroKey
    BY DEF PassOver, Searching, input, LookupTypeOK
<1>2. \A k : k \in 1..(next' - 1) <=> (k \in 1..(next - 1) \/ k = next)
    BY <1>1
<1>3. \A j \in Positions : ~Offers(next, j) /\ ~Outright(next, j)
    BY <1>1, MissMeans DEF Offers
<1>4. NothingMissed'
    BY <1>1, <1>2, <1>3, CatalogsStay DEF IInv, NothingMissed, Positions
<1>5. FlatInHand'
    BY <1>1, <1>2, CatalogsStay DEF IInv, FlatInHand, Positions, Hit
<1>6. ZeroInHand'
    <2>1. CASE zeroKey # None
        <3>1. zeroKey' = zeroKey
            BY <1>1, <2>1
        <3> QED
            BY <1>1, <1>2, <2>1, <3>1, CatalogsStay DEF IInv, ZeroInHand, Positions
    <2>2. CASE zeroKey = None /\ Matched(next).key = None
        <3>1. \A j \in Positions : ~IsBest(next, j)
            BY <1>1, <2>2, MissMeans, LookupAssumption
        <3>2. zeroKey' = None
            BY <1>1, <2>2
        <3> QED
            BY <1>1, <1>2, <2>2, <3>1, <3>2, CatalogsStay DEF IInv, ZeroInHand, Positions
    <2>3. CASE zeroKey = None /\ Matched(next).key # None
        <3>1. PICK i \in Positions :
                 Sells(next, i, "zero") /\ Matched(next).key = Candidates[i]
            BY <1>1, <2>3, MissMeans
        <3>2. zeroKey' = Candidates[i] /\ zeroKey' # None
            BY <1>1, <2>3, <3>1
        <3>3. \A l \in 1..(next - 1), j \in Positions : Offers(l, j) \/ ~IsBest(l, j)
            BY <2>3 DEF IInv, ZeroInHand
        <3> QED
            BY <1>1, <1>2, <3>1, <3>2, <3>3, CatalogsStay DEF ZeroInHand, Positions
    <2> QED
        BY <2>1, <2>2, <2>3
<1>7. TriedInVain'
    <2>1. attempted' = Range(Candidates)
        BY <1>1 DEF LookupTypeOK
    <2> QED
        BY <1>1, <1>2, <2>1, CatalogsStay DEF TriedInVain, Positions
<1>8. HitIsBest' /\ MissExplained'
    BY <1>1 DEF HitIsBest, MissExplained
<1> QED
    BY <1>4, <1>5, <1>6, <1>7, <1>8 DEF IInv

LEMMA TakeOutrightKeeps ==
    ASSUME LookupTypeOK, IInv, TakeOutright PROVE IInv'
<1>1. /\ input' = input /\ flat' = flat /\ zeroKey' = zeroKey
      /\ attempted' = attempted /\ next' = next
      /\ next \in DOMAIN catalogs
      /\ Matched(next).kind = "hit" /\ WinsOutright(Matched(next))
      /\ answer' = Matched(next)
    BY DEF TakeOutright, Searching, input, LookupTypeOK
<1>2. PICK i \in Positions :
         Matched(next) = Hit(next, Candidates[i]) /\ Outright(next, i)
    BY <1>1, HitMeans
<1>3. answer'.kind = "hit" /\ answer'.catalog = next /\ answer'.key = Candidates[i]
    BY <1>1, <1>2 DEF Hit
<1>4. \A l \in 1..(next - 1), j \in Positions : ~Outright(l, j)
    BY DEF IInv, NothingMissed
<1>5. HitIsBest'
    BY <1>1, <1>2, <1>3, <1>4, CatalogsStay DEF HitIsBest, Positions
<1>6. MissExplained'
    BY <1>3 DEF MissExplained
<1>7. NothingMissed' /\ ZeroInHand' /\ TriedInVain'
    BY <1>1, CatalogsStay DEF IInv, NothingMissed, ZeroInHand, TriedInVain, Positions
<1>8. FlatInHand'
    BY <1>1, CatalogsStay DEF IInv, FlatInHand, Positions, Hit
<1> QED
    BY <1>5, <1>6, <1>7, <1>8 DEF IInv

LEMMA FinishKeeps ==
    ASSUME LookupTypeOK, IInv, Finish PROVE IInv'
<1>1. /\ input' = input /\ flat' = flat /\ zeroKey' = zeroKey
      /\ attempted' = attempted /\ next' = next
      /\ answer' = IF flat # None THEN flat
                   ELSE IF zeroKey # None THEN Placeholder(zeroKey)
                   ELSE Miss(None)
    BY DEF Finish, input
<1>2. /\ DOMAIN catalogs = 1..(next - 1) /\ next \in Nat \ {0}
      /\ Len(catalogs) \in Nat
    BY DEF Finish, LookupTypeOK
<1>3. NothingMissed' /\ ZeroInHand' /\ TriedInVain'
    BY <1>1, CatalogsStay DEF IInv, NothingMissed, ZeroInHand, TriedInVain, Positions
<1>4. FlatInHand'
    BY <1>1, CatalogsStay DEF IInv, FlatInHand, Positions, Hit
<1>5. CASE flat # None
    <2>1. PICK i \in Positions :
             /\ flat = Hit(flat.catalog, Candidates[i])
             /\ flat.catalog \in 1..(next - 1)
             /\ Sells(flat.catalog, i, "flat")
             /\ \A l \in 1..(flat.catalog - 1), j \in Positions : ~Offers(l, j)
        BY <1>5 DEF IInv, FlatInHand
    <2>2. answer' = flat /\ flat.kind = "hit" /\ flat.key = Candidates[i]
        BY <1>1, <1>5, <2>1 DEF Hit
    <2>3. \A l \in DOMAIN catalogs, j \in Positions : ~Outright(l, j)
        BY <1>2 DEF IInv, NothingMissed
    <2>4. HitIsBest'
        BY <1>1, <2>1, <2>2, <2>3, CatalogsStay DEF HitIsBest, Positions
    <2>5. MissExplained'
        BY <2>2 DEF MissExplained
    <2> QED
        BY <1>3, <1>4, <2>4, <2>5 DEF IInv
<1>6. CASE flat = None
    <2>1. \A l \in DOMAIN catalogs, j \in Positions : ~Offers(l, j)
        BY <1>2, <1>6 DEF IInv, NothingMissed
    <2>2. answer'.kind # "hit"
        BY <1>1, <1>6 DEF Placeholder, Miss
    <2>3. HitIsBest'
        BY <2>2 DEF HitIsBest
    <2>4. attempted = IF \A k \in DOMAIN catalogs : IsEmpty(k) THEN {}
                      ELSE Range(Candidates)
        BY <1>2, <2>1 DEF IInv, TriedInVain
    <2>5. CASE zeroKey # None
        <3>1. answer'.kind = "zeroCost" /\ answer'.key = zeroKey
            BY <1>1, <1>6, <2>5 DEF Placeholder
        <3>2. PICK k \in DOMAIN catalogs, i \in Positions :
                 /\ Sells(k, i, "zero") /\ zeroKey = Candidates[i]
                 /\ \A l \in 1..(k - 1), j \in Positions : Offers(l, j) \/ ~IsBest(l, j)
            BY <1>2, <2>5 DEF IInv, ZeroInHand
        <3>3. ASSUME NEW l \in 1..(k - 1), NEW j \in Positions PROVE ~IsBest(l, j)
            <4>1. k \in 1..(next - 1)
                BY <1>2
            <4>2. l \in 1..(next - 1)
                BY <1>2, <4>1
            <4>3. ~Offers(l, j)
                BY <1>2, <2>1, <4>2
            <4> QED
                BY <3>2, <4>3
        <3>4. MissExplained'
            BY <1>1, <2>1, <2>4, <3>1, <3>2, <3>3, CatalogsStay DEF MissExplained, Positions
        <3> QED
            BY <1>3, <1>4, <2>3, <3>4 DEF IInv
    <2>6. CASE zeroKey = None
        <3>1. answer'.kind = "miss"
            BY <1>1, <1>6, <2>6 DEF Miss
        <3>2. \A l \in DOMAIN catalogs, j \in Positions : ~IsBest(l, j)
            BY <1>2, <2>1, <2>6 DEF IInv, ZeroInHand
        <3>3. MissExplained'
            BY <1>1, <2>1, <2>4, <3>1, <3>2, CatalogsStay DEF MissExplained, Positions
        <3> QED
            BY <1>3, <1>4, <2>3, <3>3 DEF IInv
    <2> QED
        BY <2>5, <2>6
<1> QED
    BY <1>5, <1>6

LEMMA LoopCorrect == LookupSpec => []IInv
<1>1. LookupInit => IInv
    <2> SUFFICES ASSUME LookupInit PROVE IInv
        OBVIOUS
    <2>1. 1..(next - 1) = {} /\ flat = None /\ zeroKey = None /\ attempted = {} /\ answer = None
        BY DEF LookupInit
    <2> QED
        BY <2>1 DEF IInv, NothingMissed, FlatInHand, ZeroInHand, TriedInVain,
                    HitIsBest, MissExplained
<1>2. LookupTypeOK /\ IInv /\ [LookupNext]_lookupVars => IInv'
    <2> SUFFICES ASSUME LookupTypeOK, IInv, [LookupNext]_lookupVars PROVE IInv'
        OBVIOUS
    <2>1. CASE UNCHANGED lookupVars
        <3>1. /\ input' = input /\ flat' = flat /\ zeroKey' = zeroKey
              /\ attempted' = attempted /\ next' = next /\ answer' = answer
            BY <2>1 DEF lookupVars
        <3>2. NothingMissed' /\ ZeroInHand' /\ TriedInVain'
            BY <3>1, CatalogsStay DEF IInv, NothingMissed, ZeroInHand, TriedInVain, Positions
        <3>3. FlatInHand'
            BY <3>1, CatalogsStay DEF IInv, FlatInHand, Positions, Hit
        <3>4. HitIsBest'
            BY <3>1, CatalogsStay DEF IInv, HitIsBest, Positions
        <3>5. MissExplained'
            BY <3>1, CatalogsStay DEF IInv, MissExplained, Positions
        <3> QED
            BY <3>2, <3>3, <3>4, <3>5 DEF IInv
    <2>2. CASE SkipEmpty
        BY <2>2, SkipEmptyKeeps
    <2>3. CASE TakeOutright
        BY <2>3, TakeOutrightKeeps
    <2>4. CASE KeepFlat
        BY <2>4, KeepFlatKeeps
    <2>5. CASE PassOver
        BY <2>5, PassOverKeeps
    <2>6. CASE Finish
        BY <2>6, FinishKeeps
    <2> QED
        BY <2>1, <2>2, <2>3, <2>4, <2>5, <2>6 DEF LookupNext
<1> QED
    BY <1>1, <1>2, LookupTypeCorrect, PTL DEF LookupSpec

\* lookup_model finds the price that the priorities promise: an override or a
\* tiered price before a flat one, the first catalog among equals, its most
\* confident key, and never a market placeholder.
THEOREM HitIsAlwaysBest == LookupSpec => []HitIsBest
<1>1. IInv => HitIsBest
    BY DEF IInv
<1> QED
    BY <1>1, LoopCorrect, PTL

\* It reports a miss only when no catalog offers a price, with the right reason
\* and the keys it tried.
THEOREM MissIsAlwaysExplained == LookupSpec => []MissExplained
<1>1. IInv => MissExplained
    BY DEF IInv
<1> QED
    BY <1>1, LoopCorrect, PTL
=============================================================================
