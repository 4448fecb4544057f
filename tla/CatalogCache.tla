---------------------------- MODULE CatalogCache ----------------------------
(***************************************************************************)
(* One source's on-disk cache file, pricing-<name>.json, shared by every   *)
(* process that prices with skopli: the core, the TypeScript facade and    *)
(* the SDKs use one directory and one file format, and no lock.            *)
(*                                                                         *)
(* A loader is one call of cachedSource.load / load_one.  Its actions are  *)
(* the points where another process, the network or a crash can get in     *)
(* between: the read of the file, the response, the write of the temporary *)
(* file, the rename.  The temporary file has a name no other loader uses,  *)
(* so it is part of its loader's state (got).  A payload is abstracted to  *)
(* the time the server produced it and to whether it parses to a price.    *)
(***************************************************************************)
EXTENDS Integers

CONSTANTS
    Loaders,        \* concurrent loads, in any number of processes
    StampsAtStart,  \* loaders that read the clock once, before their sources
    ToleratesStore, \* loaders that answer although the cache write failed
    Ttl,            \* cache freshness window, in ticks
    FetchTimeout,   \* FETCH_TIMEOUT, in ticks
    ClockLag,       \* bound on the age of that reading: the sources before
    Null,           \* no file, no entry
    Torn,           \* a file that does not parse
    MaxTime         \* bound on the clock

\* A complete cache file: its fetchedAt, when the server produced its payload,
\* and whether the payload parses to any price.
Entry == [stamp : Nat, gen : Nat, usable : BOOLEAN]

ASSUME CacheAssumption ==
    /\ StampsAtStart \subseteq Loaders /\ ToleratesStore \subseteq Loaders
    /\ Ttl \in Nat /\ FetchTimeout \in Nat
    /\ ClockLag \in Nat /\ MaxTime \in Nat
    /\ Null \notin Entry /\ Torn \notin Entry /\ Null # Torn

VARIABLES
    now,            \* the wall clock all processes read
    file,           \* the cache file
    loader          \* the loads

vars == <<now, file, loader>>

Files == Entry \cup {Null, Torn}

Usable(entry) == entry \notin {Null, Torn} /\ entry.usable

\* clock: the reading of the clock the load goes by; startedAt: the time it
\* really started at; seen: the cache as read then; fetch and store: what the
\* network and the disk did; got: the payload being fetched or the entry being
\* written; via: where the answer came from.
Loader == [pc : {"idle", "fetching", "answering", "writing", "renaming", "done"},
           refresh : BOOLEAN, offline : BOOLEAN,
           clock : Nat, startedAt : Nat, seen : Entry \cup {Null},
           fetch : {"skipped", "failed", "empty", "ok"},
           store : {"skipped", "failed", "ok"},
           got : Entry \cup {Null},
           via : {"nothing", "cache", "fetch", "none", "rejected"}]

Idle == [pc |-> "idle", refresh |-> FALSE, offline |-> FALSE,
         clock |-> 0, startedAt |-> 0, seen |-> Null,
         fetch |-> "skipped", store |-> "skipped", got |-> Null, via |-> "nothing"]

Init ==
    /\ now = 0
    /\ file \in {Null, Torn} \cup [stamp : {0}, gen : {0}, usable : BOOLEAN]
    /\ loader = [l \in Loaders |-> Idle]

-----------------------------------------------------------------------------
\* loadCached: a file that does not parse is no cache; age > ttl is stale.
LoadCached == IF file = Torn THEN Null ELSE file

\* Mutation: the age at which an entry goes stale is one unit late.
FreshLate(entry, clock) == entry # Null /\ clock - entry.stamp <= Ttl + 1

Fresh(entry, clock) == entry # Null /\ clock - entry.stamp <= Ttl

\* The any-age fallback: the cached catalog, if there is one.
Fallback(entry) == IF Usable(entry) THEN "cache" ELSE "none"

\* Mutation: a fresh entry is served also when a refresh was asked for.
ServesCacheDespiteRefresh(entry, clock, refresh, offline) ==
    Usable(entry) /\ (Fresh(entry, clock) \/ offline)

ServesCache(entry, clock, refresh, offline) ==
    Usable(entry) /\ ((Fresh(entry, clock) /\ ~refresh) \/ offline)

\* load_with reads the clock once for all its sources, so the reading a later
\* source goes by may be old; the facades read it per source.
Clock(l) == {t \in 0..now : t = now \/ (l \in StampsAtStart /\ now - t <= ClockLag)}

\* The part of load that runs before the fetch.
Start(l, clock, refresh, offline) ==
    /\ loader[l].pc \in {"idle", "done"}
    /\ LET begun == [Idle EXCEPT !.refresh = refresh, !.offline = offline,
                                 !.clock = clock, !.startedAt = now,
                                 !.seen = LoadCached]
       IN  loader' = [loader EXCEPT ![l] =
             IF ServesCache(LoadCached, clock, refresh, offline)
             THEN [begun EXCEPT !.pc = "done", !.via = "cache"]
             ELSE IF offline
             THEN [begun EXCEPT !.pc = "done", !.via = "none"]
             ELSE [begun EXCEPT !.pc = "fetching"]]
    /\ UNCHANGED <<now, file>>

\* The server produces its answer, with or without prices.
Respond(l) ==
    /\ loader[l].pc = "fetching"
    /\ \E usable \in BOOLEAN :
         loader' = [loader EXCEPT ![l].pc = "answering",
                      ![l].got = [stamp |-> 0, gen |-> now, usable |-> usable]]
    /\ UNCHANGED <<now, file>>

\* No connection, an error status, a body that is not JSON, or the timeout.
FetchFails(l) ==
    /\ loader[l].pc \in {"fetching", "answering"}
    /\ loader' = [loader EXCEPT ![l].pc = "done", ![l].fetch = "failed",
                    ![l].got = Null, ![l].via = Fallback(loader[l].seen)]
    /\ UNCHANGED <<now, file>>

\* The payload arrived but parses to no price: as good as a failed fetch.
FetchEmpty(l) ==
    /\ loader[l].pc = "answering"
    /\ ~loader[l].got.usable
    /\ loader' = [loader EXCEPT ![l].pc = "done", ![l].fetch = "empty",
                    ![l].got = Null, ![l].via = Fallback(loader[l].seen)]
    /\ UNCHANGED <<now, file>>

\* The payload arrived with prices: storeCached chooses the stamp.
FetchOk(l) ==
    /\ loader[l].pc = "answering"
    /\ loader[l].got.usable
    /\ loader' = [loader EXCEPT ![l].pc = "writing", ![l].fetch = "ok",
                    ![l].got.stamp = IF l \in StampsAtStart
                                     THEN loader[l].clock ELSE now]
    /\ UNCHANGED <<now, file>>

-----------------------------------------------------------------------------
\* Mutation: the payload is written into the cache file itself.
WriteInPlace(l) ==
    /\ loader[l].pc = "writing"
    /\ file' = Torn
    /\ loader' = [loader EXCEPT ![l].pc = "renaming"]
    /\ UNCHANGED now

\* storeCached: write a temporary file of a unique name, then rename it.
WriteTmp(l) ==
    /\ loader[l].pc = "writing"
    /\ loader' = [loader EXCEPT ![l].pc = "renaming"]
    /\ UNCHANGED <<now, file>>

StoreFailed(l) ==
    [loader EXCEPT ![l].pc = "done", ![l].store = "failed", ![l].got = Null,
        ![l].via = IF l \in ToleratesStore THEN "fetch" ELSE "rejected"]

\* The directory or the temporary file cannot be written.
WriteFails(l) ==
    /\ loader[l].pc = "writing"
    /\ loader' = StoreFailed(l)
    /\ UNCHANGED <<now, file>>

Rename(l) ==
    /\ loader[l].pc = "renaming"
    /\ file' = loader[l].got
    /\ loader' = [loader EXCEPT ![l].pc = "done", ![l].store = "ok",
                    ![l].got = Null, ![l].via = "fetch"]
    /\ UNCHANGED now

\* The rename fails; what becomes of the temporary file concerns nobody else.
RenameFails(l) ==
    /\ loader[l].pc = "renaming"
    /\ loader' = StoreFailed(l)
    /\ UNCHANGED <<now, file>>

\* The process dies, between any two steps; the cache file stays as it is.
Crash(l) ==
    /\ loader[l].pc \notin {"idle", "done"}
    /\ loader' = [loader EXCEPT ![l] = Idle]
    /\ UNCHANGED <<now, file>>

\* Time passes, but not past the timeout of a fetch in progress.
Tick ==
    /\ now < MaxTime
    /\ \A l \in Loaders : loader[l].pc \in {"fetching", "answering"}
                            => now - loader[l].startedAt < FetchTimeout
    /\ now' = now + 1
    /\ UNCHANGED <<file, loader>>

Next ==
    \/ \E l \in Loaders :
         \/ \E clock \in Clock(l), refresh, offline \in BOOLEAN :
              Start(l, clock, refresh, offline)
         \/ Respond(l) \/ FetchFails(l) \/ FetchEmpty(l) \/ FetchOk(l)
         \/ WriteTmp(l) \/ WriteFails(l) \/ Rename(l) \/ RenameFails(l)
         \/ Crash(l)
    \/ Tick

Spec == Init /\ [][Next]_vars

-----------------------------------------------------------------------------
(***************************************************************************)
(* Properties.                                                             *)
(***************************************************************************)

Done(l) == loader[l].pc = "done"

\* Whatever processes race, crash or run out of disk, once the file holds
\* prices it holds prices for ever: it is never torn, removed, or replaced by
\* a payload without prices.
UsableFileKept == [][Usable(file) => Usable(file')]_vars

\* Prices served as fresh, without a fetch, were produced by the server at
\* most Ttl before the load, but for two slacks the code really has: the
\* duration of the fetch for writers that stamp after it, and the age of the
\* clock reading for loaders that read it early.  How late the file was
\* renamed into place, or by whom, adds nothing.
FreshIsRecent ==
    \A l \in Loaders :
        Done(l) /\ loader[l].via = "cache" /\ loader[l].fetch = "skipped"
                /\ ~loader[l].offline
          => loader[l].startedAt - loader[l].seen.gen <=
               Ttl + (IF StampsAtStart = Loaders THEN 0 ELSE FetchTimeout)
                   + (IF l \in StampsAtStart THEN ClockLag ELSE 0)

\* The lifecycle contract every facade's fixtures pin: offline and fresh loads
\* never fetch, everything else does; fetched prices win, and a cache of any
\* age is used whenever the fetch brought none.  Of fetched prices that cannot
\* be stored the contract says nothing: the core answers with them, the
\* TypeScript facade rejects the load, though the cache it read is usable.
LifecycleContract ==
    \A l \in Loaders : Done(l) =>
        LET load == loader[l]
            fresh == load.seen # Null /\ load.clock - load.seen.stamp <= Ttl
            cached == Usable(load.seen)
            local == load.offline \/ (cached /\ fresh /\ ~load.refresh)
        IN  /\ local <=> load.fetch = "skipped"
            /\ load.fetch = "ok" =>
                    load.via = IF load.store = "failed" /\ l \notin ToleratesStore
                               THEN "rejected" ELSE "fetch"
            /\ load.fetch # "ok" => load.via = IF cached THEN "cache" ELSE "none"
=============================================================================
