---------------------------- MODULE CatalogMemo ----------------------------
(***************************************************************************)
(* What every skopli facade promises about its in-memory catalogs, without *)
(* saying how: at most one load at a time, a load that succeeded is reused *)
(* for strictly less than Ttl, one that failed is forgotten, and a refresh *)
(* asked for at construction is spent exactly once per source and before   *)
(* the first load is declared complete.                                    *)
(*                                                                         *)
(* The TypeScript facade (PricingLoader) keeps this promise with memoized  *)
(* promises, the SDKs over the C ABI (PricingHandle) with a lock.          *)
(***************************************************************************)
EXTENDS Naturals

CONSTANTS
    Sources,        \* the pricing sources of one instance
    Ttl,            \* ttlMs, in ticks
    Refresh,        \* the one-shot refresh option
    MaxTime         \* bound on the clock

VARIABLES
    now,            \* the clock
    phase,          \* "empty", "loading" or "ready"
    readyAt,        \* when the catalogs were completed, 0 when there are none
    owed            \* the sources that still owe their refresh fetch

memoVars == <<now, phase, readyAt, owed>>

Init ==
    /\ now = 0
    /\ phase = "empty"
    /\ readyAt = 0
    /\ owed = IF Refresh THEN Sources ELSE {}

Begin ==
    /\ \/ phase = "empty"
       \/ phase = "ready" /\ now - readyAt >= Ttl
    /\ phase' = "loading"
    /\ readyAt' = 0
    /\ UNCHANGED <<now, owed>>

\* A source completes its refresh fetch inside a load that goes on.
Refetched ==
    /\ phase = "loading"
    /\ \E s \in owed : owed' = owed \ {s}
    /\ UNCHANGED <<now, phase, readyAt>>

\* The load ends and nothing is owed any more.
Complete ==
    /\ phase = "loading"
    /\ phase' = "ready"
    /\ readyAt' = now
    /\ owed' = {}
    /\ UNCHANGED now

Fail ==
    /\ phase = "loading"
    /\ phase' = "empty"
    /\ UNCHANGED <<now, readyAt, owed>>

Tick ==
    /\ now < MaxTime
    /\ now' = now + 1
    /\ UNCHANGED <<phase, readyAt, owed>>

Next == Begin \/ Refetched \/ Complete \/ Fail \/ Tick

Spec == Init /\ [][Next]_memoVars
=============================================================================
