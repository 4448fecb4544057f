-------------------------- MODULE MCCodexSession --------------------------
(***************************************************************************)
(* Small instances of CodexSession: two counters, so that totals can step  *)
(* back in one while they advance in the other.                            *)
(***************************************************************************)
EXTENDS CodexSession, TLC

TwoKinds == {"input", "output"}

Small == [k \in TwoKinds |-> IF k = "input" THEN 1 ELSE 0]
Large == [k \in TwoKinds |-> IF k = "input" THEN 1 ELSE 2]
SomeAmounts == {Small, Large}
OneAmount == {Small}
=============================================================================
