------------------------------ MODULE Scripts ------------------------------
(***************************************************************************)
(* What a harness writes about: a session is a script of entries, prompts  *)
(* and the calls that answer them.                                         *)
(***************************************************************************)
EXTENDS Integers, Sequences, FiniteSets

CONSTANT Script     \* what each session consists of: Seq({"prompt", "call"})

Sessions == DOMAIN Script
Entries == UNION {{s} \X DOMAIN Script[s] : s \in Sessions}
Kind(e) == Script[e[1]][e[2]]
Calls == {e \in Entries : Kind(e) = "call"}
Prompts == Entries \ Calls

SameSession(e, f) == e[1] = f[1]
Precedes(e, f) == SameSession(e, f) /\ e[2] < f[2]

\* The prompts before an entry, and the one that a call answers.
Prompted(e) == {p \in Prompts : Precedes(p, e)}
PromptOf(e) == CHOOSE p \in Prompted(e) : \A q \in Prompted(e) : q[2] <= p[2]
=============================================================================
