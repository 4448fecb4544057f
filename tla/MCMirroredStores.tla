------------------------- MODULE MCMirroredStores -------------------------
(***************************************************************************)
(* Small instances of MirroredStores: a session of a prompt and two calls, *)
(* for Grok of a prompt and a call, twice, beside a session of one call.   *)
(***************************************************************************)
EXTENDS MirroredStores, TLC

CONSTANTS s1, s2, f1, f2

TwoSessions ==
    (s1 :> <<"prompt", "call", "call", "prompt", "call">>) @@ (s2 :> <<"call">>)

\* Where prompts are not read they are left out; OpenCode, whose stores have
\* the most states, has the one session, and Devin, whose sessions also have
\* titles, one call in each.  Grok's totals go on from turn to turn, or within
\* one, for a prompt need not be in its updates.
GivenTo(h) ==
    CASE h = "opencode" -> {s1} \X (1..3)
      [] h = "grok" -> {s1} \X {1, 3, 4, 5}
      [] h = "devin" -> {<<s1, 2>>, <<s2, 1>>}
      [] h \in {"copilot", "deepseek", "reasonix", "hermes", "jcode"} ->
            {<<s1, 2>>, <<s1, 3>>, <<s2, 1>>}
      [] OTHER -> ({s1} \X (1..3)) \cup {<<s2, 1>>}

FileOf(s) == IF s = s1 THEN f1 ELSE f2
=============================================================================
