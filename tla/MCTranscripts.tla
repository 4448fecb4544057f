--------------------------- MODULE MCTranscripts ---------------------------
(***************************************************************************)
(* Small instances of Transcripts.                                         *)
(***************************************************************************)
EXTENDS Transcripts

TwoFiles == 1..2
OneSession == <<<<"prompt", "call", "call", "prompt", "call">>>>

OddUpTo(h) == IF h \in {"claude", "kimi", "copilot"} THEN 1 ELSE 2

ReadsPrompts == {"claude", "qwen", "gemini", "pi", "junie", "amp", "kilo", "fx"}
GivenTo(h) ==
    CASE h = "amp" -> {<<1, i>> : i \in 1..3}
      [] h \in ReadsPrompts \ {"amp"} -> Entries
      [] h = "copilot" -> {<<1, 2>>, <<1, 3>>}
      [] OTHER -> Calls
=============================================================================
