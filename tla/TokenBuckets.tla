---------------------------- MODULE TokenBuckets ----------------------------
(***************************************************************************)
(* How the readers turn the counts that a harness logs into the disjoint   *)
(* buckets of TokenCounts.  A harness counts a token wherever it likes:    *)
(* cached tokens inside the input or beside it, reasoning inside the       *)
(* output or beside it, a total of some of these or none.  The reader      *)
(* knows which convention it has before it from comments on the vendor's   *)
(* code, or from the total, and counts every token once.                   *)
(*                                                                         *)
(* A call really spends some tokens, Spent, of which a convention (an      *)
(* operator ...Log, external) makes the counts that are logged, and a      *)
(* reader (the operator named for it) makes buckets again.  A count that   *)
(* may be missing is a set of at most one number.                          *)
(***************************************************************************)
EXTENDS Integers

Spent == [fresh : Nat, read : Nat, write : Nat, answer : Nat, thought : Nat, tool : Nat]

TokenCounts ==
    [input : Nat, output : Nat, cacheRead : Nat, cacheWrite : Nat, reasoning : Nat]

Buckets(input, output, read, write, reasoning) ==
    [input |-> input, output |-> output, cacheRead |-> read, cacheWrite |-> write,
     reasoning |-> reasoning]

\* The buckets of what was spent: a tool's prompt is input.
Due(s) == Buckets(s.fresh + s.tool, s.answer, s.read, s.write, s.thought)

Total(b) == b.input + b.output + b.cacheRead + b.cacheWrite + b.reasoning

\* saturating_sub, and (a - b).max(0.0)
Minus(a, b) == IF a >= b THEN a - b ELSE 0
Lesser(a, b) == IF a <= b THEN a ELSE b
Or0(count) == IF count = {} THEN 0 ELSE CHOOSE n \in count : TRUE

-----------------------------------------------------------------------------
(***************************************************************************)
(* Everything inside: Codex, ZCode, Grok's unified log.                    *)
(***************************************************************************)
InclusiveLog(s) ==
    [input |-> s.fresh + s.read + s.write, output |-> s.answer + s.thought,
     read |-> s.read, write |-> s.write, reasoning |-> s.thought]

\* More cached than there was input, or more reasoning than output, is cut.
CodexUsage(l) ==
    LET read == Lesser(l.read, l.input)
    IN  Buckets(Minus(l.input, read + l.write), l.output, read, l.write, l.reasoning)

SplitReasoning(b) ==
    LET reasoning == Lesser(b.reasoning, b.output)
    IN  Buckets(b.input, b.output - reasoning, b.cacheRead, b.cacheWrite, reasoning)

Codex(l) == SplitReasoning(CodexUsage(l))

Zcode(l) ==
    Buckets(Minus(Minus(l.input, l.read), l.write), Minus(l.output, l.reasoning),
            l.read, l.write, l.reasoning)

GrokUnified(l) ==
    LET read == Lesser(l.read, l.input)
        reasoning == Lesser(l.reasoning, l.output)
    IN  Buckets(l.input - read, l.output - reasoning, read, 0, reasoning)

\* Reasonix's sidecars split the prompt, and reasoning past the output is
\* malformed: no count.
ReasonixLog(s) ==
    [output |-> s.answer + s.thought, read |-> s.read, miss |-> s.fresh, reasoning |-> s.thought]
Reasonix(l) ==
    IF l.reasoning > l.output THEN {}
    ELSE {Buckets(l.miss, l.output - l.reasoning, l.read, 0, l.reasoning)}

-----------------------------------------------------------------------------
(***************************************************************************)
(* Cached tokens inside the input, reasoning not told apart: Cline's CLI   *)
(* and jcode's snapshots.                                                  *)
(***************************************************************************)
PromptLog(s) ==
    [input |-> s.fresh + s.read + s.write, output |-> s.answer, read |-> s.read,
     write |-> s.write]

ClineCli(l) == Buckets(Minus(l.input, l.read + l.write), l.output, l.read, l.write, 0)

\* prompt_tokens, where they are logged, say what input_tokens may not.
Jcode(prompt, l) ==
    Buckets(IF prompt = {} THEN l.input ELSE Minus(Minus(Or0(prompt), l.read), l.write),
            l.output, l.read, l.write, 0)

-----------------------------------------------------------------------------
(***************************************************************************)
(* Conventions told by a total: Gemini, Grok's session logs, goose, Kimi.  *)
(***************************************************************************)
\* Gemini's input holds the cached tokens, or it does not and the total does.
GeminiLog(s, inclusive) ==
    LET input == IF inclusive THEN s.fresh + s.read ELSE s.fresh
    IN  [input |-> input, output |-> s.answer, read |-> s.read, reasoning |-> s.thought,
         tool |-> s.tool, total |-> {s.fresh + s.read + s.answer + s.thought + s.tool}]

GeminiInclusive(l) == l.total = {l.input + l.output + l.reasoning + l.tool}

GeminiTokens(l) ==
    Buckets((IF GeminiInclusive(l) THEN l.input - Lesser(l.read, l.input) ELSE l.input) + l.tool,
            l.output, l.read, 0, l.reasoning)

\* Grok's output holds the reasoning if there is no total, or one that is the
\* sum of input and output.
GrokLog(s, inside, totalled) ==
    LET output == IF inside THEN s.answer + s.thought ELSE s.answer
    IN  [input |-> s.fresh + s.read, output |-> output, read |-> s.read,
         reasoning |-> s.thought,
         total |-> IF totalled THEN {s.fresh + s.read + s.answer + s.thought} ELSE {}]

GrokLegacy(l) ==
    LET inside == l.total = {} \/ l.total = {l.input + l.output}
    IN  Buckets(Minus(l.input, l.read),
                IF inside THEN Minus(l.output, l.reasoning) ELSE l.output,
                l.read, 0, l.reasoning)

\* Goose has a total and no count of the reasoning, which is the rest of it.
GooseLog(s) ==
    [input |-> s.fresh + s.read + s.write, output |-> s.answer, read |-> s.read,
     write |-> s.write, total |-> {s.fresh + s.read + s.write + s.answer + s.thought}]

Goose(l) ==
    LET input == Minus(l.input, l.read + l.write)
        total == IF l.total = {} THEN input + l.output ELSE Or0(l.total)
    IN  Buckets(input, l.output, l.read, l.write,
                Minus(total, input + l.output + l.read + l.write))

\* What Kimi's total has beyond the counts is reasoning, or the output where
\* that was not counted; OpenClaw's is only ever the output.
OtherLog(s, answer) ==
    [input |-> s.fresh, output |-> answer, read |-> s.read, write |-> s.write,
     total |-> s.fresh + s.read + s.write + s.answer + s.thought]

Counted(l) == l.input + l.output + l.read + l.write

Kimi(l) ==
    LET rest == Minus(l.total, Counted(l))
    IN  IF l.output = 0 THEN Buckets(l.input, rest, l.read, l.write, 0)
                        ELSE Buckets(l.input, l.output, l.read, l.write, rest)

Openclaw(l) ==
    Buckets(l.input, IF l.output = 0 THEN Minus(l.total, Counted(l)) ELSE l.output,
            l.read, l.write, 0)
=============================================================================
