------------------------- MODULE CodexSessionProofs -------------------------
(***************************************************************************)
(* Proofs about CodexSession, for any number of files of any length, any   *)
(* counters and any malformed lines: no call becomes two events, no event  *)
(* charges more than was used since the lines that were read, turns are    *)
(* real, and no call is lost in silence.                                   *)
(*                                                                         *)
(* The argument is about the files first.  In every file, whatever was     *)
(* copied into it, a line is the first of its call, or it repeats the      *)
(* totals of the usage line before it, and the totals of any two lines     *)
(* differ by no more than was used between them (FileInv); lines of two    *)
(* files with one timestamp are copies (Copied).  So the reader, whose     *)
(* previous totals are those of the usage line it last could read, charges *)
(* no more than that, and the replay key of a call's first line is the     *)
(* same in every file.                                                     *)
(***************************************************************************)
EXTENDS CodexSession, FiniteSetTheorems, TLAPS

TextLine == {Context(m) : m \in Contexts} \cup {User} \cup UsageLine

\* The line is where its call was first written, or a copy of that line.
First(s, i) == s[i].time = s[i].call.id

\* The usage line before line i is line j.
Before(s, i, j) ==
    j \in UsageIn(s) /\ j < i /\ \A k \in UsageIn(s) : k < i => k <= j

\* Between a user input before line i and line i, it included, a call answered it.
Answered(s, i) ==
    \A u \in DOMAIN s : (u < i /\ s[u].type = "user") =>
        \E j \in UsageIn(s) : u < j /\ j <= i /\ s[j].call.answers

\* What a usage line says is what this Codex reports.
Reports(line) ==
    /\ line.totals # Null <=> withTotals
    /\ line.totals = Null => line.last # Null
    /\ line.last \in {Null, line.call.amount}

\* Line i repeats line j.
Repeats(s, i, j) == s[j].totals = s[i].totals /\ s[j].call = s[i].call

\* The totals of line i add its call's usage to those of line j, or start again.
Adds(s, i, j) == s[i].totals = Plus(s[j].totals, s[i].call.amount)
StartsAgain(s, i, j) ==
    s[i].totals = s[i].call.amount /\ Restarted(s[j].totals, s[i].totals)

\* Line i repeats the line before it.
Repeated(s, i) == \E j \in UsageIn(s) : Before(s, i, j) /\ Repeats(s, i, j)

\* Its totals add its call's usage, or it shows that they start again with it.
Shows(s, i) ==
    \/ s[i].totals = s[i].call.amount /\ \A j \in UsageIn(s) : ~(j < i)
    \/ \E j \in UsageIn(s) : Before(s, i, j) /\ (Adds(s, i, j) \/ StartsAgain(s, i, j))

AtMost(a, b) == \A k \in Kinds : a[k] <= b[k]

\* Nothing exceeds what the session has spent.
Bounded(line) ==
    /\ AtMost(line.call.amount, line.call.spent)
    /\ withTotals => AtMost(line.totals, line.call.spent)

\* A repeated line adds nothing to the totals, a first one its call's usage,
\* unless the totals start again with it, which shows if the call is visible.
LineInv(s, i) ==
    /\ Reports(s[i]) /\ Bounded(s[i])
    /\ s[i].call.amount # Zero
    /\ ~First(s, i) => withTotals /\ Repeated(s, i)
    /\ First(s, i) /\ withTotals /\ s[i].call.visible => Shows(s, i)
    /\ First(s, i) => Answered(s, i)

\* What a line and a later one say: between them the session spent what the
\* later one's call used, or it repeats the other; and the totals grew by what
\* the session spent, or started again and hold no more than that.
Apart(earlier, later) ==
    /\ AtMost(earlier.call.spent, later.call.spent)
    /\ \/ withTotals /\ earlier.totals = later.totals
       \/ AtMost(Plus(later.call.amount, earlier.call.spent), later.call.spent)
    /\ withTotals =>
         \/ \A k \in Kinds :
               later.totals[k] + earlier.call.spent[k] = earlier.totals[k] + later.call.spent[k]
         \/ AtMost(Plus(later.totals, earlier.call.spent), later.call.spent)

FileInv(s) ==
    /\ s \in Seq(TextLine)
    /\ \A i \in UsageIn(s) : LineInv(s, i)
    /\ \A i, j \in UsageIn(s) : j < i => Apart(s[j], s[i])
    /\ \A i, j \in UsageIn(s) : s[i].time = s[j].time => i = j

\* A file has no line, and no call, of a later file or of its own future.
Dated(s, f) ==
    \A i \in UsageIn(s) :
        /\ s[i].time[1] <= f /\ (s[i].time[1] = f => s[i].time[2] <= Len(s))
        /\ s[i].call.id[1] <= f /\ (s[i].call.id[1] = f => s[i].call.id[2] <= Len(s))

\* Two lines are copies of one.
Copied(a, b) == a.call = b.call /\ Snapshot(a) = Snapshot(b)

\* The usage lines of t are copies of lines of g.
CopiesOf(t, g) ==
    \A i \in UsageIn(t) : \E j \in UsageIn(g) : t[i].time = g[j].time /\ Copied(t[i], g[j])

FilesInv ==
    /\ \A f, g \in Files : \A i \in UsageIn(lines[f]) : \A j \in UsageIn(lines[g]) :
            lines[f][i].time = lines[g][j].time => Copied(lines[f][i], lines[g][j])
    /\ \A f \in Files : /\ FileInv(lines[f]) /\ Dated(lines[f], f)
                        /\ f > writing => lines[f] = <<>>

SessionInv ==
    /\ lines \in [Files -> Seq(TextLine)]
    /\ withTotals \in BOOLEAN /\ withLast \in BOOLEAN /\ (withTotals \/ withLast)
    /\ writing \in Nat
    /\ FilesInv

-----------------------------------------------------------------------------
(***************************************************************************)
(* Lines and files.                                                        *)
(***************************************************************************)
LEMMA LineTypes ==
    ASSUME NEW line \in TextLine
    PROVE  /\ line.type \in {"turn_context", "user", "usage"}
           /\ line.type = "usage" => line \in UsageLine
           /\ line.type = "user" => line = User
BY DEF TextLine, Context, User, UsageLine

LEMMA UsageTypes ==
    ASSUME NEW s \in Seq(TextLine), NEW i \in UsageIn(s)
    PROVE  /\ i \in 1..Len(s) /\ s[i] \in UsageLine
           /\ s[i].time \in Files \X Nat
           /\ s[i].call \in Call /\ s[i].call.id \in Files \X Nat
           /\ s[i].call.amount \in Counts /\ s[i].call.spent \in Counts
           /\ s[i].totals \in Counts \cup {Null} /\ s[i].last \in Counts \cup {Null}
<1>1. i \in 1..Len(s) /\ s[i] \in TextLine /\ s[i].type = "usage"
  BY DEF UsageIn
<1>2. s[i] \in UsageLine
  BY <1>1, LineTypes
<1> QED BY <1>1, <1>2 DEF UsageLine, Call

\* A set of places has a last one.
LEMMA LastPlace ==
    ASSUME NEW s \in Seq(TextLine), UsageIn(s) # {}
    PROVE  /\ LastUsage(s) \in UsageIn(s)
           /\ \A j \in UsageIn(s) : j <= LastUsage(s)
<1> DEFINE S == UsageIn(s)
           After(i) == {k \in S : k > i}
<1>1. S \subseteq 1..Len(s) /\ Len(s) \in Nat
  BY DEF UsageIn
<1>2. IsFiniteSet(S)
  <2>1. IsFiniteSet(1..Len(s))
    BY <1>1, FS_Interval
  <2> HIDE DEF S
  <2> QED BY <1>1, <2>1, FS_Subset
<1>3. IsWellFoundedOn(StrictSubsetOrdering(S), SUBSET S)
  BY <1>2, FS_StrictSubsetOrderingWellFounded, FS_FiniteSubsetsOfFinite
<1> DEFINE Rests == {After(i) : i \in S}
<1>4. Rests \subseteq SUBSET S /\ Rests # {}
  OBVIOUS
<1>5. PICK r \in Rests : \A q \in Rests : ~(<<q, r>> \in StrictSubsetOrdering(S))
  <2> HIDE DEF Rests
  <2> QED BY <1>3, <1>4, WFMin
<1>6. PICK i \in S : r = After(i)
  BY <1>5
<1>7. \A j \in S : j <= i
  <2> SUFFICES ASSUME NEW j \in S, j > i PROVE FALSE
    BY <1>1
  <2>1. After(j) \subseteq After(i) /\ j \in After(i) /\ j \notin After(j)
    BY <1>1
  <2>2. <<After(j), After(i)>> \in StrictSubsetOrdering(S)
    <3> HIDE DEF S
    <3> QED BY <2>1 DEF StrictSubsetOrdering
  <2> QED BY <1>5, <1>6, <2>2
<1>8. \E l \in UsageIn(s) : \A j \in UsageIn(s) : j <= l
  BY <1>7
<1> QED BY <1>8 DEF LastUsage

\* A file that begins with s has the lines of s, and what they say of each
\* other stays.
LEMMA AppendKeeps ==
    ASSUME NEW s, FileInv(s), NEW line \in TextLine, NEW n, n = Len(s) + 1,
           line.type = "usage" => LineInv(Append(s, line), n),
           line.type = "usage" => \A i \in UsageIn(s) : s[i].time # line.time /\ Apart(s[i], line)
    PROVE  FileInv(Append(s, line))
<1> DEFINE t == Append(s, line)
<1>1. s \in Seq(TextLine)
  BY DEF FileInv
<1>2. /\ t \in Seq(TextLine) /\ Len(t) = n /\ n \in Nat /\ Len(s) \in Nat
      /\ t[n] = line /\ \A i \in 1..Len(s) : t[i] = s[i]
      /\ DOMAIN s = 1..Len(s) /\ DOMAIN t = 1..n
  BY <1>1
<1> HIDE DEF t
<1>3. /\ \A i \in UsageIn(s) : i \in UsageIn(t) /\ i < n
      /\ \A i \in UsageIn(t) : i \in UsageIn(s) \/ (i = n /\ line.type = "usage")
  BY <1>2 DEF UsageIn
<1>4. ASSUME NEW i \in UsageIn(s)
      PROVE  LineInv(t, i)
  <2>1. t[i] = s[i] /\ i \in 1..Len(s)
    BY <1>2, <1>3 DEF UsageIn
  <2>2. \A j \in UsageIn(s) : Before(s, i, j) => Before(t, i, j) /\ t[j] = s[j]
    BY <1>2, <1>3, <2>1 DEF Before, UsageIn
  <2>3. Answered(s, i) => Answered(t, i)
    <3> SUFFICES ASSUME Answered(s, i), NEW u \in DOMAIN t, u < i, t[u].type = "user"
                 PROVE  \E j \in UsageIn(t) : u < j /\ j <= i /\ t[j].call.answers
      BY DEF Answered
    <3>1. u \in DOMAIN s /\ s[u].type = "user"
      BY <1>2, <2>1
    <3>2. PICK j \in UsageIn(s) : u < j /\ j <= i /\ s[j].call.answers
      BY <3>1 DEF Answered
    <3>3. j \in UsageIn(t) /\ t[j] = s[j]
      BY <1>2, <1>3 DEF UsageIn
    <3> QED BY <3>2, <3>3
  <2>4. LineInv(s, i)
    BY DEF FileInv
  <2>5. ASSUME \A j \in UsageIn(s) : ~(j < i), NEW j \in UsageIn(t)
        PROVE  ~(j < i)
    <3>1. CASE j \in UsageIn(s)
      BY <2>5, <3>1
    <3>2. CASE j = n
      BY <1>2, <2>1, <3>2
    <3> QED BY <1>3, <3>1, <3>2
  <2>6. Repeated(s, i) => Repeated(t, i)
    BY <1>3, <2>1, <2>2 DEF Repeated, Repeats
  <2>8. Shows(s, i) => Shows(t, i)
    BY <1>3, <2>1, <2>2, <2>5 DEF Shows, Adds, StartsAgain
  <2>9. First(t, i) <=> First(s, i)
    BY <2>1 DEF First
  <2>10. /\ t[i].call.amount = s[i].call.amount /\ t[i].call.visible = s[i].call.visible
         /\ (Reports(t[i]) <=> Reports(s[i])) /\ (Bounded(t[i]) <=> Bounded(s[i]))
    BY <2>1
  <2> QED BY <2>3, <2>4, <2>6, <2>8, <2>9, <2>10 DEF LineInv
<1>5. \A i \in UsageIn(t) : LineInv(t, i)
  BY <1>3, <1>4 DEF t
<1>6. \A i, j \in UsageIn(t) : t[i].time = t[j].time => i = j
  <2>1. \A i \in UsageIn(s) : t[i] = s[i]
    BY <1>2 DEF UsageIn
  <2>2. \A i, j \in UsageIn(s) : t[i].time = t[j].time => i = j
    BY <2>1 DEF FileInv
  <2>3. line.type = "usage" => \A i \in UsageIn(s) : t[i].time # t[n].time
    BY <1>2, <2>1
  <2> QED BY <1>3, <2>2, <2>3
<1>7. \A i, j \in UsageIn(t) : j < i => Apart(t[j], t[i])
  <2> SUFFICES ASSUME NEW i \in UsageIn(t), NEW j \in UsageIn(t), j < i
               PROVE  Apart(t[j], t[i])
    OBVIOUS
  <2>1. \A k \in UsageIn(s) : t[k] = s[k] /\ k <= Len(s)
    BY <1>2 DEF UsageIn
  <2>2. j \in UsageIn(s)
    <3>1. i \in 1..n /\ j \in 1..n
      BY <1>2 DEF UsageIn
    <3> QED BY <1>2, <1>3, <3>1
  <2>3. CASE i \in UsageIn(s)
    BY <2>1, <2>2, <2>3 DEF FileInv
  <2>4. CASE i = n /\ line.type = "usage"
    BY <1>2, <2>1, <2>2, <2>4
  <2> QED BY <1>3, <2>3, <2>4
<1> QED BY <1>2, <1>5, <1>6, <1>7 DEF FileInv, t

\* A copy says what the line says.
LEMMA CopySays ==
    ASSUME NEW line \in TextLine, NEW keepsLast \in BOOLEAN,
           line.type = "usage" => Reports(line)
    PROVE  LET copy == CopyOf(line, keepsLast)
           IN  /\ copy \in TextLine /\ copy.type = line.type
               /\ line.type = "usage" =>
                    /\ copy.time = line.time /\ copy.call = line.call
                    /\ copy.totals = line.totals
                    /\ Snapshot(copy) = Snapshot(line)
                    /\ Reports(copy)
<1> DEFINE copy == CopyOf(line, keepsLast)
<1>1. CASE copy = line
  BY <1>1
<1>2. CASE line.type = "usage" /\ withTotals /\ copy = [line EXCEPT !.last = Null]
  <2>1. line \in UsageLine /\ copy = [line EXCEPT !.last = Null]
    BY <1>2, LineTypes
  <2> HIDE DEF copy
  <2>2. /\ copy \in UsageLine /\ copy.type = line.type /\ copy.time = line.time
        /\ copy.call = line.call /\ copy.totals = line.totals /\ copy.last = Null
    BY <2>1 DEF UsageLine
  <2>3. copy \in TextLine
    BY <2>2 DEF TextLine
  <2>4. Reports(copy) /\ Snapshot(copy) = Snapshot(line)
    BY <1>2, <2>2 DEF Reports, Snapshot
  <2> QED BY <2>2, <2>3, <2>4 DEF copy
<1> QED BY <1>1, <1>2 DEF CopyOf

\* A file that begins with lines that report nothing, and goes on with copies
\* of the first n lines of another.
LEMMA CopiesKeep ==
    ASSUME withTotals \in BOOLEAN,
           NEW g, FileInv(g), NEW n \in 1..Len(g), NEW s \in Seq(TextLine),
           \A i \in DOMAIN s : s[i].type = "turn_context",
           NEW keepsLast \in BOOLEAN, NEW c \in Seq(TextLine), Len(c) = n,
           \A i \in 1..n : c[i] = CopyOf(g[i], keepsLast)
    PROVE  FileInv(s \o c) /\ CopiesOf(s \o c, g)
<1> DEFINE t == s \o c
           z == Len(s)
<1>1. g \in Seq(TextLine) /\ n \in Nat /\ z \in Nat /\ n <= Len(g)
      /\ DOMAIN g = 1..Len(g) /\ DOMAIN s = 1..z
  BY DEF FileInv
<1>2. ASSUME NEW i \in 1..n
      PROVE  /\ c[i] \in TextLine /\ c[i].type = g[i].type
             /\ g[i].type = "usage" => /\ c[i].time = g[i].time /\ c[i].call = g[i].call
                                       /\ c[i].totals = g[i].totals
                                       /\ Snapshot(c[i]) = Snapshot(g[i])
                                       /\ (Reports(g[i]) => Reports(c[i]))
  <2>1. g[i] \in TextLine /\ c[i] = CopyOf(g[i], keepsLast)
    BY <1>1
  <2>2. g[i].type = "usage" => Reports(g[i])
    BY <1>1 DEF FileInv, LineInv, UsageIn
  <2> QED BY <2>1, <2>2, CopySays
<1>4. /\ t \in Seq(TextLine) /\ Len(t) = z + n /\ DOMAIN t = 1..(z + n)
      /\ \A i \in 1..z : t[i] = s[i]
      /\ \A i \in 1..n : t[z + i] = c[i]
  BY <1>1
<1> HIDE DEF t, z
<1>5. \A i \in 1..(z + n) : i \in 1..z \/ (i - z \in 1..n /\ i = z + (i - z))
  BY <1>1
<1>3. /\ \A i \in 1..n : t[z + i].type = g[i].type /\ i \in DOMAIN g /\ z + i \in DOMAIN t
      /\ \A i \in 1..z : t[i].type = "turn_context"
  <2>1. \A i \in 1..n : t[z + i].type = g[i].type
    BY <1>2, <1>4
  <2>2. \A i \in 1..n : i \in DOMAIN g /\ z + i \in DOMAIN t
    BY <1>1, <1>4
  <2>3. \A i \in 1..z : t[i].type = "turn_context"
    BY <1>1, <1>4
  <2> QED BY <2>1, <2>2, <2>3
<1>6. \A i \in UsageIn(t) : i - z \in 1..n /\ i - z \in UsageIn(g) /\ i = z + (i - z) /\ i \in Nat
  <2> SUFFICES ASSUME NEW i \in UsageIn(t)
               PROVE  i - z \in 1..n /\ i - z \in UsageIn(g) /\ i = z + (i - z) /\ i \in Nat
    OBVIOUS
  <2>1. i \in 1..(z + n) /\ t[i].type = "usage"
    BY <1>4 DEF UsageIn
  <2>2. i - z \in 1..n /\ i = z + (i - z)
    BY <1>3, <1>5, <2>1
  <2>3. i - z \in UsageIn(g)
    BY <1>3, <2>1, <2>2 DEF UsageIn
  <2> QED BY <2>1, <2>2, <2>3
<1>7. \A i \in UsageIn(g) : i \in 1..n => z + i \in UsageIn(t)
  BY <1>3 DEF UsageIn
<1>8. ASSUME NEW i \in UsageIn(g), i \in 1..n
      PROVE  LineInv(t, z + i)
  <2>1. /\ t[z + i] = c[i] /\ c[i].time = g[i].time /\ c[i].call = g[i].call
        /\ c[i].totals = g[i].totals /\ Reports(c[i]) /\ LineInv(g, i)
    BY <1>2, <1>4, <1>8 DEF UsageIn, FileInv, LineInv
  <2>2. ASSUME NEW j \in UsageIn(g), Before(g, i, j)
        PROVE  /\ z + j \in UsageIn(t) /\ Before(t, z + i, z + j)
               /\ t[z + j].totals = g[j].totals /\ t[z + j].call = g[j].call
    <3>1. j \in 1..n
      BY <1>1, <1>8, <2>2 DEF Before, UsageIn
    <3>2. \A k \in UsageIn(t) : k < z + i => k <= z + j
      BY <1>1, <1>6, <1>8, <2>2, <3>1 DEF Before
    <3>3. z + j < z + i
      BY <1>1, <1>8, <2>2, <3>1 DEF Before
    <3>4. t[z + j].totals = g[j].totals /\ t[z + j].call = g[j].call
      BY <1>2, <1>4, <3>1 DEF UsageIn
    <3> QED BY <1>7, <3>1, <3>2, <3>3, <3>4 DEF Before
  <2>3. Answered(g, i) => Answered(t, z + i)
    <3> SUFFICES ASSUME Answered(g, i), NEW u \in DOMAIN t, u < z + i, t[u].type = "user"
                 PROVE  \E j \in UsageIn(t) : u < j /\ j <= z + i /\ t[j].call.answers
      BY DEF Answered
    <3>1. u - z \in 1..n /\ u = z + (u - z)
      BY <1>1, <1>3, <1>4, <1>5
    <3>2. g[u - z].type = "user" /\ u - z \in DOMAIN g /\ u - z < i
      BY <1>1, <1>2, <1>4, <1>8, <3>1
    <3>3. PICK j \in UsageIn(g) : u - z < j /\ j <= i /\ g[j].call.answers
      BY <3>2 DEF Answered
    <3>4. j \in 1..n
      BY <1>1, <1>8, <3>3 DEF UsageIn
    <3>5. z + j \in UsageIn(t) /\ t[z + j].call = g[j].call
      BY <1>2, <1>4, <1>7, <3>4 DEF UsageIn
    <3>6. u < z + j /\ z + j <= z + i
      BY <1>1, <1>8, <3>1, <3>3, <3>4
    <3> QED BY <3>3, <3>5, <3>6
  <2>4. First(t, z + i) <=> First(g, i)
    BY <2>1 DEF First
  <2>5. Repeated(g, i) => Repeated(t, z + i)
    BY <2>1, <2>2 DEF Repeated, Repeats
  <2>6. Bounded(t[z + i])
    BY <2>1 DEF LineInv, Bounded
  <2>7. First(t, z + i) => Answered(t, z + i)
    BY <2>1, <2>3, <2>4 DEF LineInv
  <2>8. Shows(g, i) => Shows(t, z + i)
    <3>1. ASSUME \A j \in UsageIn(g) : ~(j < i)
          PROVE  \A j \in UsageIn(t) : ~(j < z + i)
      BY <1>1, <1>6, <1>8, <3>1
    <3>2. \A j \in UsageIn(g) : Before(g, i, j) => /\ Adds(g, i, j) => Adds(t, z + i, z + j)
                                                   /\ StartsAgain(g, i, j) => StartsAgain(t, z + i, z + j)
      BY <2>1, <2>2 DEF Adds, StartsAgain
    <3> QED BY <2>1, <2>2, <3>1, <3>2 DEF Shows
  <2>9. t[z + i].call = g[i].call
    BY <2>1
  <2> QED BY <2>1, <2>4, <2>5, <2>6, <2>7, <2>8, <2>9 DEF LineInv
<1>9. \A i \in UsageIn(t) : LineInv(t, i)
  BY <1>6, <1>8
<1>10. \A i \in UsageIn(t) : /\ t[i].time = g[i - z].time
                             /\ Copied(t[i], g[i - z])
  <2> SUFFICES ASSUME NEW i \in UsageIn(t)
               PROVE  t[i].time = g[i - z].time /\ Copied(t[i], g[i - z])
    OBVIOUS
  <2>1. i - z \in 1..n /\ t[i] = c[i - z] /\ g[i - z].type = "usage"
    BY <1>4, <1>6 DEF UsageIn
  <2> QED BY <1>2, <2>1 DEF Copied
<1>13. \A i, j \in UsageIn(t) : j < i => Apart(t[j], t[i])
  <2> SUFFICES ASSUME NEW i \in UsageIn(t), NEW j \in UsageIn(t), j < i
               PROVE  Apart(t[j], t[i])
    OBVIOUS
  <2>1. i - z \in UsageIn(g) /\ j - z \in UsageIn(g) /\ j - z < i - z
    BY <1>1, <1>6
  <2>2. Apart(g[j - z], g[i - z])
    BY <2>1 DEF FileInv
  <2>3. \A k \in UsageIn(t) : t[k].call = g[k - z].call /\ t[k].totals = g[k - z].totals
    BY <1>2, <1>4, <1>6 DEF UsageIn
  <2> QED BY <2>2, <2>3 DEF Apart
<1>11. \A i, j \in UsageIn(t) : t[i].time = t[j].time => i = j
  <2> SUFFICES ASSUME NEW i \in UsageIn(t), NEW j \in UsageIn(t), t[i].time = t[j].time
               PROVE  i = j
    OBVIOUS
  <2>1. i - z = j - z
    BY <1>6, <1>10 DEF FileInv
  <2> QED BY <1>1, <1>6, <2>1
<1>12. CopiesOf(t, g)
  BY <1>6, <1>10 DEF CopiesOf
<1> QED BY <1>4, <1>9, <1>11, <1>12, <1>13 DEF FileInv, t

-----------------------------------------------------------------------------
(***************************************************************************)
(* Codex keeps the files so.                                               *)
(***************************************************************************)
LEMMA Grown ==
    ASSUME SessionInv, writing \in Files,
           lines' = [lines EXCEPT ![writing] = lines'[writing]],
           UNCHANGED <<withTotals, withLast, writing>>,
           FileInv(lines'[writing]), Dated(lines'[writing], writing),
           \A i \in UsageIn(lines'[writing]) :
              \/ \E g \in Files : \E j \in UsageIn(lines[g]) :
                    /\ lines'[writing][i].time = lines[g][j].time
                    /\ Copied(lines'[writing][i], lines[g][j])
              \/ lines'[writing][i].time = <<writing, Len(lines[writing]) + 1>>
    PROVE  SessionInv'
<1> DEFINE w == writing
           t == lines'[w]
           fresh == <<w, Len(lines[w]) + 1>>
<1>1. /\ lines \in [Files -> Seq(TextLine)] /\ FilesInv /\ w \in Nat
      /\ withTotals \in BOOLEAN /\ withLast \in BOOLEAN /\ (withTotals \/ withLast)
  BY DEF SessionInv
<1>2. /\ t \in Seq(TextLine) /\ FileInv(t) /\ Dated(t, w)
      /\ \A f \in Files : f # w => lines'[f] = lines[f]
      /\ lines' \in [Files -> Seq(TextLine)]
  <2>1. t \in Seq(TextLine)
    BY DEF FileInv
  <2> HIDE DEF t
  <2>2. \A f \in Files : f # w => lines'[f] = lines[f]
    BY <1>1
  <2>3. lines' \in [Files -> Seq(TextLine)]
    BY <1>1, <2>1 DEF t
  <2> QED BY <2>1, <2>2, <2>3 DEF t
<1>3. \A i \in UsageIn(t) :
         \/ \E g \in Files : \E j \in UsageIn(lines[g]) :
               t[i].time = lines[g][j].time /\ Copied(t[i], lines[g][j])
         \/ t[i].time = fresh
  OBVIOUS
\* No line there was has the fresh timestamp.
<1>4. ASSUME NEW g \in Files, NEW j \in UsageIn(lines[g])
      PROVE  lines[g][j].time # fresh
  <2>1. /\ g \in Nat /\ Len(lines[w]) \in Nat /\ lines[g] \in Seq(TextLine)
        /\ Dated(lines[g], g) /\ (g > w => lines[g] = <<>>)
    BY <1>1 DEF FilesInv, Files
  <2>2. g <= w
    BY <1>1, <2>1 DEF UsageIn
  <2> QED BY <1>1, <2>1, <2>2 DEF Dated
<1> HIDE DEF t, fresh, w
<1>5. ASSUME NEW i \in UsageIn(t), NEW g \in Files, NEW k \in UsageIn(lines[g]),
             t[i].time = lines[g][k].time
      PROVE  Copied(t[i], lines[g][k])
  <2>1. PICK h \in Files : \E j \in UsageIn(lines[h]) :
               t[i].time = lines[h][j].time /\ Copied(t[i], lines[h][j])
    BY <1>3, <1>4, <1>5
  <2>2. PICK j \in UsageIn(lines[h]) :
               t[i].time = lines[h][j].time /\ Copied(t[i], lines[h][j])
    BY <2>1
  <2>3. Copied(lines[h][j], lines[g][k])
    BY <1>1, <1>5, <2>2 DEF FilesInv
  <2> QED BY <2>2, <2>3 DEF Copied
<1>6. \A i, k \in UsageIn(t) : t[i].time = t[k].time => Copied(t[i], t[k])
  BY <1>2 DEF FileInv, Copied
<1>7. ASSUME NEW f \in Files, NEW g \in Files,
             NEW i \in UsageIn(lines'[f]), NEW k \in UsageIn(lines'[g]),
             lines'[f][i].time = lines'[g][k].time
      PROVE  Copied(lines'[f][i], lines'[g][k])
  <2>1. CASE f = w /\ g = w
    BY <1>6, <1>7, <2>1 DEF t
  <2>2. CASE f = w /\ g # w
    BY <1>2, <1>5, <1>7, <2>2 DEF t
  <2>3. CASE f # w /\ g = w
    <3>1. Copied(lines'[g][k], lines[f][i])
      BY <1>2, <1>5, <1>7, <2>3 DEF t
    <3> QED BY <1>2, <2>3, <3>1 DEF Copied
  <2>4. CASE f # w /\ g # w
    BY <1>1, <1>2, <1>7, <2>4 DEF FilesInv
  <2> QED BY <2>1, <2>2, <2>3, <2>4
<1>8. ASSUME NEW f \in Files
      PROVE  FileInv(lines'[f]) /\ Dated(lines'[f], f) /\ (f > writing => lines'[f] = <<>>)
  <2>1. CASE f = w
    BY <1>1, <1>2, <2>1 DEF t, w
  <2>2. CASE f # w
    BY <1>1, <1>2, <2>2 DEF FilesInv, w
  <2> QED BY <2>1, <2>2
<1>9. ASSUME NEW f \in Files
      PROVE  FileInv(lines[f])'
  <2>1. FileInv(lines'[f])
    BY <1>8
  <2> QED BY <2>1 DEF FileInv, LineInv, Reports, Repeated, Repeats, Adds, Bounded,
        Shows, StartsAgain, UsageIn, First, Before, Answered, Apart
<1>10. FilesInv'
  <2>1. \A f \in Files : FileInv(lines[f])' /\ Dated(lines[f], f)'
                         /\ (f > writing' => lines'[f] = <<>>)
    BY <1>8, <1>9 DEF Dated, UsageIn
  <2>2. \A f, g \in Files : \A i \in UsageIn(lines'[f]) : \A j \in UsageIn(lines'[g]) :
            lines'[f][i].time = lines'[g][j].time => Copied(lines'[f][i], lines'[g][j])
    BY <1>7
  <2> QED BY <2>1, <2>2 DEF FilesInv, Copied, Snapshot, UsageIn
<1> QED BY <1>1, <1>2, <1>10 DEF SessionInv, w

\* A line is written.
LEMMA Written ==
    ASSUME SessionInv, writing \in Files, NEW line \in TextLine, Write(line),
           line.type = "usage" =>
              /\ LineInv(Append(lines[writing], line), Len(lines[writing]) + 1)
              /\ line.time = <<writing, Len(lines[writing]) + 1>>
              /\ \A j \in UsageIn(lines[writing]) : Apart(lines[writing][j], line)
              /\ \/ line.call.id = line.time
                 \/ \E j \in UsageIn(lines[writing]) : line.call.id = lines[writing][j].call.id
    PROVE  SessionInv'
<1> DEFINE w == writing
           s == lines[w]
           n == Len(s) + 1
           t == lines'[w]
<1>1. /\ s \in Seq(TextLine) /\ Len(s) \in Nat /\ FileInv(s) /\ Dated(s, w) /\ w \in Nat
      /\ lines \in [Files -> Seq(TextLine)]
  BY DEF SessionInv, FilesInv
<1>2. /\ lines' = [lines EXCEPT ![w] = Append(s, line)]
      /\ UNCHANGED <<withTotals, withLast, writing>>
  BY DEF Write
<1>3. t = Append(s, line) /\ lines' = [lines EXCEPT ![w] = t]
  BY <1>1, <1>2
<1>4. \A i \in UsageIn(s) : s[i].time # <<w, n>>
  BY <1>1 DEF Dated
<1>5. line.type = "usage" => LineInv(Append(s, line), n) /\ line.time = <<w, n>>
  OBVIOUS
<1>6. line.type = "usage" =>
        line.call.id = line.time \/ \E j \in UsageIn(s) : line.call.id = s[j].call.id
  OBVIOUS
<1>11. line.type = "usage" => \A i \in UsageIn(s) : Apart(s[i], line)
  OBVIOUS
<1> HIDE DEF s, t, w, n
<1>7. FileInv(t)
  BY <1>1, <1>3, <1>4, <1>5, <1>11, AppendKeeps DEF n
<1>8. /\ Len(t) = n /\ t[n] = line /\ \A i \in 1..Len(s) : t[i] = s[i]
      /\ \A i \in UsageIn(t) : (i \in UsageIn(s) /\ t[i] = s[i]) \/ (i = n /\ t[i] = line /\ line.type = "usage")
  <2>1. Len(t) = n /\ t[n] = line /\ (\A i \in 1..Len(s) : t[i] = s[i]) /\ DOMAIN t = 1..n
    BY <1>1, <1>3 DEF n
  <2> QED BY <1>1, <2>1 DEF UsageIn, n
<1>9. Dated(t, w)
  <2> SUFFICES ASSUME NEW i \in UsageIn(t)
               PROVE  /\ t[i].time[1] <= w /\ (t[i].time[1] = w => t[i].time[2] <= n)
                      /\ t[i].call.id[1] <= w /\ (t[i].call.id[1] = w => t[i].call.id[2] <= n)
    BY <1>8 DEF Dated
  <2>1. \A j \in UsageIn(s) :
           /\ s[j].time[1] <= w /\ (s[j].time[1] = w => s[j].time[2] <= n)
           /\ s[j].call.id[1] <= w /\ (s[j].call.id[1] = w => s[j].call.id[2] <= n)
    <3> SUFFICES ASSUME NEW j \in UsageIn(s)
                 PROVE  /\ s[j].time[1] <= w /\ (s[j].time[1] = w => s[j].time[2] <= n)
                        /\ s[j].call.id[1] <= w /\ (s[j].call.id[1] = w => s[j].call.id[2] <= n)
      OBVIOUS
    <3>1. s[j].time[2] \in Nat /\ s[j].call.id[2] \in Nat
      BY <1>1, UsageTypes
    <3> QED BY <1>1, <3>1 DEF Dated, n
  <2>2. n <= n /\ w <= w
    BY <1>1 DEF n
  <2> QED BY <1>5, <1>6, <1>8, <2>1, <2>2
<1>10. \A i \in UsageIn(t) :
          \/ \E g \in Files : \E j \in UsageIn(lines[g]) :
                t[i].time = lines[g][j].time /\ Copied(t[i], lines[g][j])
          \/ t[i].time = <<w, n>>
  BY <1>5, <1>8 DEF Copied, s, w
<1> QED BY <1>2, <1>3, <1>7, <1>9, <1>10, Grown DEF s, t, w, n

\* What a new usage line finds before it.
LEMMA NewLine ==
    ASSUME NEW s \in Seq(TextLine), NEW line \in TextLine, line.type = "usage"
    PROVE  LET t == Append(s, line)
               n == Len(s) + 1
           IN  /\ t[n] = line
               /\ UsageIn(s) # {} => /\ LastUsage(s) \in UsageIn(t)
                                     /\ Before(t, n, LastUsage(s))
                                     /\ t[LastUsage(s)] = s[LastUsage(s)]
               /\ \A j \in UsageIn(s) : j \in UsageIn(t) /\ j < n /\ t[j] = s[j]
               /\ \A j \in DOMAIN t : j < n => j \in DOMAIN s /\ t[j] = s[j]
               /\ n \in UsageIn(t)
<1> DEFINE t == Append(s, line)
           n == Len(s) + 1
<1>1. /\ t \in Seq(TextLine) /\ Len(t) = n /\ n = Len(s) + 1 /\ Len(s) \in Nat
      /\ t[n] = line /\ \A i \in 1..Len(s) : t[i] = s[i]
      /\ DOMAIN s = 1..Len(s) /\ DOMAIN t = 1..n
  OBVIOUS
<1> HIDE DEF t, n
<1>2. /\ \A i \in UsageIn(s) : i \in UsageIn(t) /\ i < n /\ t[i] = s[i]
      /\ \A i \in UsageIn(t) : i < n => i \in UsageIn(s)
  BY <1>1 DEF UsageIn
<1>3. UsageIn(s) # {} => /\ LastUsage(s) \in UsageIn(t)
                         /\ Before(t, n, LastUsage(s))
                         /\ t[LastUsage(s)] = s[LastUsage(s)]
  BY <1>2, LastPlace DEF Before
<1>4. \A j \in DOMAIN t : j < n => j \in DOMAIN s /\ t[j] = s[j]
  BY <1>1
<1>5. n \in UsageIn(t)
  BY <1>1 DEF UsageIn
<1> QED BY <1>1, <1>2, <1>3, <1>4, <1>5 DEF t, n

\* The totals reached are those of the last usage line.
LEMMA RunningTotals ==
    ASSUME SessionInv, writing \in Files, withTotals
    PROVE  LET s == lines[writing]
           IN  /\ Running(s) \in Counts
               /\ UsageIn(s) = {} => Running(s) = Zero
               /\ UsageIn(s) # {} => /\ Running(s) = s[LastUsage(s)].totals
                                     /\ s[LastUsage(s)].totals # Null
<1> DEFINE s == lines[writing]
<1>1. s \in Seq(TextLine) /\ FileInv(s)
  BY DEF SessionInv, FilesInv
<1>2. Zero \in Counts
  BY DEF Zero, Counts
<1> HIDE DEF s
<1>3. UsageIn(s) # {} => s[LastUsage(s)].totals \in Counts /\ s[LastUsage(s)].totals # Null
  <2> SUFFICES ASSUME UsageIn(s) # {}
               PROVE  s[LastUsage(s)].totals \in Counts /\ s[LastUsage(s)].totals # Null
    OBVIOUS
  <2>1. LastUsage(s) \in UsageIn(s)
    BY <1>1, LastPlace
  <2>2. s[LastUsage(s)].totals \in Counts \cup {Null}
    BY <1>1, <2>1, UsageTypes
  <2>3. Reports(s[LastUsage(s)])
    BY <1>1, <2>1 DEF FileInv, LineInv
  <2> QED BY <2>2, <2>3 DEF Reports
<1> QED BY <1>2, <1>3 DEF Running, s

\* What was spent is what the last usage line says.
LEMMA SpentTotals ==
    ASSUME SessionInv, writing \in Files
    PROVE  LET s == lines[writing]
           IN  /\ Spent(s) \in Counts
               /\ UsageIn(s) # {} => Spent(s) = s[LastUsage(s)].call.spent
<1> DEFINE s == lines[writing]
<1>1. s \in Seq(TextLine)
  BY DEF SessionInv, FilesInv
<1>2. Zero \in Counts
  BY DEF Zero, Counts
<1> HIDE DEF s
<1>3. UsageIn(s) # {} => s[LastUsage(s)].call.spent \in Counts
  BY <1>1, LastPlace, UsageTypes
<1> QED BY <1>2, <1>3 DEF Spent, s

LEMMA PlusType ==
    ASSUME NEW a \in Counts, NEW b \in Counts
    PROVE  Plus(a, b) \in Counts
BY DEF Plus, Counts

LEMMA CallKeeps ==
    ASSUME SessionInv, NEW amount \in Amounts, NEW restart \in Restarts,
           SessionCall(amount, restart)
    PROVE  SessionInv'
<1> USE CodexAssumption
<1> DEFINE s == lines[writing]
           n == Len(s) + 1
           here == <<writing, n>>
           after == IF restart THEN amount ELSE Plus(Running(s), amount)
           call == [id |-> here, amount |-> amount,
                    spent |-> Plus(Spent(s), amount), answers |-> Asked(s),
                    visible |-> (restart => Restarted(Running(s), after))]
           line == [type |-> "usage", time |-> here, call |-> call,
                    totals |-> IF withTotals THEN after ELSE Null,
                    last |-> IF withLast THEN amount ELSE Null]
           t == Append(s, line)
<1>1. /\ writing \in Files /\ Write(line) /\ (restart => withTotals)
      /\ restart \in BOOLEAN /\ amount \in Counts /\ amount # Zero /\ Null \notin Counts
  BY DEF SessionCall, Room
<1>2. /\ s \in Seq(TextLine) /\ FileInv(s) /\ n \in Nat
      /\ withTotals \in BOOLEAN /\ withLast \in BOOLEAN /\ (withTotals \/ withLast)
  BY <1>1 DEF SessionInv, FilesInv
<1>3. /\ withTotals => Running(s) \in Counts
      /\ withTotals /\ UsageIn(s) = {} => Running(s) = Zero
      /\ withTotals /\ UsageIn(s) # {} => Running(s) = s[LastUsage(s)].totals
  BY <1>1, RunningTotals
<1>4. withTotals => after \in Counts
  <2>1. withTotals => Plus(Running(s), amount) \in Counts
    BY <1>1, <1>3, PlusType
  <2> HIDE DEF s
  <2> QED BY <1>1, <2>1
<1>5. withTotals =>
        \/ after = amount
        \/ UsageIn(s) # {} /\ after = Plus(s[LastUsage(s)].totals, amount)
  <2>1. Plus(Zero, amount) = amount
    BY <1>1 DEF Plus, Zero, Counts
  <2> HIDE DEF s
  <2> QED BY <1>3, <2>1
<1>6. Asked(s) \in BOOLEAN
  BY DEF Asked
<1> HIDE DEF s, n, after
<1>s. /\ Spent(s) \in Counts /\ Plus(Spent(s), amount) \in Counts
      /\ UsageIn(s) # {} => Spent(s) = s[LastUsage(s)].call.spent
  BY <1>1, SpentTotals, PlusType DEF s
<1>7. /\ call \in Call /\ call.id = here /\ call.amount = amount /\ call.answers = Asked(s)
      /\ call.spent = Plus(Spent(s), amount)
      /\ call.visible <=> (restart => Restarted(Running(s), after))
  <2>1. here \in Files \X Nat
    BY <1>1, <1>2
  <2>2. (restart => Restarted(Running(s), after)) \in BOOLEAN
    OBVIOUS
  <2> QED BY <1>1, <1>6, <1>s, <2>1, <2>2 DEF Call
<1> HIDE DEF call
<1>8. /\ line \in UsageLine /\ line.type = "usage" /\ line.time = here /\ line.call = call
      /\ line.totals = (IF withTotals THEN after ELSE Null)
      /\ line.last = (IF withLast THEN amount ELSE Null)
  <2>1. here \in Files \X Nat
    BY <1>1, <1>2
  <2> QED BY <1>1, <1>4, <1>7, <2>1 DEF UsageLine
<1>9. line \in TextLine
  BY <1>8 DEF TextLine
<1>10. Reports(line)
  BY <1>1, <1>2, <1>4, <1>7, <1>8 DEF Reports
<1>t. t = Append(s, line) /\ n = Len(s) + 1
  BY DEF n
<1> HIDE DEF line, here, t
<1>11. /\ t[n] = line
       /\ UsageIn(s) # {} => /\ LastUsage(s) \in UsageIn(t)
                             /\ Before(t, n, LastUsage(s))
                             /\ t[LastUsage(s)] = s[LastUsage(s)]
       /\ \A j \in UsageIn(s) : j \in UsageIn(t) /\ j < n /\ t[j] = s[j]
       /\ \A j \in DOMAIN t : j < n => j \in DOMAIN s /\ t[j] = s[j]
       /\ n \in UsageIn(t)
  <2>1. s \in Seq(TextLine) /\ line \in TextLine /\ line.type = "usage"
    BY <1>2, <1>8, <1>9
  <2> QED BY ONLY <2>1, <1>t, NewLine
<1>12. First(t, n)
  BY <1>7, <1>8, <1>11 DEF First
<1>13. Bounded(t[n]) /\ \A j \in UsageIn(s) : Apart(s[j], line)
  <2>1. /\ t[n] = line /\ line.call.amount = amount /\ line.call.spent = Plus(Spent(s), amount)
        /\ line.totals = (IF withTotals THEN after ELSE Null)
    BY <1>7, <1>8, <1>11
  <2> DEFINE spent == line.call.spent
  <2>2. spent \in Counts /\ AtMost(amount, spent)
        /\ \A a \in Counts : AtMost(a, Spent(s)) => AtMost(a, spent) /\ AtMost(Plus(amount, a), spent)
    BY <1>1, <1>s, <2>1 DEF AtMost, Plus, Counts
  <2>3. CASE UsageIn(s) = {}
    <3>1. withTotals => after = amount
      BY <1>5, <2>3
    <3> QED BY <2>1, <2>2, <2>3, <3>1 DEF Bounded
  <2>4. CASE UsageIn(s) # {}
    <3> DEFINE l == LastUsage(s)
    <3>1. /\ l \in UsageIn(s) /\ Spent(s) = s[l].call.spent
          /\ \A j \in UsageIn(s) : j <= l /\ j \in Nat
      BY <1>2, <1>s, <2>4, LastPlace DEF UsageIn
    <3>2. /\ s[l].call.spent \in Counts
          /\ withTotals => s[l].totals \in Counts /\ AtMost(s[l].totals, s[l].call.spent)
      <4>1. s[l].call.spent \in Counts /\ LineInv(s, l)
        BY <1>2, <3>1, UsageTypes DEF FileInv
      <4> QED BY <1>3, <2>4, <4>1 DEF LineInv, Bounded
    <3>3. withTotals /\ after # amount => after = Plus(s[l].totals, amount)
      BY <1>5
    <3>4. withTotals => AtMost(after, spent)
      <4>1. CASE after = amount
        BY <2>2, <4>1
      <4>2. CASE withTotals /\ after = Plus(s[l].totals, amount)
        BY <1>1, <2>1, <3>1, <3>2, <4>2 DEF AtMost, Plus, Counts
      <4> QED BY <3>3, <4>1, <4>2
    <3>5. ASSUME NEW j \in UsageIn(s)
          PROVE  Apart(s[j], line)
      <4>1. /\ s[j].call.spent \in Counts
            /\ withTotals => s[j].totals \in Counts
        <5>1. s[j].totals \in Counts \cup {Null} /\ s[j].call.spent \in Counts /\ Reports(s[j])
          BY <1>2, UsageTypes DEF FileInv, LineInv
        <5> QED BY <5>1 DEF Reports
      <4>2. j = l \/ (j < l /\ Apart(s[j], s[l]))
        BY <1>2, <3>1 DEF FileInv
      <4>3. AtMost(s[j].call.spent, Spent(s))
        <5>1. j = l => AtMost(s[j].call.spent, s[l].call.spent)
          BY <4>1 DEF AtMost, Counts
        <5> QED BY <3>1, <4>2, <5>1 DEF Apart
      <4>4. AtMost(s[j].call.spent, spent) /\ AtMost(Plus(amount, s[j].call.spent), spent)
        BY <2>2, <4>1, <4>3
      <4>5. withTotals =>
              \/ \A k \in Kinds : after[k] + s[j].call.spent[k] = s[j].totals[k] + spent[k]
              \/ AtMost(Plus(after, s[j].call.spent), spent)
        <5>1. CASE after = amount
          BY <4>4, <5>1
        <5>2. CASE withTotals /\ after = Plus(s[l].totals, amount)
          <6>1. CASE \A k \in Kinds : s[l].totals[k] + s[j].call.spent[k]
                                       = s[j].totals[k] + s[l].call.spent[k]
            <7>1. ASSUME NEW k \in Kinds
                  PROVE  after[k] + s[j].call.spent[k] = s[j].totals[k] + spent[k]
              <8>1. after[k] = s[l].totals[k] + amount[k] /\ spent[k] = s[l].call.spent[k] + amount[k]
                BY <2>1, <3>1, <5>2 DEF Plus
              <8>2. /\ s[l].totals[k] \in Nat /\ amount[k] \in Nat /\ s[l].call.spent[k] \in Nat
                    /\ s[j].call.spent[k] \in Nat /\ s[j].totals[k] \in Nat
                BY <1>1, <3>2, <4>1, <5>2 DEF Counts
              <8>3. s[l].totals[k] + s[j].call.spent[k] = s[j].totals[k] + s[l].call.spent[k]
                BY <6>1
              <8> QED BY <8>1, <8>2, <8>3
            <7> QED BY <7>1
          <6>2. CASE AtMost(Plus(s[l].totals, s[j].call.spent), s[l].call.spent)
            BY <1>1, <2>1, <3>1, <3>2, <4>1, <5>2, <6>2 DEF AtMost, Plus, Counts
          <6>3. j = l => \A k \in Kinds : s[l].totals[k] + s[j].call.spent[k]
                                           = s[j].totals[k] + s[l].call.spent[k]
            OBVIOUS
          <6> QED BY <4>2, <5>2, <6>1, <6>2, <6>3 DEF Apart
        <5> QED BY <3>3, <5>1, <5>2
      <4> QED BY <2>1, <4>4, <4>5 DEF Apart
    <3> QED BY <2>1, <2>2, <3>4, <3>5 DEF Bounded
  <2> QED BY <2>3, <2>4
<1>19. withTotals /\ t[n].call.visible => Shows(t, n)
  <2> SUFFICES ASSUME withTotals, t[n].call.visible PROVE Shows(t, n)
    OBVIOUS
  <2>1. t[n].totals = after /\ t[n].call = call /\ call.amount = amount
    BY <1>7, <1>8, <1>11
  <2>2. CASE UsageIn(s) = {}
    <3>1. \A j \in UsageIn(t) : ~(j < n)
      BY <1>2, <1>t, <2>2 DEF UsageIn
    <3> QED BY <1>5, <2>1, <2>2, <3>1 DEF Shows
  <2>3. CASE UsageIn(s) # {}
    <3> DEFINE j == LastUsage(s)
    <3>1. j \in UsageIn(t) /\ Before(t, n, j) /\ Running(s) = t[j].totals
      BY <1>3, <1>11, <2>3
    <3>2. restart => after = amount /\ Restarted(Running(s), after)
      BY <1>7, <2>1 DEF after
    <3>3. ~restart => after = Plus(Running(s), amount)
      BY DEF after
    <3>4. Adds(t, n, j) \/ StartsAgain(t, n, j)
      BY <1>1, <2>1, <3>1, <3>2, <3>3 DEF Adds, StartsAgain
    <3> QED BY <3>1, <3>4 DEF Shows
  <2> QED BY <2>2, <2>3
<1>14. Answered(t, n)
  <2> SUFFICES ASSUME NEW u \in DOMAIN t, u < n, t[u].type = "user"
               PROVE  \E j \in UsageIn(t) : u < j /\ j <= n /\ t[j].call.answers
    BY DEF Answered
  <2>1. u \in DOMAIN s /\ s[u].type = "user" /\ s[u] = User
    <3>1. u \in DOMAIN s /\ s[u].type = "user"
      BY <1>11
    <3> QED BY <1>2, <3>1, LineTypes
  <2>2. CASE \E i \in UsageIn(s) : i > u /\ First(s, i)
    <3>1. PICK i \in UsageIn(s) : i > u /\ First(s, i)
      BY <2>2
    <3>2. PICK j \in UsageIn(s) : u < j /\ j <= i /\ s[j].call.answers
      BY <1>2, <2>1, <3>1 DEF FileInv, LineInv, Answered
    <3>3. j <= n
      BY <1>2, <1>11 DEF UsageIn
    <3> QED BY <1>11, <3>2, <3>3
  <2>3. CASE \A i \in UsageIn(s) : i > u => ~First(s, i)
    <3>1. Asked(s)
      BY <2>1, <2>3 DEF Asked, First
    <3>2. t[n].call.answers /\ n <= n
      <4>1. t[n].call.answers = Asked(s)
        BY <1>7, <1>8, <1>11
      <4>2. n <= n
        BY <1>2
      <4> QED BY <3>1, <4>1, <4>2, Zenon
    <3>3. u < n /\ n \in UsageIn(t)
      BY <1>11
    <3> QED BY <3>2, <3>3
  <2> QED BY <2>2, <2>3
<1>15. LineInv(t, n)
  <2>1. t[n].call.amount # Zero
    BY <1>1, <1>7, <1>8, <1>11
  <2> QED BY <1>10, <1>11, <1>12, <1>13, <1>14, <1>19, <2>1 DEF LineInv
<1> QED BY <1>1, <1>7, <1>8, <1>9, <1>13, <1>15, Written DEF s, n, t, here

LEMMA RepeatKeeps ==
    ASSUME SessionInv, SessionRepeat
    PROVE  SessionInv'
<1> USE CodexAssumption
<1> DEFINE s == lines[writing]
           n == Len(s) + 1
           here == <<writing, n>>
           last == s[LastUsage(s)]
           line == [last EXCEPT !.time = here]
           t == Append(s, line)
<1>1. writing \in Files /\ Write(line) /\ withTotals /\ UsageIn(s) # {}
  BY DEF SessionRepeat, Room
<1>2. s \in Seq(TextLine) /\ FileInv(s) /\ Dated(s, writing) /\ n \in Nat /\ writing \in Nat
  BY <1>1 DEF SessionInv, FilesInv
<1> HIDE DEF s
<1>3. LastUsage(s) \in UsageIn(s) /\ last \in UsageLine /\ last.call.id \in Files \X Nat
  BY <1>1, <1>2, LastPlace, UsageTypes
<1>4. here \in Files \X Nat
  BY <1>1, <1>2
<1>5. last.call.id # here
  <2>1. last.call.id[1] = writing => last.call.id[2] <= Len(s)
    BY <1>2, <1>3 DEF Dated
  <2> QED BY <1>2, <1>3, <2>1
<1>6. Reports(last)
  BY <1>2, <1>3 DEF FileInv, LineInv
<1>7. s[LastUsage(s)] = last
  OBVIOUS
<1> HIDE DEF last, here, n
<1>8. /\ line \in UsageLine /\ line.type = "usage" /\ line.time = here
      /\ line.call = last.call /\ line.totals = last.totals /\ line.last = last.last
  BY <1>3, <1>4 DEF UsageLine
<1>9. line \in TextLine
  BY <1>8 DEF TextLine
<1>t. t = Append(s, line) /\ n = Len(s) + 1
  BY DEF n
<1> HIDE DEF line, t
<1>10. /\ t[n] = line
       /\ LastUsage(s) \in UsageIn(t) /\ Before(t, n, LastUsage(s))
       /\ t[LastUsage(s)] = last
  BY <1>1, <1>2, <1>7, <1>8, <1>9, <1>t, NewLine
<1>11. LineInv(t, n)
  <2>1. ~First(t, n)
    BY <1>5, <1>8, <1>10 DEF First
  <2>2. Reports(t[n])
    BY <1>6, <1>8, <1>10 DEF Reports
  <2>3. Repeated(t, n)
    BY <1>8, <1>10 DEF Repeated, Repeats
  <2>4. t[n].call.amount # Zero
    BY <1>2, <1>3, <1>7, <1>8, <1>10 DEF FileInv, LineInv
  <2>5. Bounded(t[n])
    BY <1>2, <1>3, <1>7, <1>8, <1>10 DEF FileInv, LineInv, Bounded
  <2> QED BY <1>1, <1>8, <1>10, <2>1, <2>2, <2>3, <2>4, <2>5 DEF LineInv
<1>13. ASSUME NEW j \in UsageIn(s)
       PROVE  Apart(s[j], line)
  <2> DEFINE l == LastUsage(s)
  <2>1. /\ l \in UsageIn(s) /\ s[l] = last /\ j <= l /\ j \in Nat /\ l \in Nat
    BY <1>1, <1>2, <1>3, <1>7, LastPlace DEF UsageIn
  <2>2. CASE j = l
    <3>1. /\ last.call.spent \in Counts /\ last.totals \in Counts
      BY <1>1, <1>2, <1>6, <2>1, UsageTypes DEF Reports
    <3> QED BY <1>1, <1>8, <2>1, <2>2, <3>1 DEF Apart, AtMost, Counts
  <2>3. CASE j < l
    <3>1. Apart(s[j], last)
      BY <1>2, <2>1, <2>3 DEF FileInv
    <3> QED BY <1>8, <3>1 DEF Apart
  <2> QED BY <2>1, <2>2, <2>3
<1>12. \E j \in UsageIn(s) : line.call.id = s[j].call.id
  BY <1>3, <1>7, <1>8
<1> QED BY <1>1, <1>8, <1>9, <1>11, <1>12, <1>13, Written DEF s, n, t, here

LEMMA SaysKeeps ==
    ASSUME SessionInv, writing \in Files, NEW line \in TextLine, line.type # "usage",
           Write(line)
    PROVE  SessionInv'
BY Written

LEMMA ForkKeeps ==
    ASSUME SessionInv, NEW g \in Files, NEW n \in 1..MaxLines, NEW keepsLast \in BOOLEAN,
           SessionFork(g, n, keepsLast)
    PROVE  SessionInv'
<1> DEFINE w == writing
           s == lines[w]
           c == [i \in 1..n |-> CopyOf(lines[g][i], keepsLast)]
           t == s \o c
<1>1. /\ w \in Files /\ g < w /\ n \in 1..Len(lines[g])
      /\ \A i \in DOMAIN s : s[i].type = "turn_context"
      /\ lines' = [lines EXCEPT ![w] = t]
      /\ UNCHANGED <<withTotals, withLast, writing>>
  BY DEF SessionFork
<1>2. /\ lines \in [Files -> Seq(TextLine)] /\ withTotals \in BOOLEAN
      /\ s \in Seq(TextLine) /\ lines[g] \in Seq(TextLine)
      /\ FileInv(lines[g]) /\ Dated(lines[g], g) /\ w \in Nat /\ g \in Nat
  BY <1>1 DEF SessionInv, FilesInv, Files
<1>3. /\ FileInv(t)
      /\ \A i \in UsageIn(t) : \E j \in UsageIn(lines[g]) :
            t[i].time = lines[g][j].time /\ Copied(t[i], lines[g][j])
  <2>1. /\ FileInv(lines[g]) /\ n \in 1..Len(lines[g]) /\ s \in Seq(TextLine)
        /\ \A i \in DOMAIN s : s[i].type = "turn_context"
        /\ withTotals \in BOOLEAN
    BY <1>1, <1>2
  <2> HIDE DEF s
  <2>2. ASSUME NEW i \in 1..n
        PROVE  CopyOf(lines[g][i], keepsLast) \in TextLine
    <3>1. lines[g][i] \in TextLine /\ (lines[g][i].type = "usage" => Reports(lines[g][i]))
      BY <1>2, <2>1 DEF FileInv, LineInv, UsageIn
    <3> QED BY <3>1, CopySays
  <2>3. /\ c \in Seq(TextLine) /\ Len(c) = n
        /\ \A i \in 1..n : c[i] = CopyOf(lines[g][i], keepsLast)
    BY <1>2, <2>1, <2>2
  <2> HIDE DEF c
  <2>4. FileInv(s \o c)
    BY <2>1, <2>3, CopiesKeep
  <2>5. CopiesOf(s \o c, lines[g])
    BY <2>1, <2>3, CopiesKeep
  <2> QED BY <2>4, <2>5 DEF CopiesOf
<1>4. lines'[w] = t /\ lines' = [lines EXCEPT ![w] = lines'[w]]
  BY <1>1, <1>2
<1> HIDE DEF t, s, w
<1>5. Dated(t, w)
  <2> SUFFICES ASSUME NEW i \in UsageIn(t)
               PROVE  /\ t[i].time[1] <= w /\ t[i].time[1] # w
                      /\ t[i].call.id[1] <= w /\ t[i].call.id[1] # w
    BY DEF Dated
  <2>1. PICK j \in UsageIn(lines[g]) : t[i].time = lines[g][j].time /\ t[i].call = lines[g][j].call
    BY <1>3 DEF Copied
  <2>2. /\ lines[g][j].time[1] \in Nat /\ lines[g][j].call.id[1] \in Nat
    BY <1>2, UsageTypes DEF Files
  <2>3. lines[g][j].time[1] <= g /\ lines[g][j].call.id[1] <= g
    BY <1>2 DEF Dated
  <2> QED BY <1>1, <1>2, <2>1, <2>2, <2>3
<1> QED BY <1>1, <1>3, <1>4, <1>5, Grown DEF w

\* The files stay while nothing is written.
LEMMA FilesStay ==
    ASSUME SessionInv, UNCHANGED <<lines, withTotals, withLast>>,
           writing' \in Nat, writing' >= writing
    PROVE  SessionInv'
<1>1. FilesInv'
  <2>1. \A f \in Files : FileInv(lines'[f]) /\ Dated(lines'[f], f)
                         /\ (f > writing' => lines'[f] = <<>>)
    BY DEF SessionInv, FilesInv, Files
  <2>2. \A f \in Files : FileInv(lines[f])'
    BY <2>1 DEF FileInv, LineInv, Reports, Repeated, Repeats, Adds, Bounded,
        Shows, StartsAgain, UsageIn, First, Before, Answered, Apart
  <2>3. \A f \in Files : Dated(lines[f], f)'
    BY <2>1 DEF Dated, UsageIn
  <2>4. \A f, g \in Files : \A i \in UsageIn(lines'[f]) : \A j \in UsageIn(lines'[g]) :
            lines'[f][i].time = lines'[g][j].time => Copied(lines'[f][i], lines'[g][j])
    BY DEF SessionInv, FilesInv
  <2> QED BY <2>1, <2>2, <2>3, <2>4 DEF FilesInv, Copied, Snapshot, UsageIn
<1> QED BY <1>1 DEF SessionInv

LEMMA SessionKeeps ==
    ASSUME SessionInv, Session
    PROVE  SessionInv' /\ writing \in Files /\ UNCHANGED <<file, at, events, unread, seenReplayKeys, skipped, malformed>>
<1>1. ASSUME NEW m \in Contexts, SessionContext(m)
      PROVE  SessionInv' /\ writing \in Files /\ UNCHANGED <<file, at, events, unread, seenReplayKeys, skipped, malformed>>
  <2>1. Context(m) \in TextLine /\ Context(m).type # "usage"
    BY DEF TextLine, Context
  <2> QED BY <1>1, <2>1, SaysKeeps DEF SessionContext, Room, Write, result
<1>2. ASSUME SessionUser
      PROVE  SessionInv' /\ writing \in Files /\ UNCHANGED <<file, at, events, unread, seenReplayKeys, skipped, malformed>>
  <2>1. User \in TextLine /\ User.type # "usage"
    BY DEF TextLine, User
  <2> QED BY <1>2, <2>1, SaysKeeps DEF SessionUser, Room, Write, result
<1>3. ASSUME NEW amount \in Amounts, NEW restart \in Restarts, SessionCall(amount, restart)
      PROVE  SessionInv' /\ writing \in Files /\ UNCHANGED <<file, at, events, unread, seenReplayKeys, skipped, malformed>>
  <2>1. PICK line : Write(line)
    BY <1>3 DEF SessionCall
  <2>2. UNCHANGED <<file, at, events, unread, seenReplayKeys, skipped, malformed>>
    BY <2>1 DEF Write, result
  <2>3. writing \in Files
    BY <1>3 DEF SessionCall, Room
  <2> QED BY <1>3, <2>2, <2>3, CallKeeps
<1>4. ASSUME SessionRepeat
      PROVE  SessionInv' /\ writing \in Files /\ UNCHANGED <<file, at, events, unread, seenReplayKeys, skipped, malformed>>
  <2>1. PICK line : Write(line)
    BY <1>4 DEF SessionRepeat
  <2>2. UNCHANGED <<file, at, events, unread, seenReplayKeys, skipped, malformed>>
    BY <2>1 DEF Write, result
  <2>3. writing \in Files
    BY <1>4 DEF SessionRepeat, Room
  <2> QED BY <1>4, <2>2, <2>3, RepeatKeeps
<1>5. ASSUME NEW g \in Files, NEW n \in 1..MaxLines, NEW keepsLast \in BOOLEAN,
             SessionFork(g, n, keepsLast)
      PROVE  SessionInv' /\ writing \in Files /\ UNCHANGED <<file, at, events, unread, seenReplayKeys, skipped, malformed>>
  BY <1>5, ForkKeeps DEF SessionFork, result
<1>6. ASSUME SessionEnd
      PROVE  SessionInv' /\ writing \in Files /\ UNCHANGED <<file, at, events, unread, seenReplayKeys, skipped, malformed>>
  <2>1. writing \in Nat /\ writing' = writing + 1
    BY <1>6 DEF SessionEnd, SessionInv
  <2> QED BY <1>6, <2>1, FilesStay DEF SessionEnd, result
<1> QED BY <1>1, <1>2, <1>3, <1>4, <1>5, <1>6 DEF Session

LEMMA InitSession == Init => SessionInv
<1> SUFFICES ASSUME Init PROVE SessionInv
  OBVIOUS
<1>1. \A f \in Files : lines[f] = <<>> /\ UsageIn(lines[f]) = {}
  BY DEF Init, UsageIn
<1>2. \A f \in Files : FileInv(lines[f]) /\ Dated(lines[f], f)
  <2>1. <<>> \in Seq(TextLine)
    OBVIOUS
  <2> QED BY <1>1, <2>1 DEF FileInv, Dated
<1>3. FilesInv
  BY <1>1, <1>2 DEF FilesInv
<1> QED BY <1>3 DEF Init, SessionInv


-----------------------------------------------------------------------------
(***************************************************************************)
(* The reader.  Its previous totals are those of the last usage line it    *)
(* could read, and a user input that waits has had no such line since.     *)
(* The replay key of the line an event is of is remembered with it.  What  *)
(* is known of an event stays so, however many lines turn out malformed.   *)
(***************************************************************************)
EventRecord ==
    [call : Call, place : Files \X Nat, tokens : Counts, turn : BOOLEAN,
     model : Contexts \cup {Null}]

\* The event is of line i of file f, whose lines are s.
Of(e, f, s, i) == e.place = <<f, i>> /\ e.call = s[i].call

\* The usage lines before i that could be read, the malformed ones being m.
Parsed(s, f, m, i) == {j \in UsageIn(s) : j < i /\ <<f, j>> \notin m}

Charged(e, s, m) ==
    \A k \in Kinds :
        /\ e.tokens[k] <= e.call.spent[k]
        /\ \A j \in Parsed(s, e.place[1], m, e.place[2]) :
              e.tokens[k] <= e.call.spent[k] - s[j].call.spent[k]

Turned(e, s, m) ==
    e.turn =>
        \/ ~First(s, e.place[2])
        \/ \E j \in UsageIn(s) :
              /\ j <= e.place[2] /\ s[j].call.answers
              /\ \A k \in UsageIn(s) : j <= k /\ k < e.place[2] => <<e.place[1], k>> \in m

Good(e, s, m) == Charged(e, s, m) /\ Turned(e, s, m)

Repeating(e, files) == files[e.place[1]][e.place[2]].time # e.call.id

Distinct(q, files) ==
    \A i, j \in DOMAIN q : i # j /\ q[i].call.id = q[j].call.id
        => Repeating(q[i], files) \/ Repeating(q[j], files)

EventsInv ==
    /\ events \in Seq(EventRecord) /\ Distinct(events, lines)
    /\ \A e \in DOMAIN events : \E f \in Files : \E i \in UsageIn(lines[f]) :
          /\ Of(events[e], f, lines[f], i) /\ Good(events[e], lines[f], malformed)
          /\ ReplayKey(lines[f][i]) \in seenReplayKeys
    /\ file # Null \/ events # <<>> => writing > NumFiles

\* Of the lines in places, which could be read, the last has the totals.
Recalls(totals, s, places) ==
    \/ totals = Null /\ places = {}
    \/ \E p \in places : totals = s[p].totals /\ \A j \in places : j <= p

\* A user input before line i has had no line that could be read since.
Heard(s, f, m, i) ==
    \E u \in DOMAIN s : /\ u < i /\ s[u].type = "user"
                        /\ \A k \in UsageIn(s) : u < k /\ k < i => <<f, k>> \in m

\* What the reader knows of the lines before this one.
PlaceInv ==
    /\ file \in Files /\ at \in Nat \ {0}
    /\ model \in Contexts \cup {Null} /\ afterUserInput \in BOOLEAN
    /\ previous \in Counts \cup {Null} /\ (previous # Null => withTotals)
    /\ \A i \in Nat : <<file, i>> \in malformed => i < at
    /\ Recalls(previous, lines[file], Parsed(lines[file], file, malformed, at))
    /\ afterUserInput => Heard(lines[file], file, malformed, at)

\* Pending events are of lines before this one, which no other file had.
PendingInv ==
    /\ pending \in Seq(EventRecord) /\ Distinct(pending, lines)
    /\ \A e \in DOMAIN pending : \E i \in UsageIn(lines[file]) :
          /\ i < at /\ Of(pending[e], file, lines[file], i)
          /\ Good(pending[e], lines[file], malformed)
          /\ ReplayKey(lines[file][i]) \in fileReplayKeys \ seenReplayKeys

\* No line of a file that was not opened is known to be malformed.
UnreadInv ==
    /\ \A f \in unread : \A i \in Nat : <<f, i>> \notin malformed
    /\ file # Null => file \notin unread

IInv == SessionInv /\ EventsInv /\ UnreadInv /\ (file # Null => PlaceInv /\ PendingInv)

\* What holds of an event does so when more lines turn out malformed.
LEMMA GoodStays ==
    ASSUME NEW e, NEW s, NEW m, NEW n, m \subseteq n, Good(e, s, m)
    PROVE  Good(e, s, n)
<1>1. Charged(e, s, n)
  <2>1. \A f, i : Parsed(s, f, n, i) \subseteq Parsed(s, f, m, i)
    BY DEF Parsed
  <2> QED BY <2>1 DEF Good, Charged
<1>2. Turned(e, s, n)
  BY DEF Good, Turned
<1> QED BY <1>1, <1>2 DEF Good

\* A line that reports tokens reports no more than was used since any line that
\* was read, and a user's input that waits is answered by its call or, among
\* the lines since the last that was read, by an earlier one.
LEMMA Reported ==
    ASSUME SessionInv, PlaceInv, Reading, Line.type = "usage", Tokens(Line) # Null,
           NEW e, e = Event(Line)
    PROVE  /\ at \in UsageIn(lines[file])
           /\ e \in EventRecord /\ Of(e, file, lines[file], at)
           /\ Good(e, lines[file], malformed)
<1> DEFINE s == lines[file]
           line == s[at]
           R == Parsed(s, file, malformed, at)
<1>1. /\ s \in Seq(TextLine) /\ FileInv(s) /\ at \in 1..Len(s) /\ Line = line /\ Null \notin Counts
      /\ file \in Files /\ model \in Contexts \cup {Null} /\ afterUserInput \in BOOLEAN
  BY CodexAssumption DEF SessionInv, FilesInv, PlaceInv, Reading, Line
<1>2. at \in UsageIn(s)
  BY <1>1 DEF UsageIn
<1>3. /\ Recalls(previous, s, R)
      /\ afterUserInput => Heard(s, file, malformed, at)
      /\ previous \in Counts \cup {Null} /\ (previous # Null => withTotals)
  BY <1>1 DEF PlaceInv
<1> HIDE DEF s
<1>4. LineInv(s, at) /\ Reports(line) /\ Bounded(line)
  BY <1>1, <1>2 DEF FileInv, LineInv
<1> DEFINE amount == line.call.amount
           spent == line.call.spent
           totals == line.totals
           reported == IF line.last # Null THEN line.last ELSE Derived(line.totals)
<1>5. /\ line \in UsageLine /\ line.call \in Call /\ amount \in Counts /\ spent \in Counts
      /\ totals \in Counts \cup {Null} /\ line.last \in {Null, amount}
      /\ (totals # Null <=> withTotals) /\ (totals = Null => line.last # Null)
  BY <1>1, <1>2, <1>4, UsageTypes DEF Reports
<1>6. /\ e.call = line.call /\ e.place = <<file, at>> /\ e.tokens = reported
      /\ e.turn = afterUserInput /\ e.model = model
      /\ e = [call |-> line.call, place |-> <<file, at>>, tokens |-> reported,
              turn |-> afterUserInput, model |-> model]
      /\ ~Stale(line)
  BY <1>1 DEF Event, Tokens
\* Its totals against the previous ones, which are of the line p.
<1>7. ASSUME NEW j \in R
      PROVE  /\ j \in UsageIn(s) /\ j < at /\ j \in Nat /\ Apart(s[j], line)
             /\ s[j].call.spent \in Counts
             /\ withTotals => s[j].totals \in Counts
             /\ ~withTotals => s[j].totals = Null
  <2>1. j \in UsageIn(s) /\ j < at
    BY DEF Parsed
  <2>2. Apart(s[j], line) /\ Reports(s[j])
    BY <1>1, <1>2, <2>1 DEF FileInv, LineInv
  <2>3. s[j].call.spent \in Counts /\ s[j].totals \in Counts \cup {Null} /\ j \in Nat
    BY <1>1, <2>1, UsageTypes
  <2> QED BY <2>1, <2>2, <2>3 DEF Reports
<1> HIDE DEF line, amount, spent, totals, R
<1>8. line.call.amount = amount /\ line.call.spent = spent /\ line.totals = totals
  BY DEF amount, spent, totals
<1>9. \A j \in R : \A p \in R : j <= p => AtMost(s[j].call.spent, s[p].call.spent)
  <2> SUFFICES ASSUME NEW j \in R, NEW p \in R, j <= p
               PROVE  AtMost(s[j].call.spent, s[p].call.spent)
    OBVIOUS
  <2>1. CASE j = p
    BY <1>7, <2>1 DEF AtMost, Counts
  <2>2. CASE j < p
    BY <1>1, <1>7, <2>2 DEF FileInv, Apart
  <2> QED BY <1>7, <2>1, <2>2
\* It is enough to compare with the last line that was read, if there is one.
<1>10. ASSUME NEW p \in R, previous = s[p].totals, \A j \in R : j <= p
       PROVE  reported \in Counts /\ AtMost(Plus(reported, s[p].call.spent), spent)
  <2>1. /\ Apart(s[p], line) /\ s[p].call.spent \in Counts
        /\ withTotals => previous \in Counts /\ totals \in Counts
    BY <1>5, <1>7, <1>10 DEF totals
  <2>2. CASE line.last # Null
    <3>1. reported = amount
      BY <1>5, <2>2
    <3>2. ~(withTotals /\ s[p].totals = line.totals)
      BY <1>5, <1>6, <1>8, <1>10 DEF Stale
    <3> QED BY <1>5, <1>8, <2>1, <3>1, <3>2 DEF Apart
  <2>3. CASE line.last = Null
    <3>1. withTotals /\ previous \in Counts /\ totals \in Counts /\ reported = Derived(totals)
      BY <1>5, <1>8, <2>1, <2>3
    <3>2. \/ \A k \in Kinds : totals[k] + s[p].call.spent[k] = previous[k] + spent[k]
          \/ AtMost(Plus(totals, s[p].call.spent), spent)
      BY <1>8, <1>10, <2>1, <3>1 DEF Apart
    <3>3. AtMost(s[p].call.spent, spent)
      BY <1>8, <2>1 DEF Apart
    <3>4. CASE Advanced(totals, previous)
      <4>1. reported = Delta(totals, previous)
        BY <1>1, <3>1, <3>4 DEF Derived
      <4>2. reported \in Counts
        BY <3>1, <3>4, <4>1 DEF Delta, Advanced, Counts
      <4>3. ASSUME NEW k \in Kinds
            PROVE  reported[k] + s[p].call.spent[k] <= spent[k]
        <5>1. reported[k] = totals[k] - previous[k]
          BY <4>1 DEF Delta
        <5>2. /\ totals[k] \in Nat /\ previous[k] \in Nat /\ spent[k] \in Nat
              /\ s[p].call.spent[k] \in Nat
          BY <1>5, <2>1, <3>1 DEF Counts, spent
        <5>3. \/ totals[k] + s[p].call.spent[k] = previous[k] + spent[k]
              \/ totals[k] + s[p].call.spent[k] <= spent[k]
          BY <3>2 DEF AtMost, Plus
        <5> QED BY <5>1, <5>2, <5>3
      <4> QED BY <4>2, <4>3 DEF AtMost, Plus
    <3>5. CASE ~Advanced(totals, previous)
      <4>1. reported = totals
        BY <3>1, <3>5 DEF Derived
      <4>2. PICK k \in Kinds : ~(totals[k] >= previous[k])
        BY <3>5 DEF Advanced
      <4>3. ~(totals[k] + s[p].call.spent[k] = previous[k] + spent[k])
        <5>1. /\ totals[k] \in Nat /\ previous[k] \in Nat /\ spent[k] \in Nat
              /\ s[p].call.spent[k] \in Nat
          BY <1>5, <2>1, <3>1 DEF Counts, spent
        <5>2. s[p].call.spent[k] <= spent[k]
          BY <3>3 DEF AtMost
        <5> QED BY <4>2, <5>1, <5>2
      <4> QED BY <3>1, <3>2, <4>1, <4>3
    <3> QED BY <3>4, <3>5
  <2> QED BY <2>2, <2>3
<1>11. ASSUME R = {}
       PROVE  reported \in Counts /\ Charged(e, s, malformed)
  <2>1. reported \in Counts /\ AtMost(reported, spent)
    <3>1. CASE line.last # Null
      BY <1>4, <1>5, <1>8, <3>1 DEF Bounded
    <3>2. CASE line.last = Null
      <4>1. withTotals /\ totals \in Counts /\ previous = Null
        BY <1>3, <1>5, <1>8, <1>11, <3>2 DEF Recalls
      <4>2. reported = totals
        BY <1>8, <3>2, <4>1 DEF Derived
      <4> QED BY <1>4, <1>8, <4>1, <4>2 DEF Bounded
    <3> QED BY <3>1, <3>2
  <2>2. Charged(e, s, malformed)
    BY <1>6, <1>8, <1>11, <2>1 DEF Charged, AtMost, R
  <2> QED BY <2>1, <2>2
<1>12. ASSUME R # {}
       PROVE  reported \in Counts /\ Charged(e, s, malformed)
  <2>1. PICK p \in R : previous = s[p].totals /\ \A j \in R : j <= p
    BY <1>3, <1>12 DEF Recalls
  <2>2. reported \in Counts /\ AtMost(Plus(reported, s[p].call.spent), spent)
    BY <1>10, <2>1
  <2>3. ASSUME NEW k \in Kinds
        PROVE  /\ reported[k] <= spent[k]
               /\ \A j \in R : reported[k] <= spent[k] - s[j].call.spent[k]
    <3>1. /\ reported[k] \in Nat /\ spent[k] \in Nat /\ \A j \in R : s[j].call.spent[k] \in Nat
      BY <1>5, <1>7, <2>2 DEF Counts, spent
    <3>2. reported[k] + s[p].call.spent[k] <= spent[k]
      BY <2>2 DEF AtMost, Plus
    <3>3. \A j \in R : s[j].call.spent[k] <= s[p].call.spent[k]
      BY <1>9, <2>1 DEF AtMost
    <3> QED BY <3>1, <3>2, <3>3
  <2>4. Charged(e, s, malformed)
    BY <1>6, <1>8, <2>3 DEF Charged, R
  <2> QED BY <2>2, <2>4
<1>13. reported \in Counts /\ Charged(e, s, malformed)
  BY <1>11, <1>12
<1>14. Turned(e, s, malformed)
  <2> SUFFICES ASSUME afterUserInput, First(s, at)
               PROVE  \E j \in UsageIn(s) :
                        /\ j <= at /\ s[j].call.answers
                        /\ \A k \in UsageIn(s) : j <= k /\ k < at => <<file, k>> \in malformed
    BY <1>6 DEF Turned
  <2>1. PICK u \in DOMAIN s : /\ u < at /\ s[u].type = "user"
                              /\ \A k \in UsageIn(s) : u < k /\ k < at => <<file, k>> \in malformed
    BY <1>3 DEF Heard
  <2>2. PICK j \in UsageIn(s) : u < j /\ j <= at /\ s[j].call.answers
    BY <1>4, <2>1 DEF LineInv, Answered
  <2>3. \A k \in UsageIn(s) : j <= k => u < k
    BY <1>1, <2>1, <2>2 DEF UsageIn
  <2> QED BY <2>1, <2>2, <2>3
<1>15. e \in EventRecord /\ Of(e, file, s, at)
  <2>1. <<file, at>> \in Files \X Nat
    BY <1>1
  <2>2. e.call \in Call
    BY <1>5, <1>6
  <2> QED BY <1>1, <1>6, <1>13, <2>1, <2>2 DEF EventRecord, Of, line
<1> QED BY <1>2, <1>13, <1>14, <1>15 DEF Good, s

LEMMA EventsStay ==
    ASSUME EventsInv, UNCHANGED <<lines, writing, events, seenReplayKeys>>,
           malformed \subseteq malformed', file' # Null => writing > NumFiles
    PROVE  EventsInv'
<1>1. events' \in Seq(EventRecord) /\ Distinct(events', lines')
  BY DEF EventsInv
<1>2. ASSUME NEW e \in DOMAIN events'
      PROVE  \E f \in Files : \E i \in UsageIn(lines'[f]) :
                /\ Of(events'[e], f, lines'[f], i) /\ Good(events'[e], lines'[f], malformed')
                /\ ReplayKey(lines'[f][i]) \in seenReplayKeys'
  <2>1. PICK f \in Files : \E i \in UsageIn(lines[f]) :
           /\ Of(events[e], f, lines[f], i) /\ Good(events[e], lines[f], malformed)
           /\ ReplayKey(lines[f][i]) \in seenReplayKeys
    BY DEF EventsInv
  <2>2. Good(events[e], lines[f], malformed')
    BY <2>1, GoodStays
  <2> QED BY <2>1, <2>2
<1>3. file' # Null \/ events' # <<>> => writing' > NumFiles
  BY DEF EventsInv
<1> QED BY <1>1, <1>2, <1>3 DEF EventsInv

LEMMA PendingStays ==
    ASSUME PendingInv, PlaceInv, UNCHANGED <<lines, file, pending, seenReplayKeys>>,
           malformed \subseteq malformed',
           at' = at + 1, fileReplayKeys \subseteq fileReplayKeys', lines \in [Files -> Seq(TextLine)]
    PROVE  PendingInv'
<1>1. pending' \in Seq(EventRecord) /\ Distinct(pending', lines')
  BY DEF PendingInv
<1>2. \A i \in UsageIn(lines[file]) : i < at => i < at'
  BY DEF PlaceInv, UsageIn
<1>3. ASSUME NEW e \in DOMAIN pending'
      PROVE  \E i \in UsageIn(lines'[file']) :
                /\ i < at' /\ Of(pending'[e], file', lines'[file'], i)
                /\ Good(pending'[e], lines'[file'], malformed')
                /\ ReplayKey(lines'[file'][i]) \in fileReplayKeys' \ seenReplayKeys'
  <2>1. PICK i \in UsageIn(lines[file]) :
           /\ i < at /\ Of(pending[e], file, lines[file], i)
           /\ Good(pending[e], lines[file], malformed)
           /\ ReplayKey(lines[file][i]) \in fileReplayKeys \ seenReplayKeys
    BY DEF PendingInv
  <2>2. Good(pending[e], lines[file], malformed')
    BY <2>1, GoodStays
  <2> QED BY <1>2, <2>1, <2>2
<1> QED BY <1>1, <1>3 DEF PendingInv

\* Past a line that was not a usage line, or is malformed, the same is known.
LEMMA Passes ==
    ASSUME NEW s \in Seq(TextLine), NEW p \in 1..Len(s), NEW f, NEW m, NEW n,
           \/ s[p].type # "usage" /\ n = m
           \/ n = m \cup {<<f, p>>}
    PROVE  /\ Parsed(s, f, n, p + 1) = Parsed(s, f, m, p)
           /\ Heard(s, f, m, p) => Heard(s, f, n, p + 1)
           /\ s[p].type = "user" => Heard(s, f, n, p + 1)
<1>1. /\ p \in Nat /\ Len(s) \in Nat /\ DOMAIN s = 1..Len(s) /\ UsageIn(s) \subseteq 1..Len(s)
      /\ m \subseteq n
  BY DEF UsageIn
<1>2. \A j \in UsageIn(s) : j < p + 1 <=> j < p \/ j = p
  BY <1>1
<1>3. p \in UsageIn(s) => <<f, p>> \in n
  BY DEF UsageIn
<1>4. \A j \in UsageIn(s) : j # p => (<<f, j>> \in n <=> <<f, j>> \in m)
  OBVIOUS
<1>5. Parsed(s, f, n, p + 1) = Parsed(s, f, m, p)
  <2>1. \A j \in UsageIn(s) : j < p => j # p
    BY <1>1
  <2> QED BY <1>2, <1>3, <1>4, <2>1 DEF Parsed
<1>6. Heard(s, f, m, p) => Heard(s, f, n, p + 1)
  <2> SUFFICES ASSUME Heard(s, f, m, p) PROVE Heard(s, f, n, p + 1)
    OBVIOUS
  <2>1. PICK u \in DOMAIN s : /\ u < p /\ s[u].type = "user"
                              /\ \A k \in UsageIn(s) : u < k /\ k < p => <<f, k>> \in m
    BY DEF Heard
  <2>2. u < p + 1
    BY <1>1, <2>1
  <2>3. \A k \in UsageIn(s) : u < k /\ k < p + 1 => <<f, k>> \in n
    BY <1>1, <1>2, <1>3, <2>1
  <2> QED BY <2>1, <2>2, <2>3 DEF Heard
<1>7. s[p].type = "user" => Heard(s, f, n, p + 1)
  <2>1. p < p + 1 /\ \A k \in UsageIn(s) : ~(p < k /\ k < p + 1)
    BY <1>1
  <2> QED BY <1>1, <2>1 DEF Heard
<1> QED BY <1>5, <1>6, <1>7

\* What is known of the next place.
LEMMA Placed ==
    ASSUME PlaceInv, UNCHANGED <<lines, withTotals, file>>, at' = at + 1,
           malformed' \in {malformed, malformed \cup {<<file, at>>}},
           model' \in Contexts \cup {Null}, afterUserInput' \in BOOLEAN,
           previous' \in Counts \cup {Null}, previous' # Null => withTotals,
           Recalls(previous', lines[file], Parsed(lines[file], file, malformed', at + 1)),
           afterUserInput' => Heard(lines[file], file, malformed', at + 1)
    PROVE  PlaceInv'
<1>1. file' \in Files /\ at' \in Nat \ {0} /\ at' = at + 1
  BY DEF PlaceInv
<1>2. \A i \in Nat : <<file', i>> \in malformed' => i < at'
  <2>1. at \in Nat /\ \A i \in Nat : <<file, i>> \in malformed => i < at
    BY DEF PlaceInv
  <2> QED BY <2>1
<1> QED BY <1>1, <1>2 DEF PlaceInv


\* A usage line keeps what is known: an event of it is of a call that no event
\* pending has, unless one of the two is of repeated totals.
LEMMA UsageKeeps ==
    ASSUME IInv, ReadUsage
    PROVE  IInv'
<1> DEFINE s == lines[file]
<1>1. /\ SessionInv /\ EventsInv /\ PlaceInv /\ PendingInv /\ UnreadInv /\ file # Null
      /\ Reading /\ Line.type = "usage" /\ Line = s[at]
      /\ UNCHANGED <<history, file, model, unread, result>> /\ at' = at + 1
      /\ previous' = PreviousAfter(Line) /\ afterUserInput' = FALSE
      /\ fileReplayKeys' = fileReplayKeys \cup {ReplayKey(Line)}
  BY DEF IInv, ReadUsage, Reading, Line, TurnPendingAfter
<1>2. /\ UNCHANGED <<lines, withTotals, withLast, writing, events, seenReplayKeys, malformed>>
      /\ lines \in [Files -> Seq(TextLine)] /\ writing \in Nat
      /\ s \in Seq(TextLine) /\ FileInv(s) /\ at \in 1..Len(s) /\ at \in UsageIn(s)
  BY <1>1 DEF history, result, SessionInv, FilesInv, PlaceInv, Reading, UsageIn
<1>3. SessionInv' /\ EventsInv' /\ UnreadInv'
  <2>1. writing > NumFiles
    BY <1>1 DEF EventsInv
  <2>2. UnreadInv'
    BY <1>1, <1>2 DEF UnreadInv
  <2> QED BY <1>1, <1>2, <2>1, <2>2, FilesStay, EventsStay
<1>4. PlaceInv'
  <2>1. Line.totals \in Counts \cup {Null} /\ (Line.totals # Null <=> withTotals)
    <3> HIDE DEF s
    <3> QED BY <1>1, <1>2, UsageTypes DEF FileInv, LineInv, Reports
  <2>2. /\ previous' \in Counts \cup {Null} /\ (previous' # Null => withTotals)
        /\ previous' = Line.totals
    BY <1>1, <2>1 DEF PreviousAfter, PlaceInv
  <2>3. /\ at \in Parsed(s, file, malformed, at + 1)
        /\ \A j \in Parsed(s, file, malformed, at + 1) : j <= at
    <3>1. <<file, at>> \notin malformed /\ at \in Nat
      BY <1>1 DEF PlaceInv
    <3>2. at < at + 1 /\ \A j \in UsageIn(s) : j < at + 1 => j <= at
      BY <1>2, <3>1 DEF UsageIn
    <3> QED BY <1>2, <3>1, <3>2 DEF Parsed
  <2>4. Recalls(previous', s, Parsed(s, file, malformed', at + 1))
    BY <1>1, <1>2, <2>2, <2>3 DEF Recalls
  <2>5. model' \in Contexts \cup {Null}
    BY <1>1 DEF PlaceInv
  <2> QED BY <1>1, <1>2, <2>2, <2>4, <2>5, Placed
<1>5. CASE pending' = pending
  BY <1>1, <1>2, <1>3, <1>4, <1>5, PendingStays DEF IInv
<1>6. CASE /\ ~IsReplay(Line) /\ Tokens(Line) # Null /\ model # Null
           /\ pending' = Append(pending, Event(Line))
  <2> DEFINE e == Event(Line)
             old == pending
             new == pending'
  <2>1. e \in EventRecord /\ Of(e, file, s, at) /\ Good(e, s, malformed)
    BY <1>1, <1>6, Reported
  <2>4. /\ old \in Seq(EventRecord) /\ Distinct(old, lines)
        /\ \A d \in DOMAIN old : \E i \in UsageIn(s) :
              /\ i < at /\ Of(old[d], file, s, i) /\ Good(old[d], s, malformed)
              /\ ReplayKey(s[i]) \in fileReplayKeys \ seenReplayKeys
    BY <1>1 DEF PendingInv
  <2>5. new = Append(old, e)
    BY <1>6
  <2>6. ReplayKey(s[at]) \in fileReplayKeys' \ seenReplayKeys
    BY <1>1, <1>6 DEF IsReplay
  <2> HIDE DEF e, new, old
  <2>7. /\ new \in Seq(EventRecord) /\ Len(new) = Len(old) + 1 /\ DOMAIN old = 1..Len(old)
        /\ DOMAIN new = 1..(Len(old) + 1) /\ Len(old) \in Nat
        /\ new[Len(old) + 1] = e /\ \A d \in DOMAIN old : new[d] = old[d]
    <3> HIDE DEF s
    <3> QED BY <2>1, <2>4, <2>5
  <2>8. \A d \in DOMAIN new : d \in DOMAIN old \/ d = Len(old) + 1
    BY <2>7
  <2>10. \A d \in DOMAIN old : old[d].call.id = e.call.id => Repeating(old[d], lines) \/ Repeating(e, lines)
    <3> SUFFICES ASSUME NEW d \in DOMAIN old, old[d].call.id = e.call.id,
                        ~Repeating(old[d], lines), ~Repeating(e, lines)
                 PROVE  FALSE
      OBVIOUS
    <3>1. PICK i \in UsageIn(s) : i < at /\ Of(old[d], file, s, i)
      BY <2>4
    <3>2. s[i].time = s[at].time
      BY <2>1, <3>1 DEF Of, Repeating
    <3>3. i = at
      BY <1>2, <3>1, <3>2 DEF FileInv
    <3> QED BY <1>2, <3>1, <3>3
  <2>11. Distinct(new, lines)
    BY <2>4, <2>7, <2>8, <2>10 DEF Distinct
  <2> HIDE DEF s
  <2>9. \A d \in DOMAIN new : \E i \in UsageIn(s) :
            /\ i < at + 1 /\ Of(new[d], file, s, i) /\ Good(new[d], s, malformed)
            /\ ReplayKey(s[i]) \in fileReplayKeys' \ seenReplayKeys
    <3>1. at < at + 1 /\ \A i \in UsageIn(s) : i < at => i < at + 1
      BY <1>2 DEF UsageIn
    <3>2. fileReplayKeys \subseteq fileReplayKeys'
      BY <1>1
    <3>3. ASSUME NEW d \in DOMAIN old
          PROVE  \E i \in UsageIn(s) :
                    /\ i < at + 1 /\ Of(new[d], file, s, i) /\ Good(new[d], s, malformed)
                    /\ ReplayKey(s[i]) \in fileReplayKeys' \ seenReplayKeys
      BY <2>4, <2>7, <3>1, <3>2
    <3>4. \E i \in UsageIn(s) :
             /\ i < at + 1 /\ Of(new[Len(old) + 1], file, s, i) /\ Good(new[Len(old) + 1], s, malformed)
             /\ ReplayKey(s[i]) \in fileReplayKeys' \ seenReplayKeys
      BY <1>2, <2>1, <2>6, <2>7, <3>1
    <3> QED BY <2>8, <3>3, <3>4
  <2>12. PendingInv'
    <3>1. UNCHANGED <<lines, file, seenReplayKeys, malformed>> /\ at' = at + 1
      BY <1>1, <1>2
    <3>2. \A d \in DOMAIN pending' : \E i \in UsageIn(lines'[file']) :
              /\ i < at' /\ Of(pending'[d], file', lines'[file'], i)
              /\ Good(pending'[d], lines'[file'], malformed')
              /\ ReplayKey(lines'[file'][i]) \in fileReplayKeys' \ seenReplayKeys'
      BY <2>9, <3>1 DEF new, s
    <3>3. pending' \in Seq(EventRecord) /\ Distinct(pending', lines')
      BY <2>7, <2>11, <3>1 DEF new
    <3> QED BY <3>2, <3>3 DEF PendingInv
  <2> QED BY <1>3, <1>4, <2>12 DEF IInv
<1>7. \/ pending' = pending
      \/ /\ ~IsReplay(Line) /\ Tokens(Line) # Null /\ model # Null
         /\ pending' = Append(pending, Event(Line))
  BY DEF ReadUsage
<1> QED BY <1>5, <1>6, <1>7


LEMMA LineKeeps ==
    ASSUME IInv, ReadMalformed \/ ReadContext \/ ReadUser
    PROVE  IInv'
<1> DEFINE s == lines[file]
<1>1. /\ SessionInv /\ EventsInv /\ PlaceInv /\ PendingInv /\ UnreadInv /\ file # Null /\ Reading
      /\ UNCHANGED <<history, file, unread, previous, pending, fileReplayKeys, seenReplayKeys, events>>
      /\ at' = at + 1
      /\ malformed' \in {malformed, malformed \cup {<<file, at>>}}
  BY DEF IInv, ReadMalformed, ReadContext, ReadUser, Reading, fileState, result
<1>2. /\ UNCHANGED <<lines, withTotals, withLast, writing>> /\ malformed \subseteq malformed'
      /\ lines \in [Files -> Seq(TextLine)] /\ writing \in Nat
      /\ s \in Seq(TextLine) /\ at \in 1..Len(s)
      /\ previous \in Counts \cup {Null} /\ (previous # Null => withTotals)
      /\ model \in Contexts \cup {Null} /\ afterUserInput \in BOOLEAN
      /\ Recalls(previous, s, Parsed(s, file, malformed, at))
      /\ afterUserInput => Heard(s, file, malformed, at)
  BY <1>1 DEF history, SessionInv, PlaceInv, Reading
<1>3. SessionInv' /\ EventsInv' /\ PendingInv' /\ UnreadInv'
  <2>1. writing > NumFiles
    BY <1>1 DEF EventsInv
  <2>2. UnreadInv'
    BY <1>1 DEF UnreadInv
  <2> QED BY <1>1, <1>2, <2>1, <2>2, FilesStay, EventsStay, PendingStays
<1>4. CASE ReadMalformed
  <2>1. /\ malformed' = malformed \cup {<<file, at>>} /\ UNCHANGED <<model, afterUserInput>>
    BY <1>4 DEF ReadMalformed, fileState
  <2> HIDE DEF s
  <2>2. /\ Parsed(s, file, malformed', at + 1) = Parsed(s, file, malformed, at)
        /\ Heard(s, file, malformed, at) => Heard(s, file, malformed', at + 1)
    BY <1>2, <2>1, Passes
  <2>3. PlaceInv'
    BY <1>1, <1>2, <2>1, <2>2, Placed DEF s
  <2> QED BY <1>3, <2>3 DEF IInv
<1>5. CASE ReadContext
  <2>1. /\ Line = s[at] /\ s[at].type # "usage" /\ afterUserInput' = afterUserInput
        /\ model' = IF s[at].model = Null THEN model ELSE s[at].model
        /\ s[at].type = "turn_context" /\ malformed' = malformed
    BY <1>5 DEF ReadContext, Line, result
  <2>2. model' \in Contexts \cup {Null}
    <3>1. s[at] \in TextLine
      BY <1>2
    <3>2. s[at].model \in Contexts
      BY <2>1, <3>1 DEF TextLine, Context, User, UsageLine
    <3> QED BY <1>2, <2>1, <3>2
  <2> HIDE DEF s
  <2>3. /\ Parsed(s, file, malformed', at + 1) = Parsed(s, file, malformed, at)
        /\ Heard(s, file, malformed, at) => Heard(s, file, malformed', at + 1)
    BY <1>2, <2>1, Passes
  <2>4. PlaceInv'
    BY <1>1, <1>2, <2>1, <2>2, <2>3, Placed DEF s
  <2> QED BY <1>3, <2>4 DEF IInv
<1>6. CASE ReadUser
  <2>1. s[at].type = "user" /\ afterUserInput' = TRUE /\ model' = model /\ malformed' = malformed
    BY <1>6 DEF ReadUser, Line, result
  <2> HIDE DEF s
  <2>2. /\ Parsed(s, file, malformed', at + 1) = Parsed(s, file, malformed, at)
        /\ Heard(s, file, malformed', at + 1)
    BY <1>2, <2>1, Passes
  <2>3. PlaceInv'
    BY <1>1, <1>2, <2>1, <2>2, Placed DEF s
  <2> QED BY <1>3, <2>3 DEF IInv
<1> QED BY <1>4, <1>5, <1>6

LEMMA OpenKeeps ==
    ASSUME IInv, NEW f \in Files, OpenFile(f)
    PROVE  IInv'
<1>1. /\ UNCHANGED <<lines, withTotals, withLast, writing, events, seenReplayKeys, malformed>>
      /\ lines \in [Files -> Seq(TextLine)] /\ writing \in Nat /\ writing > NumFiles
      /\ file' = f /\ at' = 1 /\ model' = Null /\ previous' = Null /\ afterUserInput' = FALSE
      /\ pending' = <<>> /\ f \in unread /\ unread' = unread \ {f} /\ UnreadInv
  BY DEF IInv, OpenFile, history, result, SessionInv
<1>2. SessionInv' /\ EventsInv' /\ UnreadInv'
  <2>1. UnreadInv'
    BY <1>1 DEF UnreadInv
  <2> QED BY <1>1, <2>1, FilesStay, EventsStay DEF IInv
<1>3. PlaceInv'
  <2>1. Parsed(lines[f], f, malformed, 1) = {}
    BY <1>1 DEF Parsed, UsageIn
  <2>2. Recalls(previous', lines'[file'], Parsed(lines'[file'], file', malformed', at'))
    BY <1>1, <2>1 DEF Recalls
  <2>3. \A i \in Nat : <<file', i>> \in malformed' => i < at'
    BY <1>1 DEF UnreadInv
  <2>4. file' \in Files /\ at' \in Nat \ {0} /\ afterUserInput' = FALSE
    BY <1>1
  <2> QED BY <1>1, <2>2, <2>3, <2>4 DEF PlaceInv
<1>4. PendingInv'
  BY <1>1 DEF PendingInv, Distinct
<1> QED BY <1>2, <1>3, <1>4 DEF IInv

\* Two sequences of events of different calls make one.
LEMMA Joined ==
    ASSUME NEW p \in Seq(EventRecord), NEW q \in Seq(EventRecord), NEW files,
           Distinct(p, files), Distinct(q, files),
           \A a \in DOMAIN p, b \in DOMAIN q :
              p[a].call.id = q[b].call.id => Repeating(p[a], files) \/ Repeating(q[b], files)
    PROVE  /\ p \o q \in Seq(EventRecord) /\ Distinct(p \o q, files)
           /\ \A e \in DOMAIN (p \o q) : \/ \E a \in DOMAIN p : (p \o q)[e] = p[a]
                                         \/ \E b \in DOMAIN q : (p \o q)[e] = q[b]
<1> DEFINE r == p \o q
           m == Len(p)
           n == Len(q)
<1>1. /\ r \in Seq(EventRecord) /\ DOMAIN r = 1..(m + n) /\ DOMAIN p = 1..m /\ DOMAIN q = 1..n
      /\ m \in Nat /\ n \in Nat
      /\ \A i \in 1..m : r[i] = p[i]
      /\ \A i \in (m + 1)..(m + n) : i - m \in 1..n /\ r[i] = q[i - m]
  OBVIOUS
<1> HIDE DEF r, m, n
<1>2. \A i \in DOMAIN r : \/ i \in DOMAIN p /\ r[i] = p[i]
                          \/ i \notin DOMAIN p /\ i - m \in DOMAIN q /\ r[i] = q[i - m]
  BY <1>1
<1>3. Distinct(r, files)
  <2> SUFFICES ASSUME NEW i \in DOMAIN r, NEW j \in DOMAIN r, i # j,
                      r[i].call.id = r[j].call.id
               PROVE  Repeating(r[i], files) \/ Repeating(r[j], files)
    BY DEF Distinct
  <2>1. i - m = j - m => i = j
    BY <1>1
  <2>2. CASE i \in DOMAIN p /\ j \in DOMAIN p
    BY <1>2, <2>2 DEF Distinct
  <2>3. CASE i \in DOMAIN p /\ j \notin DOMAIN p
    BY <1>2, <2>3
  <2>4. CASE i \notin DOMAIN p /\ j \in DOMAIN p
    BY <1>2, <2>4
  <2>5. CASE i \notin DOMAIN p /\ j \notin DOMAIN p
    BY <1>2, <2>1, <2>5 DEF Distinct
  <2> QED BY <2>2, <2>3, <2>4, <2>5
<1> QED BY <1>1, <1>2, <1>3 DEF r


\* At the end of a file no event that is pending is of a call that has one: the
\* two lines, if neither repeats totals, would be copies of one, and have one
\* replay key.
LEMMA EndKeeps ==
    ASSUME IInv, EndFile
    PROVE  IInv'
<1>1. /\ SessionInv /\ EventsInv /\ PlaceInv /\ PendingInv /\ UnreadInv
      /\ file # Null /\ file \in Files
      /\ events' = events \o pending /\ file' = Null
      /\ UNCHANGED <<lines, withTotals, withLast, writing, malformed, unread>> /\ writing \in Nat
      /\ FilesInv /\ writing > NumFiles
      /\ pending # <<>> => seenReplayKeys' = seenReplayKeys \cup fileReplayKeys
      /\ pending = <<>> => seenReplayKeys' = seenReplayKeys
  BY DEF IInv, EndFile, Finished, history, SessionInv, PlaceInv, EventsInv
<1>2. SessionInv' /\ UnreadInv'
  <2>1. UnreadInv'
    BY <1>1 DEF UnreadInv
  <2> QED BY <1>1, <2>1, FilesStay
<1>3. /\ events \in Seq(EventRecord) /\ Distinct(events, lines)
      /\ pending \in Seq(EventRecord) /\ Distinct(pending, lines)
  BY <1>1 DEF EventsInv, PendingInv
<1>4. ASSUME NEW a \in DOMAIN events, NEW b \in DOMAIN pending,
             events[a].call.id = pending[b].call.id,
             ~Repeating(events[a], lines), ~Repeating(pending[b], lines)
      PROVE  FALSE
  <2>0. PICK f \in Files : \E i \in UsageIn(lines[f]) :
           Of(events[a], f, lines[f], i) /\ ReplayKey(lines[f][i]) \in seenReplayKeys
    BY <1>1 DEF EventsInv
  <2>1. PICK i \in UsageIn(lines[f]) :
           Of(events[a], f, lines[f], i) /\ ReplayKey(lines[f][i]) \in seenReplayKeys
    BY <2>0
  <2>2. PICK j \in UsageIn(lines[file]) :
           Of(pending[b], file, lines[file], j) /\ ReplayKey(lines[file][j]) \notin seenReplayKeys
    BY <1>1 DEF PendingInv
  <2>3. lines[f][i].time = lines[file][j].time
    BY <1>4, <2>1, <2>2 DEF Of, Repeating
  <2>4. Copied(lines[f][i], lines[file][j])
    BY <1>1, <2>3 DEF FilesInv
  <2> QED BY <2>1, <2>2, <2>3, <2>4 DEF Copied, ReplayKey
<1>5. /\ events' \in Seq(EventRecord) /\ Distinct(events', lines)
      /\ \A e \in DOMAIN events' : \/ \E a \in DOMAIN events : events'[e] = events[a]
                                   \/ \E b \in DOMAIN pending : events'[e] = pending[b]
  BY <1>1, <1>3, <1>4, Joined
<1>6. seenReplayKeys \subseteq seenReplayKeys'
      /\ (pending # <<>> => fileReplayKeys \subseteq seenReplayKeys')
  BY <1>1
<1>7. ASSUME NEW e \in DOMAIN events'
      PROVE  \E f \in Files : \E i \in UsageIn(lines[f]) :
                /\ Of(events'[e], f, lines[f], i) /\ Good(events'[e], lines[f], malformed)
                /\ ReplayKey(lines[f][i]) \in seenReplayKeys'
  <2>1. CASE \E a \in DOMAIN events : events'[e] = events[a]
    BY <1>1, <1>6, <2>1 DEF EventsInv
  <2>2. CASE \E b \in DOMAIN pending : events'[e] = pending[b]
    <3>1. PICK b \in DOMAIN pending : events'[e] = pending[b]
      BY <2>2
    <3>2. pending # <<>>
      BY <1>3, <3>1
    <3>3. \E i \in UsageIn(lines[file]) :
             /\ Of(pending[b], file, lines[file], i) /\ Good(pending[b], lines[file], malformed)
             /\ ReplayKey(lines[file][i]) \in fileReplayKeys
      BY <1>1 DEF PendingInv
    <3> QED BY <1>1, <1>6, <3>1, <3>2, <3>3
  <2> QED BY <1>5, <2>1, <2>2
<1>8. EventsInv'
  <2>1. \A e \in DOMAIN events' : \E f \in Files : \E i \in UsageIn(lines'[f]) :
          /\ Of(events'[e], f, lines'[f], i) /\ Good(events'[e], lines'[f], malformed')
          /\ ReplayKey(lines'[f][i]) \in seenReplayKeys'
    BY <1>1, <1>7
  <2>2. events' \in Seq(EventRecord) /\ Distinct(events', lines')
    BY <1>1, <1>5
  <2> QED BY <1>1, <2>1, <2>2 DEF EventsInv
<1> QED BY <1>1, <1>2, <1>8 DEF IInv

\* A file that cannot be read, or names no model, leaves the result alone.
LEMMA PassedOver ==
    ASSUME IInv, (\E f \in Files : OpenFails(f)) \/ EndWithoutModel
    PROVE  IInv'
<1>1. /\ UNCHANGED <<lines, withTotals, withLast, writing, events, seenReplayKeys, malformed>>
      /\ file' = Null /\ writing \in Nat /\ SessionInv /\ EventsInv /\ UnreadInv
      /\ unread' \subseteq unread
  BY DEF IInv, OpenFails, EndWithoutModel, Finished, history, SessionInv
<1>2. SessionInv' /\ EventsInv' /\ UnreadInv'
  <2>1. UnreadInv'
    BY <1>1 DEF UnreadInv
  <2> QED BY <1>1, <2>1, FilesStay, EventsStay
<1> QED BY <1>1, <1>2 DEF IInv

LEMMA InvInit == Init => IInv
<1> SUFFICES ASSUME Init PROVE IInv
  OBVIOUS
<1>1. EventsInv
  BY DEF Init, EventsInv, Distinct
<1>2. UnreadInv
  BY DEF Init, UnreadInv
<1> QED BY <1>1, <1>2, InitSession DEF Init, IInv

LEMMA InvNext == IInv /\ [Next]_vars => IInv'
<1> SUFFICES ASSUME IInv, [Next]_vars PROVE IInv'
  OBVIOUS
<1>1. CASE Session
  <2>1. SessionInv' /\ writing \in Files /\ UNCHANGED <<file, at, events, unread, malformed>>
    BY <1>1, SessionKeeps DEF IInv
  <2>2. file = Null /\ events = <<>>
    BY <2>1, CodexAssumption DEF IInv, EventsInv, Files
  <2>3. EventsInv' /\ UnreadInv'
    BY <2>1, <2>2 DEF EventsInv, Distinct, IInv, UnreadInv
  <2> QED BY <2>1, <2>2, <2>3 DEF IInv
<1>2. CASE \E f \in Files : OpenFile(f)
  BY <1>2, OpenKeeps
<1>3. CASE ReadMalformed \/ ReadContext \/ ReadUser
  BY <1>3, LineKeeps
<1>4. CASE ReadUsage
  BY <1>4, UsageKeeps
<1>5. CASE (\E f \in Files : OpenFails(f)) \/ EndWithoutModel
  BY <1>5, PassedOver
<1>6. CASE EndFile
  BY <1>6, EndKeeps
<1>7. CASE UNCHANGED vars
  <2>1. /\ UNCHANGED <<lines, withTotals, withLast, writing, events, seenReplayKeys, file, at,
                       model, previous, afterUserInput, pending, fileReplayKeys, unread, malformed>>
        /\ writing \in Nat
    BY <1>7 DEF vars, history, fileState, result, IInv, SessionInv
  <2>2. SessionInv' /\ EventsInv' /\ UnreadInv'
    <3>1. file' # Null => writing > NumFiles
      BY <2>1 DEF IInv, EventsInv
    <3>2. UnreadInv'
      BY <2>1 DEF IInv, UnreadInv
    <3> QED BY <2>1, <3>1, <3>2, FilesStay, EventsStay DEF IInv
  <2>3. file # Null => PlaceInv'
    BY <2>1 DEF IInv, PlaceInv
  <2>4. file # Null => PendingInv'
    BY <2>1 DEF IInv, PendingInv
  <2> QED BY <2>1, <2>2, <2>3, <2>4 DEF IInv
<1> QED BY <1>1, <1>2, <1>3, <1>4, <1>5, <1>6, <1>7 DEF Next, Reader

-----------------------------------------------------------------------------
(***************************************************************************)
(* Nothing is lost in silence.  A first line of a visible call reports     *)
(* exactly what the call used, if the usage line before it was read; a     *)
(* line whose replay key is remembered is of a call that is accounted for; *)
(* and so is every line of a file that was read to its end.                *)
(***************************************************************************)
Exact(q, call) == \E e \in DOMAIN q : q[e].call.id = call.id /\ q[e].tokens = call.amount

\* The call has its exact event, or a reader could not notice, or it was told.
Accounted(call) ==
    (call.visible /\ Holding(call.id) \cap warned = {}
        /\ \A g \in Holding(call.id) : ~Garbled(g, call.id)) => Exact(events, call)

\* The end of the file will make the call accounted for.
Awaiting(call) ==
    preContextEvents > 0 \/ Accounted(call) \/ (call.visible => Exact(pending, call))

Settled ==
    /\ \A f \in Files : \A i \in UsageIn(lines[f]) :
            ReplayKey(lines[f][i]) \in seenReplayKeys => Accounted(lines[f][i].call)
    /\ \A f \in Files : (f \notin unread /\ f \notin skipped /\ f # file) =>
            \A i \in UsageIn(lines[f]) : Accounted(lines[f][i].call)

\* Codex writes first; a file that is to be read was not skipped.
FilesLeft ==
    /\ writing \in Files => unread = Files /\ seenReplayKeys = {}
    /\ unread \subseteq Files /\ unread \cap skipped = {} /\ file \notin unread

\* What the open file has remembered of the lines before this one.
FileKept ==
    /\ preContextEvents \in Nat
    /\ \A key \in fileReplayKeys :
          \E i \in UsageIn(lines[file]) : i < at /\ key = ReplayKey(lines[file][i])
    /\ \A i \in UsageIn(lines[file]) : i < at => Awaiting(lines[file][i].call)

LossInv == IInv /\ FilesLeft /\ Settled /\ (file # Null => FileKept)

\* The first line of a visible call reports what the call used, whether the
\* totals went on or started again, if the usage line before it was read.
LEMMA ReportedExactly ==
    ASSUME SessionInv, PlaceInv, Reading, Line.type = "usage",
           First(lines[file], at), Line.call.visible, ~Garbled(file, Line.call.id)
    PROVE  Tokens(Line) = Line.call.amount /\ Tokens(Line) # Null
<1> DEFINE s == lines[file]
           line == s[at]
           amount == line.call.amount
           totals == line.totals
<1>1. /\ s \in Seq(TextLine) /\ FileInv(s) /\ at \in 1..Len(s) /\ Line = line /\ Null \notin Counts
      /\ First(s, at) /\ line.call.visible
  BY CodexAssumption DEF SessionInv, FilesInv, PlaceInv, Reading, Line
<1>2. at \in UsageIn(s)
  BY <1>1 DEF UsageIn, Line
<1>3. /\ \A j \in UsageIn(s) : Before(s, at, j) => previous = s[j].totals
      /\ previous \in Counts \cup {Null} /\ (previous # Null => withTotals)
      /\ (\A j \in UsageIn(s) : ~(j < at)) => previous = Null
  <2>1. Recalls(previous, s, Parsed(s, file, malformed, at))
    BY DEF PlaceInv
  <2>2. UsageIn(s) \subseteq 1..Len(s) /\ Len(s) \in Nat
    BY <1>1 DEF UsageIn
  <2>3. ASSUME NEW j \in UsageIn(s), Before(s, at, j)
        PROVE  previous = s[j].totals
    <3>1. j < at /\ \A k \in UsageIn(s) : k < at => k <= j
      BY <2>3 DEF Before
    <3>2. <<file, j>> \notin malformed
      <4> SUFFICES ASSUME <<file, j>> \in malformed PROVE FALSE
        OBVIOUS
      <4>1. \A k \in UsageIn(s) : j <= k /\ k < at => k = j
        BY <2>2, <3>1
      <4>2. j \in Since(file, at)
        BY <1>1, <2>2, <3>1, <4>1 DEF Since
      <4> QED BY <1>1, <1>2, <4>2 DEF Garbled, First
    <3>3. j \in Parsed(s, file, malformed, at)
      BY <3>1, <3>2 DEF Parsed
    <3>4. PICK p \in Parsed(s, file, malformed, at) : previous = s[p].totals /\ j <= p
      BY <2>1, <3>3 DEF Recalls
    <3>5. p \in UsageIn(s) /\ p < at
      BY DEF Parsed
    <3>6. p = j
      BY <2>2, <3>1, <3>4, <3>5
    <3> QED BY <3>4, <3>6
  <2>4. ASSUME \A j \in UsageIn(s) : ~(j < at)
        PROVE  previous = Null
    BY <2>1, <2>4 DEF Recalls, Parsed
  <2> QED BY <2>3, <2>4 DEF PlaceInv
<1> HIDE DEF s
<1>4. LineInv(s, at)
  BY <1>1, <1>2 DEF FileInv
<1>5. /\ amount \in Counts /\ amount # Zero /\ amount # Null
      /\ totals \in Counts \cup {Null} /\ (totals # Null <=> withTotals)
      /\ line.last \in {Null, amount} /\ (totals = Null => line.last # Null)
  BY <1>1, <1>2, <1>4, UsageTypes DEF LineInv, Reports
<1>6. withTotals => \/ totals = amount /\ previous = Null
                    \/ previous \in Counts /\ totals = Plus(previous, amount)
                    \/ previous \in Counts /\ totals = amount /\ Restarted(previous, totals)
  <2> SUFFICES ASSUME withTotals
               PROVE \/ totals = amount /\ previous = Null
                     \/ previous \in Counts /\ totals = Plus(previous, amount)
                     \/ previous \in Counts /\ totals = amount /\ Restarted(previous, totals)
    OBVIOUS
  <2>1. Shows(s, at)
    BY <1>1, <1>4 DEF LineInv
  <2>2. CASE totals = amount /\ \A j \in UsageIn(s) : ~(j < at)
    BY <1>3, <2>2
  <2>3. CASE \E j \in UsageIn(s) : Before(s, at, j) /\ (Adds(s, at, j) \/ StartsAgain(s, at, j))
    <3>1. PICK j \in UsageIn(s) : Before(s, at, j) /\ (Adds(s, at, j) \/ StartsAgain(s, at, j))
      BY <2>3
    <3>2. previous = s[j].totals
      BY <1>3, <3>1
    <3>3. s[j].totals # Null
      BY <1>1 DEF FileInv, LineInv, Reports
    <3> QED BY <1>3, <3>1, <3>2, <3>3 DEF Adds, StartsAgain
  <2> QED BY <2>1, <2>2, <2>3 DEF Shows
<1> HIDE DEF line, amount, totals
<1>7. previous \in Counts /\ totals = Plus(previous, amount) =>
         totals # previous /\ Advanced(totals, previous) /\ Delta(totals, previous) = amount
  <2> SUFFICES ASSUME previous \in Counts, totals = Plus(previous, amount)
               PROVE  totals # previous /\ Advanced(totals, previous) /\ Delta(totals, previous) = amount
    OBVIOUS
  <2>1. Advanced(totals, previous) /\ Delta(totals, previous) = amount
    BY <1>5 DEF Advanced, Delta, Plus, Counts
  <2>2. totals # previous
    <3> SUFFICES ASSUME totals = previous PROVE amount = Zero
      BY <1>5
    <3>1. ASSUME NEW k \in Kinds PROVE amount[k] = 0
      <4>1. totals[k] = previous[k] + amount[k] /\ previous[k] \in Nat /\ amount[k] \in Nat
        BY <1>5 DEF Plus, Counts
      <4> QED BY <4>1
    <3> QED BY <1>5, <3>1 DEF Counts, Zero
  <2> QED BY <2>1, <2>2
<1>8. previous \in Counts /\ totals \in Counts /\ Restarted(previous, totals) =>
         totals # previous /\ ~Advanced(totals, previous)
  BY DEF Restarted, Advanced, Counts
<1>9. ~(totals # Null /\ totals = previous)
  BY <1>1, <1>5, <1>6, <1>7, <1>8
<1>10. withTotals => Derived(totals) = amount
  BY <1>1, <1>5, <1>6, <1>7, <1>8 DEF Derived
<1>11. (IF line.last # Null THEN line.last ELSE Derived(line.totals)) = amount
  BY <1>5, <1>10 DEF totals
<1>12. ~Stale(line)
  BY <1>9 DEF Stale, totals
<1> QED BY <1>1, <1>5, <1>11, <1>12 DEF Tokens, amount


\* What is accounted for stays so: events are kept, and what was told is.
LEMMA AccountedStays ==
    ASSUME UNCHANGED lines, warned \subseteq warned', malformed \subseteq malformed',
           \A e \in DOMAIN events : \E d \in DOMAIN events' : events'[d] = events[e],
           NEW call, Accounted(call)
    PROVE  Accounted(call)'
<1>1. Exact(events, call) => Exact(events', call)
  BY DEF Exact
<1>2. Holding(call.id)' = Holding(call.id)
  BY DEF Holding, UsageIn
<1>3. \A g, id : Garbled(g, id) => Garbled(g, id)'
  BY DEF Garbled, Since, UsageIn
<1> QED BY <1>1, <1>2, <1>3 DEF Accounted, Exact

LEMMA SettledStays ==
    ASSUME Settled, UNCHANGED <<lines, seenReplayKeys>>, warned \subseteq warned',
           malformed \subseteq malformed',
           \A e \in DOMAIN events : \E d \in DOMAIN events' : events'[d] = events[e],
           \A f \in Files : (f \notin unread' /\ f \notin skipped' /\ f # file') =>
                               (f \notin unread /\ f \notin skipped /\ f # file)
    PROVE  Settled'
<1>1. \A f \in Files : \A i \in UsageIn(lines[f]) :
         ReplayKey(lines[f][i]) \in seenReplayKeys => Accounted(lines[f][i].call)'
  BY AccountedStays DEF Settled
<1>2. \A f \in Files : (f \notin unread' /\ f \notin skipped' /\ f # file') =>
         \A i \in UsageIn(lines[f]) : Accounted(lines[f][i].call)'
  BY AccountedStays DEF Settled
<1>3. \A f \in Files : UsageIn(lines'[f]) = UsageIn(lines[f])
  OBVIOUS
<1> QED BY <1>1, <1>2, <1>3 DEF Settled, UsageIn, ReplayKey, Snapshot

\* What awaits the end of the file goes on to.
LEMMA AwaitingStays ==
    ASSUME UNCHANGED <<lines, events>>, warned \subseteq warned', malformed \subseteq malformed',
           preContextEvents > 0 => preContextEvents' > 0,
           \A e \in DOMAIN pending : \E d \in DOMAIN pending' : pending'[d] = pending[e],
           NEW call, Awaiting(call)
    PROVE  Awaiting(call)'
<1>1. Accounted(call) => Accounted(call)'
  BY AccountedStays
<1>2. Exact(pending, call) => Exact(pending', call)
  BY DEF Exact
<1> QED BY <1>1, <1>2 DEF Awaiting, Exact

\* What is remembered at the next line.
LEMMA Kept ==
    ASSUME FileKept, PlaceInv, lines \in [Files -> Seq(TextLine)], Reading,
           UNCHANGED <<lines, file>>, at' = at + 1, preContextEvents' \in Nat,
           \/ fileReplayKeys' = fileReplayKeys
           \/ at \in UsageIn(lines[file]) /\ fileReplayKeys' = fileReplayKeys \cup {ReplayKey(lines[file][at])},
           \A call : Awaiting(call) => Awaiting(call)',
           at \in UsageIn(lines[file]) => \A call : call = lines[file][at].call => Awaiting(call)'
    PROVE  FileKept'
<1> DEFINE s == lines[file]
<1>1. s \in Seq(TextLine) /\ at \in 1..Len(s) /\ UsageIn(s) \subseteq 1..Len(s) /\ Len(s) \in Nat
  BY DEF PlaceInv, Reading, UsageIn
<1>2. /\ \A key \in fileReplayKeys : \E i \in UsageIn(s) : i < at /\ key = ReplayKey(s[i])
      /\ \A i \in UsageIn(s) : i < at => Awaiting(s[i].call)
  BY DEF FileKept
<1>3. lines'[file'] = s /\ (UsageIn(lines[file]))' = UsageIn(s) /\ at' = at + 1
  BY DEF UsageIn
<1> HIDE DEF s
<1>4. \A i \in UsageIn(s) : i < at + 1 <=> i < at \/ i = at
  BY <1>1
<1>5. \A key \in fileReplayKeys' : \E i \in UsageIn(s) : i < at + 1 /\ key = ReplayKey(s[i])
  BY <1>2, <1>4 DEF s
<1>6. ASSUME NEW i \in UsageIn(s), i < at + 1
      PROVE  Awaiting(lines[file][i].call)'
  <2>1. PICK call : call = s[i].call
    OBVIOUS
  <2>2. Awaiting(call)'
    <3>1. CASE i < at
      BY <1>2, <2>1, <3>1
    <3>2. CASE i = at
      BY <1>6, <2>1, <3>2 DEF s
    <3> QED BY <1>4, <1>6, <3>1, <3>2
  <2> QED BY <2>1, <2>2 DEF s
<1>7. \A i \in UsageIn(lines'[file']) : i < at' => Awaiting(lines[file][i].call)'
  BY <1>3, <1>6 DEF UsageIn
<1>8. \A key \in fileReplayKeys' :
         \E i \in UsageIn(lines'[file']) : i < at' /\ key = ReplayKey(lines'[file'][i])
  BY <1>3, <1>5 DEF UsageIn
<1> QED BY <1>7, <1>8 DEF FileKept, UsageIn, ReplayKey, Snapshot

\* Past a line that reports no usage, or is malformed, the same is remembered:
\* a malformed line is the first of its call, which the report excuses, or
\* repeats a line of a call that waits for the end of the file.
LEMMA KeptPasses ==
    ASSUME SessionInv, FileKept, PlaceInv,
           UNCHANGED <<lines, file, fileReplayKeys, pending, preContextEvents, events, warned>>,
           at' = at + 1, Reading, malformed \subseteq malformed',
           Line.type # "usage" \/ <<file, at>> \in malformed'
    PROVE  FileKept'
<1> DEFINE s == lines[file]
<1>1. /\ lines \in [Files -> Seq(TextLine)] /\ s \in Seq(TextLine) /\ FileInv(s)
      /\ at \in 1..Len(s) /\ Line = s[at] /\ file \in Files
  BY DEF SessionInv, FilesInv, PlaceInv, Reading, Line
<1>2. \A call : Awaiting(call) => Awaiting(call)'
  BY AwaitingStays
<1>3. ASSUME at \in UsageIn(s), NEW call, call = s[at].call
      PROVE  Awaiting(call)'
  <2>1. <<file, at>> \in malformed'
    BY <1>1, <1>3 DEF UsageIn
  <2>2. CASE First(s, at)
    <3>1. PICK f \in Files, p \in 1..Len(s) : f = file /\ p = at
      BY <1>1
    <3>2. Garbled(file, call.id)'
      <4>1. p \in UsageIn(lines'[f]) /\ lines'[f][p].time = call.id /\ <<f, p>> \in malformed'
        BY <1>3, <2>1, <2>2, <3>1 DEF First
      <4>2. p \in Since(f, p)'
        BY <1>1, <4>1 DEF Since, UsageIn
      <4>3. Garbled(f, call.id)'
        BY <4>1, <4>2 DEF Garbled, UsageIn
      <4> QED BY <3>1, <4>3
    <3>3. file \in Holding(call.id)'
      BY <1>1, <1>3 DEF Holding, UsageIn
    <3> QED BY <3>2, <3>3 DEF Awaiting, Accounted
  <2>3. CASE ~First(s, at)
    <3>1. PICK j \in UsageIn(s) : Before(s, at, j) /\ s[j].call = call
      BY <1>1, <1>3, <2>3 DEF FileInv, LineInv, Repeated, Repeats
    <3>2. Awaiting(call)
      BY <3>1 DEF FileKept, Before
    <3> QED BY <1>2, <3>2
  <2> QED BY <2>2, <2>3
<1>4. preContextEvents' \in Nat
  BY DEF FileKept
<1> QED BY <1>1, <1>2, <1>3, <1>4, Kept

\* A usage line is a replay, repeats a line of a call that waits for the end of
\* the file, or becomes the exact event of its call.
LEMMA LineAwaits ==
    ASSUME IInv, Settled, FileKept, ReadUsage, NEW call, call = Line.call
    PROVE  Awaiting(call)'
<1> DEFINE s == lines[file]
<1>1. /\ SessionInv /\ PlaceInv /\ PendingInv /\ file # Null /\ file \in Files /\ Reading
      /\ Line.type = "usage" /\ Line = s[at] /\ preContextEvents \in Nat
      /\ UNCHANGED <<lines, file, events, warned, malformed>> /\ at' = at + 1
      /\ \/ preContextEvents' = preContextEvents
         \/ preContextEvents' = preContextEvents + 1
      /\ pending \in Seq(EventRecord)
  BY DEF IInv, PlaceInv, PendingInv, ReadUsage, Reading, Line, FileKept, history, result
<1>2. s \in Seq(TextLine) /\ FileInv(s) /\ at \in 1..Len(s) /\ at \in UsageIn(s)
  BY <1>1 DEF SessionInv, FilesInv, PlaceInv, Reading, UsageIn
<1>3. Accounted(call) => Awaiting(call)'
  BY <1>1, AccountedStays DEF Awaiting
<1>4. CASE IsReplay(Line)
  <2>1. Accounted(Line.call)
    BY <1>1, <1>2, <1>4 DEF IsReplay, Settled
  <2> QED BY <1>3, <2>1
<1>5. CASE ~First(s, at)
  <2>1. PICK j \in UsageIn(s) : Before(s, at, j) /\ s[j].call = call
    BY <1>1, <1>2, <1>5 DEF FileInv, LineInv, Repeated, Repeats
  <2>2. Awaiting(call)
    BY <1>1, <2>1 DEF FileKept, Before
  <2>3. \A e \in DOMAIN pending : \E d \in DOMAIN pending' : pending'[d] = pending[e]
    <3>1. \/ pending' = pending
          \/ pending' = Append(pending, Event(Line))
      BY DEF ReadUsage
    <3>2. \A e \in DOMAIN pending : e \in DOMAIN Append(pending, Event(Line))
                                    /\ Append(pending, Event(Line))[e] = pending[e]
      <4> HIDE DEF s
      <4> QED BY <1>1
    <3> QED BY <3>1, <3>2
  <2>4. preContextEvents > 0 => preContextEvents' > 0
    BY <1>1
  <2> QED BY <1>1, <2>2, <2>3, <2>4, AwaitingStays
<1>8. CASE Garbled(file, call.id)
  <2>1. file \in Holding(call.id)
    BY <1>1, <1>2 DEF Holding
  <2>2. Accounted(call)
    BY <1>8, <2>1 DEF Accounted
  <2> QED BY <1>3, <2>2
<1>6. CASE ~IsReplay(Line) /\ First(s, at) /\ call.visible /\ ~Garbled(file, call.id)
  <2>1. Tokens(Line) = call.amount /\ Tokens(Line) # Null
    BY <1>1, <1>6, ReportedExactly
  <2>2. CASE model = Null
    <3>1. preContextEvents' = preContextEvents + 1
      BY <1>6, <2>1, <2>2 DEF ReadUsage
    <3> QED BY <1>1, <3>1 DEF Awaiting
  <2>3. CASE model # Null
    <3> DEFINE e == Event(Line)
    <3>1. pending' = Append(pending, e)
      BY <1>6, <2>1, <2>3 DEF ReadUsage
    <3>2. e.call = call /\ e.tokens = call.amount
      BY <2>1 DEF Event
    <3> HIDE DEF e
    <3>3. Len(pending) + 1 \in DOMAIN pending' /\ pending'[Len(pending) + 1] = e
      <4> HIDE DEF s
      <4> QED BY <1>1, <3>1
    <3>4. Exact(pending', call)
      BY <3>2, <3>3 DEF Exact
    <3> QED BY <3>4 DEF Awaiting, Exact
  <2> QED BY <2>2, <2>3
<1>7. CASE ~call.visible
  BY <1>7 DEF Awaiting
<1> QED BY <1>4, <1>5, <1>6, <1>7, <1>8

\* Its key is remembered with it.
LEMMA UsageKept ==
    ASSUME IInv, Settled, FileKept, ReadUsage
    PROVE  FileKept'
<1>1. /\ SessionInv /\ PlaceInv /\ Reading /\ Line = lines[file][at]
      /\ UNCHANGED <<lines, file, events, warned, malformed>> /\ at' = at + 1
      /\ fileReplayKeys' = fileReplayKeys \cup {ReplayKey(lines[file][at])}
      /\ preContextEvents' \in Nat /\ (preContextEvents > 0 => preContextEvents' > 0)
      /\ pending \in Seq(EventRecord)
  BY DEF IInv, PlaceInv, PendingInv, ReadUsage, Reading, Line, FileKept, history, result
<1>2. lines \in [Files -> Seq(TextLine)] /\ at \in UsageIn(lines[file])
  BY <1>1 DEF SessionInv, PlaceInv, Reading, UsageIn, ReadUsage
<1>3. \A e \in DOMAIN pending : \E d \in DOMAIN pending' : pending'[d] = pending[e]
  <2>1. \/ pending' = pending
        \/ pending' = Append(pending, Event(Line))
    BY DEF ReadUsage
  <2>2. \A e \in DOMAIN pending : e \in DOMAIN Append(pending, Event(Line))
                                  /\ Append(pending, Event(Line))[e] = pending[e]
    BY <1>1
  <2> QED BY <2>1, <2>2
<1>4. \A call : Awaiting(call) => Awaiting(call)'
  BY <1>1, <1>3, AwaitingStays
<1>5. \A call : call = lines[file][at].call => Awaiting(call)'
  BY <1>1, LineAwaits
<1> QED BY <1>1, <1>2, <1>4, <1>5, Kept

\* At the end of a file its pending events are events, and a file that lost
\* some is warned of, so that what waited for the end is accounted for.
LEMMA EndSettles ==
    ASSUME IInv, Settled, FileKept, EndFile
    PROVE  Settled'
<1> DEFINE s == lines[file]
<1>1. /\ SessionInv /\ FilesInv /\ PlaceInv /\ PendingInv /\ file \in Files
      /\ events' = events \o pending /\ file' = Null /\ at > Len(s)
      /\ UNCHANGED <<lines, unread, skipped, malformed>>
      /\ warned \subseteq warned' /\ (preContextEvents > 0 => file \in warned')
      /\ seenReplayKeys' \in {seenReplayKeys, seenReplayKeys \cup fileReplayKeys}
      /\ events \in Seq(EventRecord) /\ pending \in Seq(EventRecord)
      /\ s \in Seq(TextLine) /\ at \in Nat
  BY DEF IInv, EndFile, Finished, history, SessionInv, FilesInv, PlaceInv, PendingInv, EventsInv
<1>2. /\ \A e \in DOMAIN events : \E d \in DOMAIN events' : events'[d] = events[e]
      /\ \A e \in DOMAIN pending : \E d \in DOMAIN events' : events'[d] = pending[e]
  <2> HIDE DEF s
  <2>1. ASSUME NEW p \in Seq(EventRecord), NEW q \in Seq(EventRecord)
        PROVE  /\ \A e \in DOMAIN p : e \in DOMAIN (p \o q) /\ (p \o q)[e] = p[e]
               /\ \A e \in DOMAIN q : Len(p) + e \in DOMAIN (p \o q) /\ (p \o q)[Len(p) + e] = q[e]
    OBVIOUS
  <2> QED BY <1>1, <2>1
<1>3. \A call : Accounted(call) => Accounted(call)'
  BY <1>1, <1>2, AccountedStays
<1>4. ASSUME NEW i \in UsageIn(s), i < at, NEW call, call = s[i].call
      PROVE  Accounted(call)'
  <2>1. Awaiting(call)
    BY <1>4 DEF FileKept
  <2>2. CASE preContextEvents > 0
    <3>1. file \in Holding(call.id)' \cap warned'
      BY <1>1, <1>4, <2>2 DEF Holding, UsageIn
    <3> QED BY <3>1 DEF Accounted
  <2>3. CASE Accounted(call)
    BY <1>3, <2>3
  <2>4. CASE call.visible => Exact(pending, call)
    <3>1. call.visible => Exact(events', call)
      BY <1>2, <2>4 DEF Exact
    <3> QED BY <3>1 DEF Accounted, Exact
  <2> QED BY <2>1, <2>2, <2>3, <2>4 DEF Awaiting
<1>5. ASSUME NEW f \in Files, NEW i \in UsageIn(lines[f]), NEW call, call = lines[f][i].call,
             ReplayKey(lines[f][i]) \in seenReplayKeys'
      PROVE  Accounted(call)'
  <2>1. CASE ReplayKey(lines[f][i]) \in seenReplayKeys
    BY <1>3, <1>5, <2>1 DEF Settled
  <2>2. CASE ReplayKey(lines[f][i]) \in fileReplayKeys
    <3>1. PICK j \in UsageIn(s) : j < at /\ ReplayKey(lines[f][i]) = ReplayKey(s[j])
      BY <2>2 DEF FileKept
    <3>2. lines[f][i].time = s[j].time
      BY <3>1 DEF ReplayKey
    <3>3. s[j].call = call
      BY <1>1, <1>5, <3>2 DEF FilesInv, Copied
    <3> QED BY <1>4, <3>1, <3>3
  <2> QED BY <1>1, <1>5, <2>1, <2>2
<1>6. ASSUME NEW f \in Files, f \notin unread, f \notin skipped,
             NEW i \in UsageIn(lines[f]), NEW call, call = lines[f][i].call
      PROVE  Accounted(call)'
  <2>1. CASE f = file
    <3>1. i < at
      <4>1. i \in 1..Len(s)
        BY <1>1, <1>6, <2>1 DEF UsageIn
      <4> HIDE DEF s
      <4> QED BY <1>1, <4>1
    <3> QED BY <1>4, <1>6, <2>1, <3>1
  <2>2. CASE f # file
    BY <1>3, <1>6, <2>2 DEF Settled
  <2> QED BY <2>1, <2>2
<1>7. ASSUME NEW f \in Files, NEW i \in UsageIn(lines[f]), NEW call, call = lines[f][i].call
      PROVE  Accounted(lines[f][i].call)' <=> Accounted(call)'
  BY <1>1, <1>7 DEF Accounted, Exact, Holding, Garbled, Since
<1>8. \A f \in Files : \A i \in UsageIn(lines[f]) :
         ReplayKey(lines[f][i]) \in seenReplayKeys' => Accounted(lines[f][i].call)'
  BY <1>5, <1>7
<1>9. \A f \in Files : (f \notin unread /\ f \notin skipped) =>
         \A i \in UsageIn(lines[f]) : Accounted(lines[f][i].call)'
  BY <1>6, <1>7
<1> HIDE DEF s
<1>10. UNCHANGED <<lines, unread, skipped>> /\ file' = Null
  BY <1>1
<1> QED BY <1>8, <1>9, <1>10 DEF Settled, UsageIn, ReplayKey, Snapshot

LEMMA LossInit == Init => LossInv
<1> SUFFICES ASSUME Init PROVE LossInv
  OBVIOUS
<1>1. IInv
  BY InvInit
<1>2. FilesLeft
  BY CodexAssumption DEF Init, FilesLeft
<1>3. Settled
  BY DEF Init, Settled
<1> QED BY <1>1, <1>2, <1>3 DEF Init, LossInv

LEMMA LossNext == LossInv /\ [Next]_vars => LossInv'
<1> SUFFICES ASSUME LossInv, [Next]_vars PROVE LossInv'
  OBVIOUS
<1>1. IInv' /\ IInv /\ FilesLeft /\ Settled /\ (file # Null => FileKept)
  BY InvNext DEF LossInv
<1>2. /\ lines \in [Files -> Seq(TextLine)] /\ SessionInv
      /\ file # Null => PlaceInv /\ file \in Files /\ writing > NumFiles /\ writing \in Nat
  BY <1>1 DEF IInv, SessionInv, PlaceInv, EventsInv
<1>3. CASE Session
  <2>1. writing \in Files /\ UNCHANGED <<file, unread, seenReplayKeys, skipped>>
    BY <1>2, <1>3, SessionKeeps
  <2>2. unread = Files /\ seenReplayKeys = {}
    BY <1>1, <2>1 DEF FilesLeft
  <2>3. file = Null
    BY <1>2, <2>1, CodexAssumption DEF Files
  <2>4. FilesLeft'
    BY <1>1, <2>1, <2>2 DEF FilesLeft
  <2>5. Settled'
    BY <2>1, <2>2 DEF Settled
  <2> QED BY <1>1, <2>1, <2>3, <2>4, <2>5 DEF LossInv
<1>4. ASSUME NEW f \in Files, OpenFile(f)
      PROVE  LossInv'
  <2>1. /\ writing' > NumFiles /\ f \in unread /\ unread' = unread \ {f} /\ file' = f
        /\ at' = 1 /\ previous' = Null /\ preContextEvents' = 0 /\ fileReplayKeys' = {}
        /\ UNCHANGED <<lines, writing, seenReplayKeys, events, skipped, warned, malformed>>
        /\ file = Null
    BY <1>4 DEF OpenFile, history, result
  <2>2. Settled'
    BY <1>1, <2>1, CodexAssumption, SettledStays
  <2>3. FilesLeft'
    <3>1. writing' \notin Files
      BY <1>2, <2>1, CodexAssumption DEF Files, SessionInv
    <3> QED BY <1>1, <2>1, <3>1 DEF FilesLeft
  <2>4. FileKept'
    <3>1. \A i \in UsageIn(lines[f]) : ~(i < 1)
      BY <1>2 DEF UsageIn
    <3> QED BY <2>1, <3>1 DEF FileKept, UsageIn
  <2> QED BY <1>1, <2>2, <2>3, <2>4 DEF LossInv
<1>5. ASSUME NEW f \in Files, OpenFails(f)
      PROVE  LossInv'
  <2>1. /\ writing' > NumFiles /\ f \in unread /\ unread' = unread \ {f} /\ file' = Null
        /\ skipped' = skipped \cup {f} /\ file = Null
        /\ UNCHANGED <<lines, writing, seenReplayKeys, events, warned, malformed>>
    BY <1>5 DEF OpenFails, history
  <2>2. Settled'
    BY <1>1, <2>1, CodexAssumption, SettledStays
  <2>3. FilesLeft'
    <3>1. writing' \notin Files
      BY <1>2, <2>1, CodexAssumption DEF Files, SessionInv
    <3>2. Null \notin unread'
      BY <1>1, <2>1, CodexAssumption DEF FilesLeft
    <3> QED BY <1>1, <2>1, <3>1, <3>2 DEF FilesLeft
  <2> QED BY <1>1, <2>1, <2>2, <2>3 DEF LossInv
<1>6. CASE ReadMalformed \/ ReadContext \/ ReadUser
  <2>1. /\ file # Null /\ Reading /\ at' = at + 1
        /\ UNCHANGED <<lines, writing, unread, file, seenReplayKeys, events, warned,
                       skipped, fileReplayKeys, pending, preContextEvents>>
        /\ malformed \subseteq malformed'
        /\ Line.type # "usage" \/ <<file, at>> \in malformed'
    BY <1>6 DEF ReadMalformed, ReadContext, ReadUser, Reading, history, fileState, result
  <2>2. Settled'
    BY <1>1, <2>1, SettledStays
  <2>3. FilesLeft'
    BY <1>1, <1>2, <2>1 DEF FilesLeft, Files
  <2>4. FileKept'
    BY <1>1, <1>2, <2>1, KeptPasses
  <2> QED BY <1>1, <2>2, <2>3, <2>4 DEF LossInv
<1>7. CASE ReadUsage
  <2>1. /\ file # Null
        /\ UNCHANGED <<lines, writing, unread, file, seenReplayKeys, events, warned, skipped,
                       malformed>>
    BY <1>7 DEF ReadUsage, Reading, history, result
  <2>2. Settled'
    BY <1>1, <2>1, SettledStays
  <2>3. FilesLeft'
    BY <1>1, <2>1 DEF FilesLeft
  <2>4. FileKept'
    BY <1>1, <1>7, <2>1, UsageKept
  <2> QED BY <1>1, <2>2, <2>3, <2>4 DEF LossInv
<1>8. CASE EndWithoutModel
  <2>1. /\ file # Null /\ file' = Null /\ skipped' = skipped \cup {file}
        /\ UNCHANGED <<lines, writing, unread, seenReplayKeys, events, warned, malformed>>
    BY <1>8 DEF EndWithoutModel, Finished, history
  <2>2. Settled'
    BY <1>1, <2>1, SettledStays
  <2>3. FilesLeft'
    BY <1>1, <1>2, <2>1, CodexAssumption DEF FilesLeft, Files
  <2> QED BY <1>1, <2>1, <2>2, <2>3 DEF LossInv
<1>9. CASE EndFile
  <2>1. file # Null /\ file' = Null /\ UNCHANGED <<writing, unread, skipped>>
    BY <1>9 DEF EndFile, Finished, history
  <2>2. Settled'
    BY <1>1, <1>9, <2>1, EndSettles
  <2>3. FilesLeft'
    BY <1>1, <1>2, <2>1, CodexAssumption DEF FilesLeft, Files
  <2> QED BY <1>1, <2>1, <2>2, <2>3 DEF LossInv
<1>10. CASE UNCHANGED vars
  <2>1. UNCHANGED <<lines, withTotals, withLast, writing, events, seenReplayKeys, file, at, unread,
                    model, previous, preContextEvents, pending, fileReplayKeys, skipped, warned,
                    malformed>>
    BY <1>10 DEF vars, history, fileState, result
  <2>2. Settled' /\ FilesLeft'
    BY <1>1, <2>1, SettledStays DEF FilesLeft
  <2>3. file # Null => FileKept'
    BY <1>1, <2>1 DEF FileKept, Awaiting, Accounted, Exact, Holding, Garbled, Since, UsageIn,
                      ReplayKey, Snapshot
  <2> QED BY <1>1, <2>1, <2>2, <2>3 DEF LossInv
<1> QED BY <1>3, <1>4, <1>5, <1>6, <1>7, <1>8, <1>9, <1>10 DEF Next, Reader

-----------------------------------------------------------------------------
\* However often the session was forked, resumed or archived, in whatever order
\* its files are read and whichever lines of theirs are malformed, no call
\* becomes two events, unless one of them is of repeated totals.
THEOREM NoCallCountedTwice == Spec => []CallsCountedOnce
<1>1. IInv => CallsCountedOnce
  BY DEF IInv, EventsInv, Distinct, Repeating, CallsCountedOnce, OfRepeat
<1> QED BY <1>1, InvInit, InvNext, PTL DEF Spec

\* No event charges more of any counter than the session used since any usage
\* line that was read before it, whichever of totals and last usage this Codex
\* reports and whichever lines are malformed.
THEOREM NothingOvercounted == Spec => []NeverOvercounted
<1>1. IInv => NeverOvercounted
  <2> SUFFICES ASSUME IInv, NEW i \in DOMAIN events, NEW k \in Kinds
               PROVE  /\ events[i].tokens[k] <= events[i].call.spent[k]
                      /\ \A j \in ReadBefore(events[i].place[1], events[i].place[2]) :
                            events[i].tokens[k] <= events[i].call.spent[k]
                                - lines[events[i].place[1]][j].call.spent[k]
    BY DEF NeverOvercounted
  <2>0. PICK f \in Files : \E n \in UsageIn(lines[f]) :
           Of(events[i], f, lines[f], n) /\ Good(events[i], lines[f], malformed)
    BY DEF IInv, EventsInv
  <2>1. PICK n \in UsageIn(lines[f]) :
           Of(events[i], f, lines[f], n) /\ Good(events[i], lines[f], malformed)
    BY <2>0
  <2>2. events[i].place[1] = f /\ events[i].place[2] = n
    BY <2>1 DEF Of
  <2>3. ReadBefore(f, n) = Parsed(lines[f], f, malformed, n)
    BY DEF ReadBefore, Parsed
  <2> QED BY <2>1, <2>2, <2>3 DEF Good, Charged
<1> QED BY <1>1, InvInit, InvNext, PTL DEF Spec

\* An event is a turn only if its call answered a user input when it was made,
\* or one did whose line just before is malformed, or it is of repeated totals.
THEOREM TurnsAreAlwaysReal == Spec => []TurnsAreReal
<1>1. IInv => TurnsAreReal
  <2> SUFFICES ASSUME IInv, NEW i \in DOMAIN events, events[i].turn
               PROVE  \/ OfRepeat(events[i])
                      \/ \E j \in Since(events[i].place[1], events[i].place[2]) :
                            lines[events[i].place[1]][j].call.answers
    BY DEF TurnsAreReal
  <2>0. PICK f \in Files : \E n \in UsageIn(lines[f]) :
           Of(events[i], f, lines[f], n) /\ Good(events[i], lines[f], malformed)
    BY DEF IInv, EventsInv
  <2>1. PICK n \in UsageIn(lines[f]) :
           Of(events[i], f, lines[f], n) /\ Good(events[i], lines[f], malformed)
    BY <2>0
  <2>2. events[i].place[1] = f /\ events[i].place[2] = n /\ events[i].call = lines[f][n].call
    BY <2>1 DEF Of
  <2>3. CASE ~First(lines[f], n)
    BY <2>2, <2>3 DEF OfRepeat, First
  <2>4. CASE \E j \in UsageIn(lines[f]) :
               /\ j <= n /\ lines[f][j].call.answers
               /\ \A k \in UsageIn(lines[f]) : j <= k /\ k < n => <<f, k>> \in malformed
    BY <2>2, <2>4 DEF Since
  <2> QED BY <2>1, <2>2, <2>3, <2>4 DEF Good, Turned
<1> QED BY <1>1, InvInit, InvNext, PTL DEF Spec

\* Once all is read, a call in a file that was not skipped has its exact event,
\* unless a file that holds it was warned of or has its line, or the usage line
\* before it, malformed, or no reader could have noticed.
THEOREM NothingSilentlyLost == Spec => []NoSilentLoss
<1>1. LossInv => NoSilentLoss
  BY CodexAssumption DEF LossInv, Settled, Accounted, Exact, NoSilentLoss
<1> QED BY <1>1, LossInit, LossNext, PTL DEF Spec

=============================================================================
