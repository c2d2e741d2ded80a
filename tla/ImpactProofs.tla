---------------------------- MODULE ImpactProofs ----------------------------
(***************************************************************************)
(* Proofs about UnifiedDiff and Impact, from the patch to the answer, for  *)
(* every patch, graph, layout and set of rules.                            *)
(***************************************************************************)
EXTENDS Impact, ListProofs

-----------------------------------------------------------------------------
(* Ranges of lines.                                                        *)

LineRange == [start : Int, count : Nat]

\* The lines of a list of ranges whose last one is made longer.
LEMMA LongerCovers ==
    ASSUME NEW rs \in Seq(LineRange), rs # <<>>
    PROVE  LET m == Len(rs)
               longer == [rs EXCEPT ![m].count = @ + 1]
           IN /\ longer \in Seq(LineRange) /\ longer # <<>> /\ Len(longer) = m
              /\ longer[m] = [start |-> rs[m].start, count |-> rs[m].count + 1]
              /\ Covered(longer) = Covered(rs) \cup {rs[m].start + rs[m].count}
<1> DEFINE m == Len(rs)
           longer == [rs EXCEPT ![m].count = @ + 1]
           last == [start |-> rs[m].start, count |-> rs[m].count + 1]
<1>1. m \in Nat \ {0} /\ m \in 1 .. m /\ DOMAIN rs = 1 .. m /\ rs[m] \in LineRange
  OBVIOUS
<1>2. [rs[m] EXCEPT !.count = @ + 1] = last /\ last \in LineRange
  <2> DEFINE r == rs[m]
  <2>1. r \in LineRange
    BY <1>1
  <2> HIDE DEF r
  <2>2. r.start \in Int /\ r.count \in Nat /\ r = [start |-> r.start, count |-> r.count]
    BY <2>1 DEF LineRange
  <2>3. [r EXCEPT !.count = @ + 1] = [start |-> r.start, count |-> r.count + 1]
    BY <2>2
  <2>4. [start |-> r.start, count |-> r.count + 1] \in LineRange
    BY <2>2 DEF LineRange
  <2> QED
    BY <2>3, <2>4 DEF r
<1>3. longer = [rs EXCEPT ![m] = last]
  BY <1>2
<1> HIDE DEF last
<1>4. longer \in Seq(LineRange) /\ Len(longer) = m /\ longer[m] = last
      /\ \A i \in 1 .. m : i # m => longer[i] = rs[i]
  BY <1>1, <1>2, <1>3
<1>5. last.start .. last.start + last.count - 1
        = (rs[m].start .. rs[m].start + rs[m].count - 1) \cup {rs[m].start + rs[m].count}
  <2>1. rs[m].start \in Int /\ rs[m].count \in Nat
    BY <1>1 DEF LineRange
  <2>2. last.start = rs[m].start /\ last.count = rs[m].count + 1
    BY DEF last
  <2> DEFINE a == rs[m].start
             c == rs[m].count
  <2> HIDE DEF m, a, c
  <2>3. a \in Int /\ c \in Nat
    BY <2>1 DEF a, c
  <2>4. a .. a + (c + 1) - 1 = (a .. a + c - 1) \cup {a + c}
    BY <2>3
  <2> QED
    BY <2>2, <2>4 DEF a, c
<1> HIDE DEF longer, m
<1>6. Covered(longer) = Covered(rs) \cup {rs[m].start + rs[m].count}
  <2>1. ToSet(longer) = {longer[i] : i \in 1 .. m} /\ ToSet(rs) = {rs[i] : i \in 1 .. m}
    <3>1. DOMAIN longer = 1 .. m /\ DOMAIN rs = 1 .. m
      BY <1>1, <1>4
    <3> QED
      BY <3>1 DEF ToSet
  <2>2. ASSUME NEW x
        PROVE  x \in Covered(longer) <=> x \in Covered(rs) \cup {rs[m].start + rs[m].count}
    <3>1. x \in Covered(longer)
            <=> \E i \in 1 .. m : x \in longer[i].start .. longer[i].start + longer[i].count - 1
      BY <2>1 DEF Covered
    <3>2. x \in Covered(rs) <=> \E i \in 1 .. m : x \in rs[i].start .. rs[i].start + rs[i].count - 1
      BY <2>1 DEF Covered
    <3>3. x \in last.start .. last.start + last.count - 1
            <=> x \in (rs[m].start .. rs[m].start + rs[m].count - 1) \cup {rs[m].start + rs[m].count}
      BY <1>5
    <3> QED
      BY <1>1, <1>4, <3>1, <3>2, <3>3
  <2> QED
    BY <2>2
<1> QED
  BY <1>1, <1>4, <1>6 DEF longer, m, last

\* The lines of a list of ranges and one more line.
LEMMA AppendCovers ==
    ASSUME NEW rs \in Seq(LineRange), NEW n \in Int
    PROVE  LET more == Append(rs, [start |-> n, count |-> 1])
           IN /\ more \in Seq(LineRange) /\ more # <<>>
              /\ more[Len(more)] = [start |-> n, count |-> 1]
              /\ Covered(more) = Covered(rs) \cup {n}
<1> DEFINE r == [start |-> n, count |-> 1]
           more == Append(rs, r)
           m == Len(rs)
<1>1. r \in LineRange /\ r.start .. r.start + r.count - 1 = {n}
  BY DEF LineRange
<1> HIDE DEF r
<1>2. more \in Seq(LineRange) /\ Len(more) = m + 1 /\ m \in Nat /\ more[m + 1] = r
      /\ \A i \in 1 .. m : more[i] = rs[i]
  BY <1>1
<1> HIDE DEF more
<1>3. ToSet(more) = ToSet(rs) \cup {r}
  <2>1. DOMAIN more = 1 .. m + 1 /\ DOMAIN rs = 1 .. m
    BY <1>2
  <2> QED
    BY <1>2, <2>1 DEF ToSet
<1>4. Covered(more) = Covered(rs) \cup {n}
  BY <1>1, <1>3 DEF Covered
<1>5. more # <<>>
  BY <1>2
<1> QED
  BY <1>2, <1>4, <1>5 DEF more, r

\* The ranges of a list of lines cover just these lines.
LEMMA RangesCover ==
    ASSUME NEW lines \in Seq(Int)
    PROVE  Ranges(lines) \in Seq(LineRange) /\ Covered(Ranges(lines)) = ToSet(lines)
<1> DEFINE n == Len(lines)
           St == Seq(LineRange)
           Next1(i, s) == IF i > 1 /\ lines[i] = lines[i - 1] + 1
                          THEN [s EXCEPT ![Len(s)].count = @ + 1]
                          ELSE Append(s, [start |-> lines[i], count |-> 1])
           move == [p \in (1 .. n) \X St |-> Next1(p[1], p[2])]
           Unfold(f) == [i \in 0 .. n |-> IF i = 0 THEN <<>> ELSE Next1(i, f[i - 1])]
<1>1. n \in Nat /\ DOMAIN lines = 1 .. n /\ \A i \in 1 .. n : lines[i] \in Int
  OBVIOUS
<1>2. ASSUME NEW i \in 1 .. n, NEW s \in St PROVE Next1(i, s) \in St
  <2>1. CASE i > 1 /\ lines[i] = lines[i - 1] + 1 /\ s # <<>>
    <3>1. [s EXCEPT ![Len(s)].count = @ + 1] \in St
      BY <2>1, LongerCovers
    <3> QED
      BY <2>1, <3>1
  <2>2. CASE i > 1 /\ lines[i] = lines[i - 1] + 1 /\ s = <<>>
    <3>1. DOMAIN s = {} /\ s \in St /\ s = [j \in {} |-> s[j]]
      BY <2>2
    <3>2. [s EXCEPT ![Len(s)].count = @ + 1] = s
      BY <3>1
    <3> QED
      BY <2>2, <3>1, <3>2
  <2>3. CASE ~ (i > 1 /\ lines[i] = lines[i - 1] + 1)
    <3>1. Append(s, [start |-> lines[i], count |-> 1]) \in St
      BY <1>1, AppendCovers
    <3> QED
      BY <2>3, <3>1
  <2> QED
    BY <2>1, <2>2, <2>3
<1>3. PICK f : Walks(n, St, <<>>, move, f)
  <2>1. <<>> \in St
    OBVIOUS
  <2> HIDE DEF St, Next1, n
  <2>2. Moves(n, St, move)
    <3>1. ASSUME NEW p \in (1 .. n) \X St PROVE Next1(p[1], p[2]) \in St
      <4>1. p[1] \in 1 .. n /\ p[2] \in St
        OBVIOUS
      <4> QED
        BY <1>2, <4>1
    <3> QED
      BY <3>1 DEF Moves
  <2> HIDE DEF move
  <2> QED
    BY <1>1, <2>1, <2>2, Recursion
<1>4. /\ f \in [0 .. n -> St] /\ f[0] = <<>>
      /\ \A i \in 1 .. n : f[i - 1] \in St /\ f[i] = Next1(i, f[i - 1])
  <2>1. /\ f \in [0 .. n -> St] /\ f[0] = <<>>
        /\ \A i \in 1 .. n : f[i] = move[<<i, f[i - 1]>>]
    BY <1>3 DEF Walks
  <2> HIDE DEF St, Next1, n
  <2>2. \A i \in 1 .. n, s \in St : move[<<i, s>>] = Next1(i, s)
    OBVIOUS
  <2> HIDE DEF move
  <2>3. \A i \in 1 .. n : i - 1 \in 0 .. n
    BY <1>1
  <2> QED
    BY <2>1, <2>2, <2>3
<1>5. f = Unfold(f)
  <2> HIDE DEF St, Next1, n
  <2>1. \A i \in 0 .. n : f[i] = IF i = 0 THEN <<>> ELSE Next1(i, f[i - 1])
    BY <1>1, <1>4
  <2>2. f = [i \in 0 .. n |-> f[i]]
    BY <1>4
  <2> QED
    BY <2>1, <2>2
<1> DEFINE h == CHOOSE x : x = Unfold(x)
<1>6. h = Unfold(h)
  <2> HIDE DEF Unfold
  <2> QED
    BY <1>5, Zenon
<1>7. Ranges(lines) = h[n]
  BY Zenon DEF Ranges
<1>8. h[0] = <<>> /\ \A i \in 1 .. n : h[i] = Next1(i, h[i - 1])
  <2> HIDE DEF h, Next1, n
  <2>1. \A i \in 0 .. n : Unfold(h)[i] = IF i = 0 THEN <<>> ELSE Next1(i, h[i - 1])
    OBVIOUS
  <2>2. 0 \in 0 .. n /\ \A i \in 1 .. n : i \in 0 .. n /\ i # 0
    BY <1>1
  <2> HIDE DEF Unfold
  <2> QED
    BY <1>6, <2>1, <2>2
<1> HIDE DEF h
<1> DEFINE T == {i \in 0 .. n : /\ h[i] \in St /\ Covered(h[i]) = {lines[j] : j \in 1 .. i}
                                /\ i > 0 => /\ h[i] # <<>>
                                            /\ h[i][Len(h[i])].start + h[i][Len(h[i])].count = lines[i] + 1}
<1>9. 0 .. n \subseteq T
  <2>1. 0 \in T
    <3>1. Covered(<<>>) = {}
      BY DEF Covered, ToSet
    <3>2. {lines[j] : j \in 1 .. 0} = {} /\ 0 \in 0 .. n /\ h[0] \in St
      BY <1>1, <1>8
    <3>3. Covered(h[0]) = {lines[j] : j \in 1 .. 0} /\ ~ (0 > 0)
      BY <1>8, <3>1, <3>2
    <3> HIDE DEF St, n
    <3> QED
      BY <3>2, <3>3
  <2>2. ASSUME NEW k \in 1 .. n, k - 1 \in T PROVE k \in T
    <3> DEFINE s == h[k - 1]
    <3>1. /\ s \in St /\ Covered(s) = {lines[j] : j \in 1 .. k - 1}
          /\ k - 1 > 0 => s # <<>> /\ s[Len(s)].start + s[Len(s)].count = lines[k - 1] + 1
      BY <2>2
    <3>2. h[k] = Next1(k, s) /\ lines[k] \in Int /\ k \in 0 .. n
      BY <1>1, <1>8
    <3>3. {lines[j] : j \in 1 .. k} = {lines[j] : j \in 1 .. k - 1} \cup {lines[k]}
      <4>1. \A j : j \in 1 .. k <=> j \in 1 .. k - 1 \/ j = k
        OBVIOUS
      <4> QED
        BY <4>1
    <3> HIDE DEF s, T, n
    <3>4. CASE k > 1 /\ lines[k] = lines[k - 1] + 1
      <4> DEFINE longer == [s EXCEPT ![Len(s)].count = @ + 1]
      <4>1. s # <<>> /\ s[Len(s)].start + s[Len(s)].count = lines[k]
        BY <3>1, <3>4
      <4>2. /\ longer \in Seq(LineRange) /\ longer # <<>> /\ Len(longer) = Len(s)
            /\ longer[Len(s)] = [start |-> s[Len(s)].start, count |-> s[Len(s)].count + 1]
            /\ Covered(longer) = Covered(s) \cup {lines[k]}
        BY <3>1, <4>1, LongerCovers
      <4>3. h[k] = longer
        BY <3>2, <3>4
      <4>4. s[Len(s)].start \in Int /\ s[Len(s)].count \in Int
        <5>1. Len(s) \in DOMAIN s
          BY <3>1, <4>1
        <5>2. s[Len(s)] \in LineRange
          BY <3>1, <5>1
        <5> QED
          BY <5>2 DEF LineRange
      <4> HIDE DEF longer
      <4>5. longer[Len(longer)].start + longer[Len(longer)].count = lines[k] + 1
        <5> DEFINE a == s[Len(s)].start
                   c == s[Len(s)].count
        <5>1. a \in Int /\ c \in Int /\ a + c = lines[k]
          BY <4>1, <4>4
        <5>2. longer[Len(longer)].start = a /\ longer[Len(longer)].count = c + 1
          BY <4>2
        <5> HIDE DEF a, c
        <5> QED
          BY <5>1, <5>2
      <4> QED
        BY <3>1, <3>2, <3>3, <4>2, <4>3, <4>5 DEF T
    <3>5. CASE ~ (k > 1 /\ lines[k] = lines[k - 1] + 1)
      <4> DEFINE more == Append(s, [start |-> lines[k], count |-> 1])
      <4>1. /\ more \in Seq(LineRange) /\ more # <<>>
            /\ more[Len(more)] = [start |-> lines[k], count |-> 1]
            /\ Covered(more) = Covered(s) \cup {lines[k]}
        BY <3>1, <3>2, AppendCovers
      <4>2. h[k] = more
        BY <3>2, <3>5
      <4> HIDE DEF more
      <4>3. more[Len(more)].start + more[Len(more)].count = lines[k] + 1
        BY <4>1
      <4> QED
        BY <3>1, <3>2, <3>3, <4>1, <4>2, <4>3 DEF T
    <3> QED
      BY <3>4, <3>5
  <2> HIDE DEF T
  <2> QED
    BY <1>1, <2>1, <2>2, StepByStep
<1>10. h[n] \in St /\ Covered(h[n]) = {lines[j] : j \in 1 .. n}
  <2>1. n \in 0 .. n
    BY <1>1
  <2> HIDE DEF T
  <2>2. n \in T
    BY <1>9, <2>1
  <2> QED
    BY <2>2 DEF T
<1> QED
  BY <1>1, <1>7, <1>10 DEF ToSet

-----------------------------------------------------------------------------
(* What git writes.                                                        *)

\* What is known of a patch.
LEMMA PatchIs ==
    ASSUME NEW ps \in Patches
    PROVE  /\ Len(ps) \in Nat /\ DOMAIN ps = 1 .. Len(ps)
           /\ \A i \in 1 .. Len(ps) : FilePatch(ps[i])
<1>1. ps \in Seq(ToSet(ps)) /\ \A i \in DOMAIN ps : FilePatch(ps[i])
  BY UnifiedDiffAssumption
<1>2. Len(ps) \in Nat /\ DOMAIN ps = 1 .. Len(ps)
  BY <1>1
<1> QED
  BY <1>1, <1>2

\* Counting the lines of some kinds, one line more counts if it is of these.
LEMMA UptoGoesOn ==
    ASSUME NEW script \in Seq(ScriptLine), NEW ops
    PROVE  /\ Upto(script, 0, ops) = 0
           /\ \A i \in 0 .. Len(script) : Upto(script, i, ops) \in Nat
           /\ \A i \in 1 .. Len(script) :
                 Upto(script, i, ops) = IF script[i].op \in ops THEN Upto(script, i - 1, ops) + 1
                                        ELSE Upto(script, i - 1, ops)
           /\ \A i, j \in 0 .. Len(script) : i <= j => Upto(script, i, ops) <= Upto(script, j, ops)
<1> DEFINE S(i) == {j \in 1 .. i : script[j].op \in ops}
<1>1. ASSUME NEW i \in 0 .. Len(script)
      PROVE  IsFiniteSet(S(i)) /\ Cardinality(S(i)) \in Nat
  <2>1. IsFiniteSet(1 .. i) /\ S(i) \in SUBSET (1 .. i)
    BY FS_Interval
  <2> HIDE DEF S
  <2> QED
    BY <2>1, FS_Subset, FS_CardinalityType
<1>2. \A i : Upto(script, i, ops) = Cardinality(S(i))
  BY DEF Upto
<1>3. Upto(script, 0, ops) = 0
  <2>1. S(0) = {}
    OBVIOUS
  <2> QED
    BY <1>2, <2>1, FS_EmptySet
<1>4. ASSUME NEW i \in 1 .. Len(script)
      PROVE  Upto(script, i, ops) = IF script[i].op \in ops THEN Upto(script, i - 1, ops) + 1
                                    ELSE Upto(script, i - 1, ops)
  <2>1. i - 1 \in 0 .. Len(script) /\ i \notin S(i - 1)
    OBVIOUS
  <2>2. script[i].op \in ops => S(i) = S(i - 1) \cup {i}
    OBVIOUS
  <2>3. script[i].op \notin ops => S(i) = S(i - 1)
    OBVIOUS
  <2> HIDE DEF S
  <2>4. Cardinality(S(i - 1) \cup {i}) = Cardinality(S(i - 1)) + 1
    BY <1>1, <2>1, FS_AddElement
  <2> QED
    BY <1>2, <2>2, <2>3, <2>4
<1>5. ASSUME NEW i \in 0 .. Len(script), NEW j \in 0 .. Len(script), i <= j
      PROVE  Upto(script, i, ops) <= Upto(script, j, ops)
  <2>1. S(i) \in SUBSET S(j)
    BY <1>5
  <2> HIDE DEF S
  <2> QED
    BY <1>1, <1>2, <2>1, FS_Subset
<1> QED
  BY <1>1, <1>2, <1>3, <1>4, <1>5

\* The paths that the diff of a patch names, and the lines it may have.
Paths(ps) == {DevNull, Junk} \cup {ps[i].old : i \in DOMAIN ps} \cup {ps[i].new : i \in DOMAIN ps}
Mark(t) == [t |-> t]
TextLine(ps) ==
    [t : {"diff"}, old : Paths(ps), new : Paths(ps)]
      \cup {Mark(t) : t \in {"warning", "new file", "deleted file", " ", "", "-", "+", "\\"}}
      \cup [t : {"---", "+++"}, path : Paths(ps)]
      \cup [t : {"@@"}, old : Nat, new : Nat]

\* A line of a script is written as one line.
LEMMA LineIs ==
    ASSUME NEW ps, NEW l \in ScriptLine
    PROVE  /\ Line(l) \in TextLine(ps)
           /\ Line(l).t \in {" ", "", "-", "+", "---", "+++"}
           /\ l.look # "header" =>
                 /\ l.op = "keep" => Line(l).t \in {" ", ""}
                 /\ l.op = "del" => Line(l).t = "-"
                 /\ l.op = "add" => Line(l).t = "+"
<1>1. Junk \in Paths(ps)
  BY DEF Paths
<1>2. CASE l.op = "keep"
  BY <1>2 DEF Line, TextLine, Mark
<1>3. CASE l.op = "del"
  BY <1>1, <1>3 DEF Line, TextLine, Mark
<1>4. CASE l.op = "add"
  BY <1>1, <1>4 DEF Line, TextLine, Mark
<1> QED
  BY <1>2, <1>3, <1>4 DEF ScriptLine

\* The last line of a hunk that begins with a line that is shown.
LEMMA HunkEndIs ==
    ASSUME NEW p, FilePatch(p), NEW i \in 1 .. Len(p.script), IsShown(p, i)
    PROVE  /\ HunkEnd(p, i) \in i .. Len(p.script)
           /\ \A k \in i .. Len(p.script) : (\A j \in i .. k : IsShown(p, j)) => k <= HunkEnd(p, i)
<1> DEFINE n == Len(p.script)
           S == {k \in i .. n : \A j \in i .. k : IsShown(p, j)}
<1>1. n \in Nat
  BY DEF FilePatch
<1>2. S \in SUBSET (0 .. n) /\ i \in S
  BY <1>1
<1> HIDE DEF S
<1>3. PICK m \in S : \A k \in S : k <= m
  BY <1>1, <1>2, GreatestNumber
<1>4. Max(S) \in S /\ \A k \in S : k <= Max(S)
  BY <1>3 DEF Max
<1>5. HunkEnd(p, i) = Max(S)
  BY DEF HunkEnd, S
<1> QED
  BY <1>4, <1>5 DEF S

\* What is written of one line of a script: nothing if it is not shown, and before the
\* first line of a hunk its header.
LEMMA WrittenIs ==
    ASSUME NEW ps, NEW p, FilePatch(p), NEW j \in 1 .. Len(p.script)
    PROVE  /\ Written(p, j) \in Seq(TextLine(ps))
           /\ ~ IsShown(p, j) => Written(p, j) = <<>> /\ p.script[j].op = "keep"
           /\ OpensHunk(p, j) => /\ IsShown(p, j)
                                 /\ Hunk(p, j) \in TextLine(ps)
                                 /\ Hunk(p, j).old \in Nat /\ Hunk(p, j).new \in Nat
                                 /\ Written(p, j) = <<Hunk(p, j)>> \o <<Line(p.script[j])>>
           /\ IsShown(p, j) /\ ~ OpensHunk(p, j) => Written(p, j) = <<Line(p.script[j])>>
<1> DEFINE h == Hunk(p, j)
           l == Line(p.script[j])
<1>1. p.script \in Seq(ScriptLine) /\ p.script[j] \in ScriptLine /\ p.context \in Nat
      /\ DOMAIN p.script = 1 .. Len(p.script) /\ Len(p.script) \in Nat
  BY DEF FilePatch
<1>2. l \in TextLine(ps)
  BY <1>1, LineIs
<1>3. OpensHunk(p, j) => IsShown(p, j)
  BY DEF OpensHunk
<1>4. ~ IsShown(p, j) => p.script[j].op = "keep"
  <2>1. j - j \in -p.context .. p.context
    BY <1>1
  <2> QED
    BY <1>1, <2>1 DEF IsShown
<1>5. ASSUME OpensHunk(p, j) PROVE h \in TextLine(ps) /\ h.old \in Nat /\ h.new \in Nat
  <2>1. HunkEnd(p, j) \in j .. Len(p.script)
    BY <1>3, <1>5, HunkEndIs
  <2>2. j - 1 \in 0 .. Len(p.script) /\ HunkEnd(p, j) \in 0 .. Len(p.script)
    BY <2>1
  <2>3. /\ OldUpto(p.script, j - 1) \in Nat /\ NewUpto(p.script, j - 1) \in Nat
        /\ OldUpto(p.script, HunkEnd(p, j)) \in Nat /\ NewUpto(p.script, HunkEnd(p, j)) \in Nat
    BY <1>1, <2>2, UptoGoesOn DEF OldUpto, NewUpto
  <2>4. \A a, b \in Nat : SideStart(a, b) \in Nat
    BY DEF SideStart
  <2> QED
    BY <2>3, <2>4 DEF Hunk, TextLine
<1> HIDE DEF h, l
<1>6. Written(p, j) = (IF OpensHunk(p, j) THEN <<h>> ELSE <<>>) \o (IF IsShown(p, j) THEN <<l>> ELSE <<>>)
  BY DEF Written, h, l
<1>7. <<>> \o <<>> = <<>> /\ <<>> \o <<l>> = <<l>>
  OBVIOUS
<1> DEFINE T == TextLine(ps)
<1>8. l \in T /\ (OpensHunk(p, j) => h \in T)
  BY <1>2, <1>5
<1> HIDE DEF T
<1>9. <<>> \in Seq(T) /\ <<l>> \in Seq(T) /\ (h \in T => <<h>> \o <<l>> \in Seq(T))
  BY <1>8
<1>10. Written(p, j) \in Seq(T)
  BY <1>3, <1>6, <1>7, <1>8, <1>9
<1> QED
  BY <1>3, <1>4, <1>5, <1>6, <1>7, <1>10 DEF h, l, T

WrittenOf(p) == [j \in 1 .. Len(p.script) |-> Written(p, j)]
ScriptRest(ps, i) == CHOOSE R : AreRests(R, Len(ps[i].script), WrittenOf(ps[i]), TextLine(ps))
GitDiffs(ps) == [i \in 1 .. Len(ps) |-> GitDiff(ps[i])]
FileRest(ps) == CHOOSE R : AreRests(R, Len(ps), GitDiffs(ps), TextLine(ps))

\* The text from the j-th line of the script of the i-th file on.
From(ps, i, j) == ScriptRest(ps, i)[j] \o (<<Mark("\\")>> \o FileRest(ps)[i + 1])

\* The first line of the diff of a file, and the four lines before its script, two of
\* which are not there of every file.
FirstLine(p) == [t |-> "diff", old |-> IF p.old = DevNull THEN p.new ELSE p.old,
                               new |-> IF p.new = DevNull THEN p.old ELSE p.new]
NewFile(p) == IF p.old = DevNull THEN <<Mark("new file")>> ELSE <<>>
DeletedFile(p) == IF p.new = DevNull THEN <<Mark("deleted file")>> ELSE <<>>
OldName(p) == [t |-> "---", path |-> p.old]
NewName(p) == [t |-> "+++", path |-> p.new]

\* The text from the k-th of these four on.
FromHeader(ps, i, k) ==
    LET names == <<OldName(ps[i])>> \o (<<NewName(ps[i])>> \o From(ps, i, 1))
    IN CASE k = 1 -> NewFile(ps[i]) \o (DeletedFile(ps[i]) \o names)
         [] k = 2 -> DeletedFile(ps[i]) \o names
         [] k = 3 -> names
         [] k = 4 -> <<NewName(ps[i])>> \o From(ps, i, 1)

\* The text of a script, and what is left of it.
LEMMA ScriptRestIs ==
    ASSUME NEW ps \in Patches, NEW i \in 1 .. Len(ps)
    PROVE  AreRests(ScriptRest(ps, i), Len(ps[i].script), WrittenOf(ps[i]), TextLine(ps))
<1> DEFINE p == ps[i]
           n == Len(p.script)
           T == TextLine(ps)
           w == WrittenOf(p)
<1>1. FilePatch(p) /\ n \in Nat
  <2>1. FilePatch(p)
    BY PatchIs
  <2>2. p.script \in Seq(ScriptLine)
    BY <2>1 DEF FilePatch
  <2> QED
    BY <2>1, <2>2
<1>2. w \in [1 .. n -> Seq(T)]
  <2>1. \A j \in 1 .. n : Written(p, j) \in Seq(T)
    BY <1>1, WrittenIs
  <2> QED
    BY <2>1 DEF WrittenOf
<1> HIDE DEF n, T, w
<1>3. \E R : AreRests(R, n, w, T)
  BY <1>1, <1>2, RestsExist
<1> QED
  BY <1>3, Zenon DEF ScriptRest, n, T, w

\* What git writes of one file, line by line.
LEMMA GitDiffIs ==
    ASSUME NEW ps \in Patches, NEW i \in 1 .. Len(ps)
    PROVE  LET p == ps[i]
               T == TextLine(ps)
           IN /\ {<<FirstLine(p)>>, NewFile(p), DeletedFile(p), <<OldName(p)>>, <<NewName(p)>>,
                  <<Mark("\\")>>, ScriptRest(ps, i)[1]} \subseteq Seq(T)
              /\ GitDiff(p) = Together(<<FirstLine(p)>>, NewFile(p), DeletedFile(p), <<OldName(p)>>, <<NewName(p)>>,
                                      ScriptRest(ps, i)[1], <<Mark("\\")>>)
<1> DEFINE p == ps[i]
           T == TextLine(ps)
<1>1. FilePatch(p) /\ i \in DOMAIN ps
  BY PatchIs
<1>2. {p.old, p.new, DevNull} \subseteq Paths(ps)
  BY <1>1 DEF Paths
<1>3. /\ FirstLine(p) \in T /\ OldName(p) \in T /\ NewName(p) \in T
      /\ Mark("\\") \in T /\ Mark("new file") \in T /\ Mark("deleted file") \in T
  <2>1. FirstLine(p) \in [t : {"diff"}, old : Paths(ps), new : Paths(ps)]
    BY <1>2 DEF FirstLine
  <2>2. OldName(p) \in [t : {"---", "+++"}, path : Paths(ps)] /\ NewName(p) \in [t : {"---", "+++"}, path : Paths(ps)]
    BY <1>2 DEF OldName, NewName
  <2>3. {Mark("\\"), Mark("new file"), Mark("deleted file")}
           \subseteq {Mark(t) : t \in {"warning", "new file", "deleted file", " ", "", "-", "+", "\\"}}
    OBVIOUS
  <2> QED
    BY <2>1, <2>2, <2>3, Zenon DEF TextLine
<1>4. AreRests(ScriptRest(ps, i), Len(p.script), WrittenOf(p), T) /\ Len(p.script) \in Nat
      /\ DOMAIN p.script = 1 .. Len(p.script)
  <2>1. p.script \in Seq(ScriptLine)
    BY <1>1 DEF FilePatch
  <2> QED
    BY <2>1, ScriptRestIs
<1>5. ScriptRest(ps, i)[1] \in Seq(T) /\ ScriptRest(ps, i)[1] = FlattenSeq(WrittenOf(p))
  <2>1. 1 \in 1 .. Len(p.script) + 1
    BY <1>4
  <2> HIDE DEF T
  <2> QED
    BY <1>4, <2>1 DEF AreRests
<1>6. [j \in DOMAIN p.script |-> Written(p, j)] = WrittenOf(p)
  BY <1>4 DEF WrittenOf
<1>7. <<[t |-> "---", path |-> p.old], [t |-> "+++", path |-> p.new]>> = <<OldName(p)>> \o <<NewName(p)>>
  <2> DEFINE a == OldName(p)
             b == NewName(p)
  <2>1. [t |-> "---", path |-> p.old] = a /\ [t |-> "+++", path |-> p.new] = b
    BY DEF OldName, NewName
  <2> HIDE DEF a, b
  <2>2. <<a, b>> = <<a>> \o <<b>>
    BY TwoInOrder
  <2> QED
    BY <2>1, <2>2 DEF a, b
<1>8. GitDiff(p) = Together(<<FirstLine(p)>>, NewFile(p), DeletedFile(p), <<OldName(p)>>, <<NewName(p)>>,
                           ScriptRest(ps, i)[1], <<Mark("\\")>>)
  <2> DEFINE r == ScriptRest(ps, i)[1]
             s == [j \in DOMAIN p.script |-> Written(p, j)]
             ns == <<[t |-> "---", path |-> p.old], [t |-> "+++", path |-> p.new]>>
  <2>1. r = FlattenSeq(s) /\ ns = <<OldName(p)>> \o <<NewName(p)>>
    BY <1>5, <1>6, <1>7
  <2>2. GitDiff(p) = <<FirstLine(p)>> \o NewFile(p) \o DeletedFile(p) \o ns \o FlattenSeq(s) \o <<Mark("\\")>>
    BY Zenon DEF GitDiff, FirstLine, NewFile, DeletedFile, Mark
  <2> HIDE DEF s, ns
  <2> QED
    BY <2>1, <2>2, Zenon DEF Together
<1>9. {<<FirstLine(p)>>, NewFile(p), DeletedFile(p), <<OldName(p)>>, <<NewName(p)>>, <<Mark("\\")>>} \subseteq Seq(T)
  <2> HIDE DEF T
  <2>1. <<>> \in Seq(T) /\ \A l \in T : <<l>> \in Seq(T)
    OBVIOUS
  <2> QED
    BY <1>3, <2>1 DEF NewFile, DeletedFile
<1> QED
  BY <1>5, <1>8, <1>9

\* The text of the files from the i-th on: its first line, the header and the script.
LEMMA FileRestIs ==
    ASSUME NEW ps \in Patches
    PROVE  LET N == Len(ps)
               F == FileRest(ps)
           IN /\ F \in [1 .. N + 1 -> Seq(TextLine(ps))]
              /\ F[1] = FlattenSeq([i \in DOMAIN ps |-> GitDiff(ps[i])]) /\ F[N + 1] = <<>>
              /\ \A i \in 1 .. N : F[i] = <<FirstLine(ps[i])>> \o FromHeader(ps, i, 1)
<1> DEFINE N == Len(ps)
           F == FileRest(ps)
           T == TextLine(ps)
<1>1. N \in Nat /\ DOMAIN ps = 1 .. N
  BY PatchIs
<1>2. AreRests(F, N, GitDiffs(ps), T)
  <2>1. ASSUME NEW i \in 1 .. N PROVE GitDiff(ps[i]) \in Seq(T)
    <3> DEFINE p == ps[i]
    <3>1. /\ {<<FirstLine(p)>>, NewFile(p), DeletedFile(p), <<OldName(p)>>, <<NewName(p)>>,
              <<Mark("\\")>>, ScriptRest(ps, i)[1]} \subseteq Seq(T)
          /\ GitDiff(p) = Together(<<FirstLine(p)>>, NewFile(p), DeletedFile(p), <<OldName(p)>>, <<NewName(p)>>,
                                  ScriptRest(ps, i)[1], <<Mark("\\")>>)
      BY GitDiffIs
    <3> DEFINE a == <<FirstLine(p)>>
               d == <<OldName(p)>>
               e == <<NewName(p)>>
               f == ScriptRest(ps, i)[1]
               g == <<Mark("\\")>>
    <3> HIDE DEF T, a, d, e, f, g
    <3>2. /\ a \in Seq(T) /\ NewFile(p) \in Seq(T) /\ DeletedFile(p) \in Seq(T)
          /\ d \in Seq(T) /\ e \in Seq(T) /\ f \in Seq(T) /\ g \in Seq(T)
      BY <3>1, Zenon DEF a, d, e, f, g
    <3>3. AreLists(T, a, NewFile(p), DeletedFile(p), d, e, f, g, g)
      BY <3>2 DEF AreLists
    <3>4. Together(a, NewFile(p), DeletedFile(p), d, e, f, g) \in Seq(T)
      BY <3>3, AllInOrder
    <3> QED
      BY <3>1, <3>4, Zenon DEF a, d, e, f, g
  <2>2. GitDiffs(ps) \in [1 .. N -> Seq(T)]
    <3> HIDE DEF T
    <3> QED
      BY <2>1 DEF GitDiffs
  <2> HIDE DEF N, T
  <2>3. \E R : AreRests(R, N, GitDiffs(ps), T)
    BY <1>1, <2>2, RestsExist
  <2> QED
    BY <2>3, Zenon DEF FileRest, N, T
<1>3. /\ F \in [1 .. N + 1 -> Seq(T)] /\ F[1] = FlattenSeq(GitDiffs(ps)) /\ F[N + 1] = <<>>
      /\ \A i \in 1 .. N : F[i] = GitDiffs(ps)[i] \o F[i + 1]
  <2> HIDE DEF F, T
  <2> QED
    BY <1>2, Zenon DEF AreRests
<1>4. GitDiffs(ps) = [i \in DOMAIN ps |-> GitDiff(ps[i])] /\ \A i \in 1 .. N : GitDiffs(ps)[i] = GitDiff(ps[i])
  BY <1>1 DEF GitDiffs
<1>5. ASSUME NEW i \in 1 .. N PROVE F[i] = <<FirstLine(ps[i])>> \o FromHeader(ps, i, 1)
  <2> DEFINE p == ps[i]
             a == <<FirstLine(p)>>
             b == NewFile(p)
             c == DeletedFile(p)
             d == <<OldName(p)>>
             e == <<NewName(p)>>
             f == ScriptRest(ps, i)[1]
             g == <<Mark("\\")>>
             h == F[i + 1]
  <2>1. {a, b, c, d, e, g, f} \subseteq Seq(T) /\ GitDiff(p) = Together(a, b, c, d, e, f, g)
    BY GitDiffIs
  <2>2. F[i] = GitDiff(p) \o h
    <3> HIDE DEF F
    <3>1. F[i] = GitDiffs(ps)[i] \o F[i + 1] /\ GitDiffs(ps)[i] = GitDiff(ps[i])
      BY <1>3, <1>4
    <3> QED
      BY <3>1, Zenon
  <2>3. h \in Seq(T)
    <3>1. i + 1 \in 1 .. N + 1
      BY <1>1
    <3> HIDE DEF F, T, N
    <3> QED
      BY <1>3, <3>1
  <2>4. FromHeader(ps, i, 1) = OneByOne(b, c, d, e, f, g, h)
    <3>1. FromHeader(ps, i, 1) = b \o (c \o (d \o (e \o From(ps, i, 1))))
      BY DEF FromHeader
    <3>2. From(ps, i, 1) = f \o (g \o h)
      BY DEF From
    <3> QED
      BY <3>1, <3>2, Zenon DEF OneByOne
  <2> HIDE DEF T, a, b, c, d, e, f, g, h
  <2>5. Joined(Together(a, b, c, d, e, f, g), h) = Joined(a, OneByOne(b, c, d, e, f, g, h))
    <3>1. AreLists(T, a, b, c, d, e, f, g, h)
      BY <2>1, <2>3 DEF AreLists
    <3> QED
      BY <3>1, AllInOrder
  <2> QED
    BY <2>1, <2>2, <2>4, <2>5, Zenon DEF a, Joined
<1> QED
  BY <1>3, <1>4, <1>5, Zenon

\* The text from a line that is shown on, its own header read.
FromLine(ps, i, j) == <<Line(ps[i].script[j])>> \o From(ps, i, j + 1)

\* The text of a script goes on with what is written of its next line.
LEMMA FromIs ==
    ASSUME NEW ps \in Patches, NEW i \in 1 .. Len(ps)
    PROVE  LET p == ps[i]
               n == Len(p.script)
               St == Seq(TextLine(ps))
           IN /\ \A j \in 1 .. n + 1 : From(ps, i, j) \in St
              /\ From(ps, i, n + 1) = <<Mark("\\")>> \o FileRest(ps)[i + 1]
              /\ \A j \in 1 .. n :
                   /\ FromLine(ps, i, j) \in St
                   /\ ~ IsShown(p, j) => From(ps, i, j) = From(ps, i, j + 1)
                   /\ OpensHunk(p, j) => From(ps, i, j) = <<Hunk(p, j)>> \o FromLine(ps, i, j)
                   /\ IsShown(p, j) /\ ~ OpensHunk(p, j) => From(ps, i, j) = FromLine(ps, i, j)
<1> DEFINE p == ps[i]
           n == Len(p.script)
           T == TextLine(ps)
           St == Seq(T)
           S == ScriptRest(ps, i)
           last == <<Mark("\\")>> \o FileRest(ps)[i + 1]
<1>1. FilePatch(p) /\ n \in Nat /\ p.script \in Seq(ScriptLine) /\ DOMAIN p.script = 1 .. n
  <2>1. FilePatch(p)
    BY PatchIs
  <2>2. p.script \in Seq(ScriptLine)
    BY <2>1 DEF FilePatch
  <2> QED
    BY <2>1, <2>2
<1>2. last \in St
  <2>1. i + 1 \in 1 .. Len(ps) + 1
    BY PatchIs
  <2>2. FileRest(ps)[i + 1] \in St
    BY <2>1, FileRestIs
  <2>3. Mark("\\") \in T
    BY DEF TextLine
  <2> HIDE DEF T
  <2> QED
    BY <2>2, <2>3
<1>3. /\ S \in [1 .. n + 1 -> St] /\ S[n + 1] = <<>>
      /\ \A j \in 1 .. n : S[j] = WrittenOf(p)[j] \o S[j + 1]
  <2>1. AreRests(S, n, WrittenOf(p), T)
    BY ScriptRestIs
  <2> HIDE DEF S, T, n, p
  <2> QED
    BY <2>1, Zenon DEF AreRests
<1>4. \A j \in 1 .. n + 1 : From(ps, i, j) = S[j] \o last
  BY Zenon DEF From
<1>5. \A j \in 1 .. n + 1 : From(ps, i, j) \in St
  <2>1. \A r, s \in St : r \o s \in St
    OBVIOUS
  <2> HIDE DEF S, St, last
  <2> QED
    BY <1>2, <1>3, <1>4, <2>1
<1>6. From(ps, i, n + 1) = last
  <2>1. \A s \in St : <<>> \o s = s
    OBVIOUS
  <2>2. n + 1 \in 1 .. n + 1
    BY <1>1
  <2> HIDE DEF S, St, last, n
  <2> QED
    BY <1>2, <1>3, <1>4, <2>1, <2>2
<1>7. ASSUME NEW j \in 1 .. n
      PROVE  /\ FromLine(ps, i, j) \in St
             /\ ~ IsShown(p, j) => From(ps, i, j) = From(ps, i, j + 1)
             /\ OpensHunk(p, j) => From(ps, i, j) = <<Hunk(p, j)>> \o FromLine(ps, i, j)
             /\ IsShown(p, j) /\ ~ OpensHunk(p, j) => From(ps, i, j) = FromLine(ps, i, j)
  <2> DEFINE w == Written(p, j)
             l == Line(p.script[j])
             h == Hunk(p, j)
             r == S[j + 1]
  <2>1. j + 1 \in 1 .. n + 1 /\ j \in 1 .. n + 1
    BY <1>1
  <2>2. r \in St /\ S[j] = w \o r
    BY <1>1, <1>3, <2>1 DEF WrittenOf
  <2>3. From(ps, i, j) = (w \o r) \o last /\ From(ps, i, j + 1) = r \o last
    BY <1>4, <2>1, <2>2
  <2>4. /\ w \in St /\ (~ IsShown(p, j) => w = <<>>)
        /\ OpensHunk(p, j) => h \in T /\ w = <<h>> \o <<l>>
        /\ IsShown(p, j) /\ ~ OpensHunk(p, j) => w = <<l>>
    BY <1>1, WrittenIs
  <2>5. p.script[j] \in ScriptLine
    BY <1>1
  <2>6. l \in T
    BY <2>5, LineIs
  <2>7. FromLine(ps, i, j) = <<l>> \o (r \o last)
    BY <2>3, Zenon DEF FromLine
  <2> HIDE DEF w, l, h, r, last, S, T
  <2>8. <<l>> \in St /\ (h \in T => <<h>> \in St)
    BY <2>6
  <2>9. /\ \A x, y \in St : Joined(x, y) \in St
        /\ \A x, y, z \in St : Joined(Joined(x, y), z) = Joined(x, Joined(y, z))
    <3>1. \A x, y \in St : Joined(x, y) \in St
      BY JoinedTwice
    <3>2. \A x, y, z \in St : Joined(Joined(x, y), z) = Joined(x, Joined(y, z))
      BY JoinedTwice
    <3> QED
      BY <3>1, <3>2
  <2>10. /\ From(ps, i, j) = Joined(Joined(w, r), last) /\ From(ps, i, j + 1) = Joined(r, last)
         /\ FromLine(ps, i, j) = Joined(<<l>>, Joined(r, last))
         /\ OpensHunk(p, j) => h \in T /\ w = Joined(<<h>>, <<l>>)
    BY <2>3, <2>4, <2>7, Zenon DEF Joined
  <2>11. <<>> \in St /\ \A s \in St : Joined(<<>>, s) = s
    BY DEF Joined
  <2> HIDE DEF St
  <2>12. FromLine(ps, i, j) \in St /\ Joined(r, last) \in St
    BY <1>2, <2>2, <2>8, <2>9, <2>10
  <2>13. ~ IsShown(p, j) => From(ps, i, j) = From(ps, i, j + 1)
    BY <2>2, <2>4, <2>10, <2>11
  <2>14. OpensHunk(p, j) => From(ps, i, j) = Joined(<<h>>, FromLine(ps, i, j))
    <3>1. SUFFICES ASSUME OpensHunk(p, j) PROVE From(ps, i, j) = Joined(<<h>>, FromLine(ps, i, j))
      OBVIOUS
    <3>2. w = Joined(<<h>>, <<l>>) /\ <<h>> \in St /\ Joined(<<l>>, r) \in St
      BY <2>2, <2>8, <2>9, <2>10, <3>1
    <3>3. Joined(w, r) = Joined(<<h>>, Joined(<<l>>, r))
      <4> DEFINE m == <<h>>
                 o == <<l>>
      <4>1. m \in St /\ o \in St /\ w = Joined(m, o)
        BY <2>8, <3>2
      <4> HIDE DEF m, o
      <4>2. Joined(Joined(m, o), r) = Joined(m, Joined(o, r))
        BY <2>2, <2>9, <4>1
      <4> QED
        BY <4>1, <4>2 DEF m, o
    <3>4. Joined(Joined(w, r), last) = Joined(<<h>>, Joined(Joined(<<l>>, r), last))
      BY <1>2, <2>9, <3>2, <3>3
    <3>5. Joined(Joined(<<l>>, r), last) = Joined(<<l>>, Joined(r, last))
      BY <1>2, <2>2, <2>8, <2>9
    <3> QED
      BY <2>10, <3>4, <3>5
  <2>15. IsShown(p, j) /\ ~ OpensHunk(p, j) => From(ps, i, j) = FromLine(ps, i, j)
    <3>1. SUFFICES ASSUME IsShown(p, j), ~ OpensHunk(p, j) PROVE From(ps, i, j) = FromLine(ps, i, j)
      OBVIOUS
    <3>2. w = <<l>>
      BY <2>4, <3>1
    <3>3. Joined(Joined(<<l>>, r), last) = Joined(<<l>>, Joined(r, last))
      BY <1>2, <2>2, <2>8, <2>9
    <3> QED
      BY <2>10, <3>2, <3>3
  <2> QED
    BY <2>12, <2>13, <2>14, <2>15, Zenon DEF Joined, h
<1> QED
  BY <1>5, <1>6, <1>7

\* The lines of the header of a file.
LEMMA FromHeaderIs ==
    ASSUME NEW ps \in Patches, NEW i \in 1 .. Len(ps)
    PROVE  LET p == ps[i]
               new == FromHeader(ps, i, 2)
               deleted == FromHeader(ps, i, 3)
           IN /\ \A k \in 1 .. 4 : FromHeader(ps, i, k) \in Seq(TextLine(ps))
              /\ FromHeader(ps, i, 1) = IF p.old = DevNull THEN <<Mark("new file")>> \o new ELSE new
              /\ new = IF p.new = DevNull THEN <<Mark("deleted file")>> \o deleted ELSE deleted
              /\ deleted = <<OldName(p)>> \o FromHeader(ps, i, 4)
              /\ FromHeader(ps, i, 4) = <<NewName(p)>> \o From(ps, i, 1)
<1> DEFINE p == ps[i]
           T == TextLine(ps)
           St == Seq(T)
           f == From(ps, i, 1)
           d == <<OldName(p)>>
           e == <<NewName(p)>>
<1>1. {NewFile(p), DeletedFile(p), d, e} \subseteq St
  BY GitDiffIs
<1>2. f \in St
  <2>1. p.script \in Seq(ScriptLine)
    BY PatchIs DEF FilePatch
  <2>2. Len(p.script) \in Nat
    BY <2>1
  <2>3. 1 \in 1 .. Len(p.script) + 1
    BY <2>2
  <2> QED
    BY <2>3, FromIs
<1>3. /\ FromHeader(ps, i, 4) = e \o f
      /\ FromHeader(ps, i, 3) = d \o (e \o f)
      /\ FromHeader(ps, i, 2) = DeletedFile(p) \o (d \o (e \o f))
      /\ FromHeader(ps, i, 1) = NewFile(p) \o (DeletedFile(p) \o (d \o (e \o f)))
  BY DEF FromHeader
<1>4. \A r, s \in St : r \o s \in St
  OBVIOUS
<1>5. \A s \in St : <<>> \o s = s
  OBVIOUS
<1>8. DeletedFile(p) = IF p.new = DevNull THEN <<Mark("deleted file")>> ELSE <<>>
  BY DEF DeletedFile
<1>9. NewFile(p) = IF p.old = DevNull THEN <<Mark("new file")>> ELSE <<>>
  BY DEF NewFile
<1> HIDE DEF St, d, e, f
<1>6. e \o f \in St /\ d \o (e \o f) \in St /\ DeletedFile(p) \o (d \o (e \o f)) \in St
      /\ NewFile(p) \o (DeletedFile(p) \o (d \o (e \o f))) \in St
  BY <1>1, <1>2, <1>4
<1>7. \A k \in 1 .. 4 : FromHeader(ps, i, k) \in St
  <2>1. /\ FromHeader(ps, i, 1) \in St /\ FromHeader(ps, i, 2) \in St
        /\ FromHeader(ps, i, 3) \in St /\ FromHeader(ps, i, 4) \in St
    BY <1>3, <1>6, Zenon
  <2>2. \A k \in 1 .. 4 : k = 1 \/ k = 2 \/ k = 3 \/ k = 4
    OBVIOUS
  <2> QED
    BY <2>1, <2>2, Zenon
<1>10. FromHeader(ps, i, 2) = IF p.new = DevNull THEN <<Mark("deleted file")>> \o FromHeader(ps, i, 3)
                              ELSE FromHeader(ps, i, 3)
  <2> HIDE DEF p
  <2>1. CASE p.new = DevNull
    BY <1>3, <1>8, <2>1, Zenon
  <2>2. CASE p.new # DevNull
    BY <1>3, <1>5, <1>6, <1>8, <2>2
  <2> QED
    BY <2>1, <2>2
<1>11. FromHeader(ps, i, 1) = IF p.old = DevNull THEN <<Mark("new file")>> \o FromHeader(ps, i, 2)
                              ELSE FromHeader(ps, i, 2)
  <2> HIDE DEF p
  <2>1. CASE p.old = DevNull
    BY <1>3, <1>9, <2>1, Zenon
  <2>2. CASE p.old # DevNull
    BY <1>3, <1>5, <1>6, <1>9, <2>2
  <2> QED
    BY <2>1, <2>2
<1>12. FromHeader(ps, i, 3) = d \o FromHeader(ps, i, 4)
  BY <1>3, Zenon
<1> QED
  BY <1>3, <1>7, <1>10, <1>11, <1>12, Zenon DEF St, d, e, f

\* The first of a list, and the rest.
LEMMA FirstAndRest ==
    ASSUME NEW T, NEW l, NEW s \in Seq(T)
    PROVE  <<l>> \o s # <<>> /\ Head(<<l>> \o s) = l /\ Tail(<<l>> \o s) = s
<1> DEFINE U == T \cup {l}
           r == <<l>> \o s
<1>1. s \in Seq(U) /\ <<l>> \in Seq(U)
  OBVIOUS
<1>2. r \in Seq(U) /\ Len(r) = Len(s) + 1 /\ r[1] = l /\ \A k \in 1 .. Len(s) : r[k + 1] = s[k]
  BY <1>1
<1> HIDE DEF r
<1>3. Tail(r) = s
  <2>1. r # <<>> /\ Tail(r) \in Seq(U) /\ Len(Tail(r)) = Len(s)
    BY <1>2
  <2>2. \A k \in 1 .. Len(s) : Tail(r)[k] = r[k + 1]
    BY <1>2
  <2> QED
    BY <1>1, <1>2, <2>1, <2>2
<1> QED
  BY <1>2, <1>3 DEF r

-----------------------------------------------------------------------------
(* What one line does.                                                     *)

FileDiffs(ps) == [old : Paths(ps), new : Paths(ps), isNew : BOOLEAN, isDeleted : BOOLEAN,
                  added : Seq(Nat), deleted : Seq(Nat), ranges : Seq(LineRange)]

\* What the lines of a diff name.
LEMMA FieldsOfLine ==
    ASSUME NEW ps, NEW l \in TextLine(ps)
    PROVE  /\ l.t \in {"---", "+++"} => l.path \in Paths(ps)
           /\ l.t = "diff" => l.old \in Paths(ps) /\ l.new \in Paths(ps)
           /\ l.t = "@@" => l.old \in Nat /\ l.new \in Nat
<1>1. CASE l \in [t : {"diff"}, old : Paths(ps), new : Paths(ps)]
  BY <1>1
<1>2. CASE l \in {Mark(t) : t \in {"warning", "new file", "deleted file", " ", "", "-", "+", "\\"}}
  <2>1. PICK t \in {"warning", "new file", "deleted file", " ", "", "-", "+", "\\"} : l = Mark(t)
    BY <1>2
  <2>2. l.t = t
    BY <2>1 DEF Mark
  <2> QED
    BY <2>1, <2>2
<1>3. CASE l \in [t : {"---", "+++"}, path : Paths(ps)]
  BY <1>3
<1>4. CASE l \in [t : {"@@"}, old : Nat, new : Nat]
  BY <1>4
<1> QED
  BY <1>1, <1>2, <1>3, <1>4 DEF TextLine

\* What the parser does to a field of the FileDiff it reads.
SetIsNew(cur) == [cur EXCEPT ![1].isNew = TRUE]
SetIsDeleted(cur) == [cur EXCEPT ![1].isDeleted = TRUE]
SetOld(cur, path) == [cur EXCEPT ![1].old = path]
SetNew(cur, path) == [cur EXCEPT ![1].new = path]
Add(cur, n) == [cur EXCEPT ![1].added = Append(@, n)]
Delete(cur, n) == [cur EXCEPT ![1].deleted = Append(@, n)]

AsNew(fd) == [fd EXCEPT !.isNew = TRUE]
AsDeleted(fd) == [fd EXCEPT !.isDeleted = TRUE]
WithOld(fd, path) == [fd EXCEPT !.old = path]
WithNew(fd, path) == [fd EXCEPT !.new = path]
WithAdded(fd, n) == [fd EXCEPT !.added = Append(@, n)]
WithDeleted(fd, n) == [fd EXCEPT !.deleted = Append(@, n)]

\* A FileDiff that is changed in one field.
LEMMA FlagChanges ==
    ASSUME NEW ps, NEW fd \in FileDiffs(ps)
    PROVE  /\ SetIsNew(<<fd>>) = <<AsNew(fd)>>
           /\ AsNew(fd) \in FileDiffs(ps)
           /\ SetIsDeleted(<<fd>>) = <<AsDeleted(fd)>>
           /\ AsDeleted(fd) \in FileDiffs(ps)
<1>1. \A x : [<<fd>> EXCEPT ![1] = x] = <<x>>
  OBVIOUS
<1>2. <<fd>>[1] = fd
  OBVIOUS
<1>3. AsNew(fd) \in FileDiffs(ps) /\ AsDeleted(fd) \in FileDiffs(ps)
  BY DEF FileDiffs, AsNew, AsDeleted
<1> QED
  BY <1>1, <1>2, <1>3 DEF SetIsNew, SetIsDeleted, AsNew, AsDeleted

\* The same of a path.
LEMMA PathChanges ==
    ASSUME NEW ps, NEW fd \in FileDiffs(ps), NEW path \in Paths(ps)
    PROVE  /\ SetOld(<<fd>>, path) = <<WithOld(fd, path)>>
           /\ WithOld(fd, path) \in FileDiffs(ps)
           /\ SetNew(<<fd>>, path) = <<WithNew(fd, path)>>
           /\ WithNew(fd, path) \in FileDiffs(ps)
<1>1. \A x : [<<fd>> EXCEPT ![1] = x] = <<x>>
  OBVIOUS
<1>2. <<fd>>[1] = fd
  OBVIOUS
<1>3. [fd EXCEPT !.old = path] \in FileDiffs(ps) /\ [fd EXCEPT !.new = path] \in FileDiffs(ps)
  BY DEF FileDiffs
<1> QED
  BY <1>1, <1>2, <1>3 DEF WithOld, WithNew, SetOld, SetNew

\* The same of the lines.
LEMMA LinesChange ==
    ASSUME NEW ps, NEW fd \in FileDiffs(ps), NEW n \in Nat
    PROVE  /\ Add(<<fd>>, n) = <<WithAdded(fd, n)>>
           /\ WithAdded(fd, n) \in FileDiffs(ps)
           /\ Delete(<<fd>>, n) = <<WithDeleted(fd, n)>>
           /\ WithDeleted(fd, n) \in FileDiffs(ps)
<1>1. \A x : [<<fd>> EXCEPT ![1] = x] = <<x>>
  OBVIOUS
<1>2. <<fd>>[1] = fd
  OBVIOUS
<1>3. Append(fd.added, n) \in Seq(Nat) /\ Append(fd.deleted, n) \in Seq(Nat)
  BY DEF FileDiffs
<1> DEFINE a == Append(fd.added, n)
           d == Append(fd.deleted, n)
<1> HIDE DEF a, d
<1>4. [fd EXCEPT !.added = a] \in FileDiffs(ps) /\ [fd EXCEPT !.deleted = d] \in FileDiffs(ps)
  BY <1>3 DEF FileDiffs, a, d
<1> QED
  BY <1>1, <1>2, <1>4 DEF a, d, WithAdded, WithDeleted, Add, Delete

\* What a line of the diff of a file does to what is read of it.
Effect(l, fd, gd) ==
    CASE l.t = "new file"     -> gd = AsNew(fd)
      [] l.t = "deleted file" -> gd = AsDeleted(fd)
      [] l.t = "---"          -> gd = WithOld(fd, l.path)
      [] l.t = "+++"          -> gd = WithNew(fd, l.path)
      [] l.t = "+"            -> gd = WithAdded(fd, newLine)
      [] l.t = "-"            -> gd = WithDeleted(fd, oldLine)
      [] OTHER                -> gd = fd

\* The line that is read is the first; within a file only "diff" begins another one.
LEMMA LineIsRead ==
    ASSUME NEW ps, NEW l \in TextLine(ps), NEW rest \in Seq(TextLine(ps)), ReadLine, text = <<l>> \o rest,
           oldLine \in Nat, newLine \in Nat
    PROVE  /\ text' = rest /\ patch' = patch
           /\ l.t = "diff" => diffs' = diffs \o Complete /\ current' = <<FileDiff(l.old, l.new)>>
                              /\ UNCHANGED <<oldLine, newLine>>
           /\ l.t = "warning" => UNCHANGED <<current, diffs, oldLine, newLine>>
           /\ \A fd \in FileDiffs(ps) : current = <<fd>> /\ l.t \notin {"diff", "warning"} =>
                /\ UNCHANGED diffs
                /\ \E gd \in FileDiffs(ps) : current' = <<gd>> /\ Effect(l, fd, gd)
                /\ oldLine' = IF l.t = "@@" THEN l.old ELSE IF l.t \in {"-", " ", ""} THEN oldLine + 1 ELSE oldLine
                /\ newLine' = IF l.t = "@@" THEN l.new ELSE IF l.t \in {"+", " ", ""} THEN newLine + 1 ELSE newLine
<1> DEFINE T == TextLine(ps)
<1>1. text' = rest /\ patch' = patch /\ Head(text) = l
  <2>1. /\ <<l>> \o rest # <<>> /\ Head(<<l>> \o rest) = l
        /\ Tail(<<l>> \o rest) = rest
    BY FirstAndRest
  <2> QED
    BY <2>1, Zenon DEF ReadLine
<1>2. \/ Starts(l) \/ Preamble(l) \/ (IsHeader(l) /\ Header(l)) \/ OpenHunk(l)
      \/ (l.t \in {"+", "-", " ", "", "\\"} /\ Body(l))
  BY <1>1 DEF ReadLine
<1>3. ASSUME l.t = "diff"
      PROVE  diffs' = diffs \o Complete /\ current' = <<FileDiff(l.old, l.new)>> /\ UNCHANGED <<oldLine, newLine>>
  BY <1>2, <1>3 DEF Starts, Preamble, IsHeader, OpenHunk
<1>4. ASSUME l.t = "warning" PROVE UNCHANGED <<current, diffs, oldLine, newLine>>
  BY <1>2, <1>4 DEF Starts, Preamble, IsHeader, OpenHunk
<1>5. ASSUME NEW fd \in FileDiffs(ps), current = <<fd>>, l.t \notin {"diff", "warning"}
      PROVE  /\ UNCHANGED diffs
             /\ \E gd \in FileDiffs(ps) : current' = <<gd>> /\ Effect(l, fd, gd)
             /\ oldLine' = IF l.t = "@@" THEN l.old ELSE IF l.t \in {"-", " ", ""} THEN oldLine + 1 ELSE oldLine
             /\ newLine' = IF l.t = "@@" THEN l.new ELSE IF l.t \in {"+", " ", ""} THEN newLine + 1 ELSE newLine
  <2>1. current # <<>>
    BY <1>5
  <2>2. ~ Starts(l) /\ ~ Preamble(l)
    BY <1>5, <2>1 DEF Starts, Preamble
  <2>3. CASE IsHeader(l) /\ Header(l)
    <3>1. UNCHANGED <<diffs, oldLine, newLine>> /\ l.t \in {"new file", "deleted file", "---", "+++"}
      BY <2>3 DEF Header, IsHeader
    <3>2. CASE l.t = "new file"
      <4>1. current' = SetIsNew(<<fd>>)
        BY <1>5, <2>3, <3>2 DEF Header, SetIsNew
      <4> DEFINE gd == AsNew(fd)
      <4>2. current' = <<gd>> /\ gd \in FileDiffs(ps)
        BY <4>1, FlagChanges
      <4>3. Effect(l, fd, gd)
        BY <3>2, Zenon DEF Effect
      <4> HIDE DEF gd
      <4> QED
        BY <3>1, <3>2, <4>2, <4>3
    <3>3. CASE l.t = "deleted file"
      <4>1. current' = SetIsDeleted(<<fd>>)
        BY <1>5, <2>3, <3>3 DEF Header, SetIsDeleted
      <4> DEFINE gd == AsDeleted(fd)
      <4>2. current' = <<gd>> /\ gd \in FileDiffs(ps)
        BY <4>1, FlagChanges
      <4> HIDE DEF gd
      <4>3. Effect(l, fd, gd)
        BY <3>3 DEF Effect, gd
      <4> QED
        BY <3>1, <3>3, <4>2, <4>3
    <3>4. CASE l.t = "---"
      <4>1. current' = SetOld(<<fd>>, l.path) /\ l.path \in Paths(ps)
        BY <1>5, <2>3, <3>4, FieldsOfLine DEF Header, SetOld
      <4> DEFINE gd == WithOld(fd, l.path)
      <4>2. current' = <<gd>> /\ gd \in FileDiffs(ps)
        <5> DEFINE x == l.path
        <5>1. x \in Paths(ps) /\ current' = SetOld(<<fd>>, x) /\ gd = WithOld(fd, x)
          BY <4>1
        <5> HIDE DEF x, gd
        <5>2. SetOld(<<fd>>, x) = <<WithOld(fd, x)>> /\ WithOld(fd, x) \in FileDiffs(ps)
          BY <5>1, PathChanges
        <5> QED
          BY <5>1, <5>2, Zenon
      <4> HIDE DEF gd
      <4>3. Effect(l, fd, gd)
        BY <3>4 DEF Effect, gd
      <4> QED
        BY <3>1, <3>4, <4>2, <4>3
    <3>5. CASE l.t = "+++"
      <4>1. current' = SetNew(<<fd>>, l.path) /\ l.path \in Paths(ps)
        BY <1>5, <2>3, <3>5, FieldsOfLine DEF Header, SetNew
      <4> DEFINE gd == WithNew(fd, l.path)
      <4>2. current' = <<gd>> /\ gd \in FileDiffs(ps)
        <5> DEFINE x == l.path
        <5>1. x \in Paths(ps) /\ current' = SetNew(<<fd>>, x) /\ gd = WithNew(fd, x)
          BY <4>1
        <5> HIDE DEF x, gd
        <5>2. SetNew(<<fd>>, x) = <<WithNew(fd, x)>> /\ WithNew(fd, x) \in FileDiffs(ps)
          BY <5>1, PathChanges
        <5> QED
          BY <5>1, <5>2, Zenon
      <4> HIDE DEF gd
      <4>3. Effect(l, fd, gd)
        BY <3>5 DEF Effect, gd
      <4> QED
        BY <3>1, <3>5, <4>2, <4>3
    <3> QED
      BY <3>1, <3>2, <3>3, <3>4, <3>5
  <2>4. CASE OpenHunk(l)
    <3>1. Effect(l, fd, fd)
      BY <2>4 DEF OpenHunk, Effect
    <3> QED
      BY <1>5, <2>4, <3>1 DEF OpenHunk
  <2>5. CASE l.t \in {"+", "-", " ", "", "\\"} /\ Body(l)
    <3>1. /\ UNCHANGED diffs
          /\ oldLine' = IF l.t \in {"-", " ", ""} THEN oldLine + 1 ELSE oldLine
          /\ newLine' = IF l.t \in {"+", " ", ""} THEN newLine + 1 ELSE newLine
      BY <2>5 DEF Body
    <3>2. CASE l.t = "+"
      <4>1. current' = Add(<<fd>>, newLine)
        BY <1>5, <2>5, <3>2 DEF Body, Add
      <4> DEFINE gd == WithAdded(fd, newLine)
      <4>2. current' = <<gd>> /\ gd \in FileDiffs(ps)
        <5>1. Add(<<fd>>, newLine) = <<WithAdded(fd, newLine)>> /\ WithAdded(fd, newLine) \in FileDiffs(ps)
          BY LinesChange
        <5> QED
          BY <4>1, <5>1, Zenon
      <4> HIDE DEF gd
      <4>3. Effect(l, fd, gd)
        BY <3>2 DEF Effect, gd
      <4> QED
        BY <3>1, <3>2, <4>2, <4>3
    <3>3. CASE l.t = "-"
      <4>1. current' = Delete(<<fd>>, oldLine)
        BY <1>5, <2>5, <3>3 DEF Body, Delete
      <4> DEFINE gd == WithDeleted(fd, oldLine)
      <4>2. current' = <<gd>> /\ gd \in FileDiffs(ps)
        <5>1. Delete(<<fd>>, oldLine) = <<WithDeleted(fd, oldLine)>> /\ WithDeleted(fd, oldLine) \in FileDiffs(ps)
          BY LinesChange
        <5> QED
          BY <4>1, <5>1, Zenon
      <4> HIDE DEF gd
      <4>3. Effect(l, fd, gd)
        BY <3>3 DEF Effect, gd
      <4> QED
        BY <3>1, <3>3, <4>2, <4>3
    <3>4. CASE l.t \in {" ", "", "\\"}
      <4>1. current' = <<fd>>
        BY <1>5, <2>5, <3>4 DEF Body
      <4>2. Effect(l, fd, fd)
        BY <3>4 DEF Effect
      <4> QED
        BY <3>1, <3>4, <4>1, <4>2
    <3> QED
      BY <2>5, <3>2, <3>3, <3>4
  <2> QED
    BY <1>2, <2>2, <2>3, <2>4, <2>5
<1> QED
  BY <1>1, <1>3, <1>4, <1>5

-----------------------------------------------------------------------------
(* What is known after some lines.                                         *)

Added(p, j) == {NewUpto(p.script, k) : k \in {l \in 1 .. j : p.script[l].op = "add"}}
Deleted(p, j) == {OldUpto(p.script, k) : k \in {l \in 1 .. j : p.script[l].op = "del"}}

\* A flag is TRUE just if something holds.
Tells(flag, b) == (b => flag = TRUE) /\ (~ b => flag = FALSE)

\* Before the k-th line of the header.
KnowsHeader(p, fd, k) ==
    /\ fd.added = <<>> /\ fd.deleted = <<>>
    /\ Tells(fd.isNew, k > 1 /\ p.old = DevNull)
    /\ Tells(fd.isDeleted, k > 2 /\ p.new = DevNull)
    /\ k > 3 => fd.old = p.old

\* After j lines of the script.
Knows(p, fd, j) ==
    /\ fd.old = p.old /\ fd.new = p.new
    /\ fd.isNew = (p.old = DevNull) /\ fd.isDeleted = (p.new = DevNull)
    /\ ToSet(fd.added) = Added(p, j) /\ ToSet(fd.deleted) = Deleted(p, j)

\* The hunk that j is in has a line of one of these kinds at j or after.
SideLeft(p, j, ops) ==
    \E k \in j .. Len(p.script) : p.script[k].op \in ops /\ \A l \in j .. k : IsShown(p, l)

\* The counters are right before line j, each as long as the hunk has a line it numbers.
Counts(p, j, ol, nl) ==
    /\ SideLeft(p, j, {"keep", "del"}) => ol = OldUpto(p.script, j - 1) + 1
    /\ SideLeft(p, j, {"keep", "add"}) => nl = NewUpto(p.script, j - 1) + 1

\* What is known after one line more.
LEMMA KnowsOneMore ==
    ASSUME NEW ps, NEW p, FilePatch(p), NEW j \in 1 .. Len(p.script), NEW fd \in FileDiffs(ps),
           Knows(p, fd, j - 1)
    PROVE  /\ p.script[j].op = "keep" => Knows(p, fd, j)
           /\ p.script[j].op = "add" => Knows(p, WithAdded(fd, NewUpto(p.script, j)), j)
           /\ p.script[j].op = "del" => Knows(p, WithDeleted(fd, OldUpto(p.script, j)), j)
<1>1. /\ p.script \in Seq(ScriptLine) /\ p.script[j] \in ScriptLine
  <2>1. p.script \in Seq(ScriptLine)
    BY DEF FilePatch
  <2> QED
    BY <2>1
<1>2. \A l : l \in 1 .. j <=> l \in 1 .. j - 1 \/ l = j
  OBVIOUS
<1>3. /\ Added(p, j) = IF p.script[j].op = "add" THEN Added(p, j - 1) \cup {NewUpto(p.script, j)} ELSE Added(p, j - 1)
      /\ Deleted(p, j) = IF p.script[j].op = "del" THEN Deleted(p, j - 1) \cup {OldUpto(p.script, j)} ELSE Deleted(p, j - 1)
  BY <1>2 DEF Added, Deleted
<1>4. \A s \in Seq(Nat), n \in Nat : ToSet(Append(s, n)) = ToSet(s) \cup {n}
  <2> TAKE s \in Seq(Nat), n \in Nat
  <2> DEFINE r == Append(s, n)
  <2>1. Len(r) = Len(s) + 1 /\ Len(s) \in Nat /\ r[Len(s) + 1] = n /\ \A i \in 1 .. Len(s) : r[i] = s[i]
    OBVIOUS
  <2>2. DOMAIN r = 1 .. Len(s) + 1 /\ DOMAIN s = 1 .. Len(s)
    OBVIOUS
  <2> HIDE DEF r
  <2>3. ToSet(r) = ToSet(s) \cup {n}
    BY <2>1, <2>2 DEF ToSet
  <2> QED
    BY <2>3 DEF r
<1>5. OldUpto(p.script, j) \in Nat /\ NewUpto(p.script, j) \in Nat
  <2>1. j \in 0 .. Len(p.script)
    OBVIOUS
  <2> QED
    BY <1>1, <2>1, UptoGoesOn DEF OldUpto, NewUpto
<1>6. fd.added \in Seq(Nat) /\ fd.deleted \in Seq(Nat)
  BY DEF FileDiffs
<1>7. ASSUME p.script[j].op = "keep" PROVE Knows(p, fd, j)
  BY <1>3, <1>7 DEF Knows
<1>8. ASSUME p.script[j].op = "add" PROVE Knows(p, WithAdded(fd, NewUpto(p.script, j)), j)
  <2> DEFINE n == NewUpto(p.script, j)
             gd == WithAdded(fd, n)
  <2>1. /\ gd.old = fd.old /\ gd.new = fd.new /\ gd.isNew = fd.isNew /\ gd.isDeleted = fd.isDeleted
        /\ gd.deleted = fd.deleted /\ gd.added = Append(fd.added, n)
    BY DEF WithAdded, FileDiffs
  <2>2. ToSet(gd.added) = ToSet(fd.added) \cup {n}
    <3> HIDE DEF gd, n
    <3>1. n \in Nat
      BY <1>5 DEF n
    <3> QED
      BY <1>4, <1>6, <2>1, <3>1
  <2> HIDE DEF gd
  <2>3. Knows(p, gd, j)
    BY <1>3, <1>8, <2>1, <2>2 DEF Knows
  <2> QED
    BY <2>3 DEF gd
<1>9. ASSUME p.script[j].op = "del" PROVE Knows(p, WithDeleted(fd, OldUpto(p.script, j)), j)
  <2> DEFINE n == OldUpto(p.script, j)
             gd == WithDeleted(fd, n)
  <2>1. /\ gd.old = fd.old /\ gd.new = fd.new /\ gd.isNew = fd.isNew /\ gd.isDeleted = fd.isDeleted
        /\ gd.added = fd.added /\ gd.deleted = Append(fd.deleted, n)
    BY DEF WithDeleted, FileDiffs
  <2>2. ToSet(gd.deleted) = ToSet(fd.deleted) \cup {n}
    <3> HIDE DEF gd, n
    <3>1. n \in Nat
      BY <1>5 DEF n
    <3> QED
      BY <1>4, <1>6, <2>1, <3>1
  <2> HIDE DEF gd
  <2>3. Knows(p, gd, j)
    BY <1>3, <1>9, <2>1, <2>2 DEF Knows
  <2> QED
    BY <2>3 DEF gd
<1> QED
  BY <1>7, <1>8, <1>9

\* A counter is right before the next line if it was before this one.
LEMMA SideGoesOn ==
    ASSUME NEW p, FilePatch(p), NEW j \in 1 .. Len(p.script), IsShown(p, j), NEW ops, NEW n \in Nat,
           SideLeft(p, j, ops) => n = Upto(p.script, j - 1, ops) + 1
    PROVE  /\ p.script[j].op \in ops => n = Upto(p.script, j, ops)
           /\ SideLeft(p, j + 1, ops) => (IF p.script[j].op \in ops THEN n + 1 ELSE n) = Upto(p.script, j, ops) + 1
<1>1. p.script \in Seq(ScriptLine) /\ Len(p.script) \in Nat
  <2>1. p.script \in Seq(ScriptLine)
    BY DEF FilePatch
  <2> QED
    BY <2>1
<1>2. Upto(p.script, j, ops) = IF p.script[j].op \in ops THEN Upto(p.script, j - 1, ops) + 1
                               ELSE Upto(p.script, j - 1, ops)
  BY <1>1, UptoGoesOn
<1>3. Upto(p.script, j - 1, ops) \in Nat
  <2>1. j - 1 \in 0 .. Len(p.script)
    OBVIOUS
  <2> QED
    BY <1>1, <2>1, UptoGoesOn
<1>4. p.script[j].op \in ops => SideLeft(p, j, ops)
  <2>1. j \in j .. Len(p.script) /\ \A l \in j .. j : l = j
    OBVIOUS
  <2> QED
    BY <2>1 DEF SideLeft
<1>5. SideLeft(p, j + 1, ops) => SideLeft(p, j, ops)
  <2> SUFFICES ASSUME NEW k \in j + 1 .. Len(p.script), p.script[k].op \in ops, \A l \in j + 1 .. k : IsShown(p, l)
               PROVE  SideLeft(p, j, ops)
    BY DEF SideLeft
  <2>1. k \in j .. Len(p.script) /\ \A l \in j .. k : l = j \/ l \in j + 1 .. k
    OBVIOUS
  <2> QED
    BY <2>1 DEF SideLeft
<1> DEFINE a == Upto(p.script, j, ops)
           b == Upto(p.script, j - 1, ops)
<1> HIDE DEF a, b
<1> QED
  BY <1>2, <1>3, <1>4, <1>5 DEF a, b

\* The header of a hunk sets the counters right.
LEMMA HunkCounts ==
    ASSUME NEW p, FilePatch(p), NEW j \in 1 .. Len(p.script), OpensHunk(p, j)
    PROVE  Counts(p, j, Hunk(p, j).old, Hunk(p, j).new)
<1>1. p.script \in Seq(ScriptLine) /\ Len(p.script) \in Nat
  <2>1. p.script \in Seq(ScriptLine)
    BY DEF FilePatch
  <2> QED
    BY <2>1
<1>2. IsShown(p, j)
  BY DEF OpensHunk
<1> DEFINE e == HunkEnd(p, j)
<1>3. e \in j .. Len(p.script) /\ \A k \in j .. Len(p.script) : (\A l \in j .. k : IsShown(p, l)) => k <= e
  BY <1>2, HunkEndIs
<1> HIDE DEF e
<1>4. ASSUME NEW ops, SideLeft(p, j, ops)
      PROVE  SideStart(Upto(p.script, j - 1, ops), Upto(p.script, e, ops)) = Upto(p.script, j - 1, ops) + 1
  <2>1. PICK k \in j .. Len(p.script) : p.script[k].op \in ops /\ \A l \in j .. k : IsShown(p, l)
    BY <1>4 DEF SideLeft
  <2>2. k <= e /\ k \in 1 .. Len(p.script) /\ k \in 0 .. Len(p.script) /\ k - 1 \in 0 .. Len(p.script)
        /\ j - 1 \in 0 .. Len(p.script) /\ e \in 0 .. Len(p.script) /\ j - 1 <= k - 1
    BY <1>3, <2>1
  <2> DEFINE u(i) == Upto(p.script, i, ops)
  <2>3. /\ \A i \in 0 .. Len(p.script) : u(i) \in Nat
        /\ u(k) = u(k - 1) + 1
        /\ \A i, m \in 0 .. Len(p.script) : i <= m => u(i) <= u(m)
    BY <1>1, <2>1, <2>2, UptoGoesOn
  <2> HIDE DEF u
  <2>4. u(j - 1) <= u(k - 1) /\ u(k) <= u(e)
    BY <2>2, <2>3
  <2>5. u(e) > u(j - 1)
    <3>1. u(k) = u(k - 1) + 1 /\ u(j - 1) \in Nat /\ u(k - 1) \in Nat /\ u(k) \in Nat /\ u(e) \in Nat
      BY <2>2, <2>3
    <3> DEFINE a == u(j - 1)
               b == u(k - 1)
               c == u(k)
               d == u(e)
    <3> HIDE DEF a, b, c, d
    <3>2. c = b + 1 /\ a \in Nat /\ b \in Nat /\ c \in Nat /\ d \in Nat /\ a <= b /\ c <= d
      BY <2>4, <3>1 DEF a, b, c, d
    <3>3. d > a
      BY <3>2
    <3> QED
      BY <3>3 DEF a, d
  <2> QED
    BY <2>5 DEF SideStart, u
<1>5. /\ Hunk(p, j).old = SideStart(OldUpto(p.script, j - 1), OldUpto(p.script, e))
      /\ Hunk(p, j).new = SideStart(NewUpto(p.script, j - 1), NewUpto(p.script, e))
  BY DEF Hunk, e
<1> QED
  BY <1>4, <1>5 DEF Counts, OldUpto, NewUpto

-----------------------------------------------------------------------------
(* Where the parser is in the text.                                        *)

InHeader(ps, i, fd, tx) == \E k \in 1 .. 4 : tx = FromHeader(ps, i, k) /\ KnowsHeader(ps[i], fd, k)

InScript(ps, i, fd, tx, ol, nl) ==
    \E j \in 1 .. Len(ps[i].script) + 1 :
       /\ tx = From(ps, i, j)
       /\ IsPlain(ps[i]) => Knows(ps[i], fd, j - 1) /\ (OpensHunk(ps[i], j) \/ Counts(ps[i], j, ol, nl))

AtLine(ps, i, fd, tx, ol, nl) ==
    \E j \in 1 .. Len(ps[i].script) :
       /\ IsShown(ps[i], j) /\ tx = FromLine(ps, i, j)
       /\ IsPlain(ps[i]) => Knows(ps[i], fd, j - 1) /\ Counts(ps[i], j, ol, nl)

AtEnd(ps, i, fd, tx) ==
    /\ tx = FileRest(ps)[i + 1]
    /\ IsPlain(ps[i]) => Knows(ps[i], fd, Len(ps[i].script))

InFile(ps, i, fd, tx, ol, nl) ==
    \/ InHeader(ps, i, fd, tx) \/ InScript(ps, i, fd, tx, ol, nl)
    \/ AtLine(ps, i, fd, tx, ol, nl) \/ AtEnd(ps, i, fd, tx)

\* What there is of each file: a script.
LEMMA ScriptIs ==
    ASSUME NEW ps \in Patches, NEW i \in 1 .. Len(ps)
    PROVE  /\ FilePatch(ps[i]) /\ ps[i].script \in Seq(ScriptLine)
           /\ Len(ps[i].script) \in Nat /\ DOMAIN ps[i].script = 1 .. Len(ps[i].script)
           /\ \A j \in 1 .. Len(ps[i].script) : ps[i].script[j] \in ScriptLine
<1>1. FilePatch(ps[i])
  BY PatchIs
<1>2. ps[i].script \in Seq(ScriptLine)
  BY <1>1 DEF FilePatch
<1> QED
  BY <1>1, <1>2

\* The header goes on with one of its lines that is there.
LEMMA HeaderLineIs ==
    ASSUME NEW ps \in Patches, NEW i \in 1 .. Len(ps), NEW fd, NEW tx, InHeader(ps, i, fd, tx)
    PROVE  \E k \in 1 .. 4 : /\ tx = FromHeader(ps, i, k) /\ KnowsHeader(ps[i], fd, k)
                             /\ k = 1 => ps[i].old = DevNull
                             /\ k = 2 => ps[i].new = DevNull
<1> DEFINE p == ps[i]
           At(k) == tx = FromHeader(ps, i, k) /\ KnowsHeader(p, fd, k)
<1>1. PICK k \in 1 .. 4 : At(k)
  BY DEF InHeader
<1>2. /\ FromHeader(ps, i, 1) = IF p.old = DevNull THEN <<Mark("new file")>> \o FromHeader(ps, i, 2)
                                ELSE FromHeader(ps, i, 2)
      /\ FromHeader(ps, i, 2) = IF p.new = DevNull THEN <<Mark("deleted file")>> \o FromHeader(ps, i, 3)
                                ELSE FromHeader(ps, i, 3)
  BY FromHeaderIs
<1>3. ASSUME At(1), p.old # DevNull PROVE At(2)
  <2>1. KnowsHeader(p, fd, 1) => KnowsHeader(p, fd, 2)
    BY <1>3 DEF KnowsHeader, Tells
  <2>2. FromHeader(ps, i, 1) = FromHeader(ps, i, 2)
    BY <1>2, <1>3
  <2> HIDE DEF p
  <2> QED
    BY <1>3, <2>1, <2>2, Zenon
<1>4. ASSUME At(2), p.new # DevNull PROVE At(3)
  <2>1. KnowsHeader(p, fd, 2) => KnowsHeader(p, fd, 3)
    BY <1>4 DEF KnowsHeader, Tells
  <2>2. FromHeader(ps, i, 2) = FromHeader(ps, i, 3)
    BY <1>2, <1>4
  <2> HIDE DEF p
  <2> QED
    BY <1>4, <2>1, <2>2, Zenon
<1> HIDE DEF At, p
<1>5. \E m \in 1 .. 4 : At(m) /\ (m = 1 => p.old = DevNull) /\ (m = 2 => p.new = DevNull)
  <2>1. 1 \in 1 .. 4 /\ 2 \in 1 .. 4 /\ 3 \in 1 .. 4
    OBVIOUS
  <2>2. CASE k = 1 /\ p.old = DevNull
    BY <1>1, <2>2
  <2>3. CASE k = 1 /\ p.old # DevNull
    <3>1. At(2)
      BY <1>1, <1>3, <2>3
    <3> QED
      BY <1>4, <2>1, <3>1
  <2>4. CASE k = 2
    BY <1>1, <1>4, <2>1, <2>4
  <2>5. CASE k \notin {1, 2}
    BY <1>1, <2>5
  <2> QED
    BY <2>2, <2>3, <2>4, <2>5
<1> QED
  BY <1>5 DEF At, p

\* What one of the lines of the header tells.
LEMMA HeaderTells ==
    ASSUME NEW ps, NEW p, NEW fd \in FileDiffs(ps), NEW k \in 1 .. 4, KnowsHeader(p, fd, k)
    PROVE  /\ k = 1 /\ p.old = DevNull => KnowsHeader(p, AsNew(fd), 2)
           /\ k = 2 /\ p.new = DevNull => KnowsHeader(p, AsDeleted(fd), 3)
           /\ k = 3 => KnowsHeader(p, WithOld(fd, p.old), 4)
           /\ k = 4 => Knows(p, WithNew(fd, p.new), 0)
<1> USE DEF FileDiffs
<1>1. k = 1 /\ p.old = DevNull => KnowsHeader(p, AsNew(fd), 2)
  BY DEF KnowsHeader, Tells, AsNew
<1>2. k = 2 /\ p.new = DevNull => KnowsHeader(p, AsDeleted(fd), 3)
  BY DEF KnowsHeader, Tells, AsDeleted
<1>3. k = 3 => KnowsHeader(p, WithOld(fd, p.old), 4)
  BY DEF KnowsHeader, WithOld
<1>4. ASSUME k = 4 PROVE Knows(p, WithNew(fd, p.new), 0)
  <2> DEFINE gd == WithNew(fd, p.new)
  <2>1. /\ gd.old = p.old /\ gd.new = p.new /\ gd.isNew = (p.old = DevNull) /\ gd.isDeleted = (p.new = DevNull)
        /\ gd.added = <<>> /\ gd.deleted = <<>>
    <3>1. fd.old = p.old /\ Tells(fd.isNew, p.old = DevNull) /\ Tells(fd.isDeleted, p.new = DevNull)
          /\ fd.added = <<>> /\ fd.deleted = <<>>
      BY <1>4 DEF KnowsHeader
    <3>2. fd.isNew = (p.old = DevNull) /\ fd.isDeleted = (p.new = DevNull)
      BY <3>1 DEF Tells
    <3>3. gd.old = fd.old /\ gd.new = p.new /\ gd.isNew = fd.isNew /\ gd.isDeleted = fd.isDeleted
          /\ gd.added = fd.added /\ gd.deleted = fd.deleted
      BY DEF WithNew
    <3> HIDE DEF gd
    <3> QED
      BY <3>1, <3>2, <3>3
  <2>2. ToSet(<<>>) = {} /\ Added(p, 0) = {} /\ Deleted(p, 0) = {}
    BY DEF ToSet, Added, Deleted
  <2> HIDE DEF gd
  <2>3. Knows(p, gd, 0)
    BY <2>1, <2>2 DEF Knows
  <2> QED
    BY <2>3 DEF gd
<1> QED
  BY <1>1, <1>2, <1>3, <1>4

\* The first line of a script opens a hunk or none is open.
LEMMA ScriptBegins ==
    ASSUME NEW p, NEW ol, NEW nl
    PROVE  OpensHunk(p, 1) \/ Counts(p, 1, ol, nl)
<1>1. ASSUME ~ IsShown(p, 1), NEW ops PROVE ~ SideLeft(p, 1, ops)
  BY <1>1 DEF SideLeft
<1>2. IsShown(p, 1) => OpensHunk(p, 1)
  BY DEF OpensHunk
<1> QED
  BY <1>1, <1>2 DEF Counts

\* The lines that are written of a header.
LEMMA HeaderLinesAre ==
    ASSUME NEW ps \in Patches, NEW i \in 1 .. Len(ps)
    PROVE  /\ {FirstLine(ps[i]), Mark("new file"), Mark("deleted file"), OldName(ps[i]), NewName(ps[i]),
               Mark("\\")} \subseteq TextLine(ps)
           /\ FirstLine(ps[i]).t = "diff" /\ Mark("new file").t = "new file"
           /\ Mark("deleted file").t = "deleted file" /\ Mark("\\").t = "\\"
           /\ OldName(ps[i]).t = "---" /\ OldName(ps[i]).path = ps[i].old
           /\ NewName(ps[i]).t = "+++" /\ NewName(ps[i]).path = ps[i].new
<1> DEFINE p == ps[i]
<1>1. i \in DOMAIN ps
  BY PatchIs
<1>2. {p.old, p.new, DevNull} \subseteq Paths(ps)
  BY <1>1 DEF Paths
<1> HIDE DEF p
<1>3. FirstLine(p) \in [t : {"diff"}, old : Paths(ps), new : Paths(ps)] /\ FirstLine(p).t = "diff"
  BY <1>2 DEF FirstLine
<1>4. /\ OldName(p) \in [t : {"---", "+++"}, path : Paths(ps)] /\ OldName(p).t = "---" /\ OldName(p).path = p.old
      /\ NewName(p) \in [t : {"---", "+++"}, path : Paths(ps)] /\ NewName(p).t = "+++" /\ NewName(p).path = p.new
  BY <1>2 DEF OldName, NewName
<1>5. {Mark("\\"), Mark("new file"), Mark("deleted file")}
         \subseteq {Mark(t) : t \in {"warning", "new file", "deleted file", " ", "", "-", "+", "\\"}}
  OBVIOUS
<1>6. \A t : Mark(t).t = t
  BY DEF Mark
<1> QED
  BY <1>3, <1>4, <1>5, <1>6 DEF TextLine, p

\* Reading a line of the header that is there.
LEMMA HeaderLineGoesOn ==
    ASSUME NEW ps \in Patches, NEW i \in 1 .. Len(ps), NEW fd \in FileDiffs(ps), current = <<fd>>,
           oldLine \in Nat, newLine \in Nat, ReadLine,
           NEW l \in TextLine(ps), l.t \in {"new file", "deleted file", "---", "+++"},
           NEW rest \in Seq(TextLine(ps)), text = <<l>> \o rest
    PROVE  /\ UNCHANGED <<patch, diffs, oldLine, newLine>> /\ text' = rest
           /\ \E gd \in FileDiffs(ps) :
                 /\ current' = <<gd>>
                 /\ l.t = "new file" => gd = AsNew(fd)
                 /\ l.t = "deleted file" => gd = AsDeleted(fd)
                 /\ l.t = "---" => gd = WithOld(fd, l.path)
                 /\ l.t = "+++" => gd = WithNew(fd, l.path)
<1>1. l.t \notin {"diff", "warning", "@@", "-", "+", " ", ""}
  OBVIOUS
<1>2. /\ text' = rest /\ UNCHANGED <<patch, diffs, oldLine, newLine>>
      /\ \E gd \in FileDiffs(ps) : current' = <<gd>> /\ Effect(l, fd, gd)
  BY <1>1, LineIsRead
<1>3. PICK gd \in FileDiffs(ps) : current' = <<gd>> /\ Effect(l, fd, gd)
  BY <1>2
<1>4. /\ l.t = "new file" => gd = AsNew(fd)
      /\ l.t = "deleted file" => gd = AsDeleted(fd)
      /\ l.t = "---" => gd = WithOld(fd, l.path)
      /\ l.t = "+++" => gd = WithNew(fd, l.path)
  <2>1. ASSUME l.t = "new file" PROVE gd = AsNew(fd)
    BY <1>3, <2>1, Zenon DEF Effect
  <2>2. ASSUME l.t = "deleted file" PROVE gd = AsDeleted(fd)
    BY <1>3, <2>2 DEF Effect
  <2>3. ASSUME l.t = "---" PROVE gd = WithOld(fd, l.path)
    BY <1>3, <2>3 DEF Effect
  <2>4. ASSUME l.t = "+++" PROVE gd = WithNew(fd, l.path)
    BY <1>3, <2>4 DEF Effect
  <2> QED
    BY <2>1, <2>2, <2>3, <2>4
<1> QED
  BY <1>2, <1>3, <1>4

\* Reading a line of the header.
LEMMA HeaderGoesOn ==
    ASSUME NEW ps \in Patches, NEW i \in 1 .. Len(ps), NEW fd \in FileDiffs(ps), current = <<fd>>,
           oldLine \in Nat, newLine \in Nat, InHeader(ps, i, fd, text), ReadLine
    PROVE  /\ UNCHANGED <<patch, diffs, oldLine, newLine>>
           /\ \E gd \in FileDiffs(ps) : current' = <<gd>> /\ InFile(ps, i, gd, text', oldLine', newLine')
<1> DEFINE p == ps[i]
<1>1. PICK k \in 1 .. 4 : /\ text = FromHeader(ps, i, k) /\ KnowsHeader(p, fd, k)
                          /\ k = 1 => p.old = DevNull
                          /\ k = 2 => p.new = DevNull
  BY HeaderLineIs
<1>2. /\ FromHeader(ps, i, 1) = IF p.old = DevNull THEN <<Mark("new file")>> \o FromHeader(ps, i, 2)
                                ELSE FromHeader(ps, i, 2)
      /\ FromHeader(ps, i, 2) = IF p.new = DevNull THEN <<Mark("deleted file")>> \o FromHeader(ps, i, 3)
                                ELSE FromHeader(ps, i, 3)
      /\ FromHeader(ps, i, 3) = <<OldName(p)>> \o FromHeader(ps, i, 4)
      /\ FromHeader(ps, i, 4) = <<NewName(p)>> \o From(ps, i, 1)
      /\ \A m \in 1 .. 4 : FromHeader(ps, i, m) \in Seq(TextLine(ps))
  BY FromHeaderIs
<1>3. /\ {FirstLine(p), Mark("new file"), Mark("deleted file"), OldName(p), NewName(p), Mark("\\")} \subseteq TextLine(ps)
      /\ Mark("new file").t = "new file" /\ Mark("deleted file").t = "deleted file"
      /\ OldName(p).t = "---" /\ OldName(p).path = p.old
      /\ NewName(p).t = "+++" /\ NewName(p).path = p.new
  BY HeaderLinesAre
<1>4. 2 \in 1 .. 4 /\ 3 \in 1 .. 4 /\ 4 \in 1 .. 4 /\ (k = 1 \/ k = 2 \/ k = 3 \/ k = 4)
  OBVIOUS
<1>5. 1 \in 1 .. Len(p.script) + 1 /\ 1 - 1 = 0
  BY ScriptIs
<1>6. From(ps, i, 1) \in Seq(TextLine(ps))
  BY <1>5, FromIs
<1>7. /\ k = 1 => KnowsHeader(p, AsNew(fd), 2)
      /\ k = 2 => KnowsHeader(p, AsDeleted(fd), 3)
      /\ k = 3 => KnowsHeader(p, WithOld(fd, p.old), 4)
      /\ k = 4 => Knows(p, WithNew(fd, p.new), 0)
  BY <1>1, HeaderTells
<1> HIDE DEF p
<1>8. CASE k = 1
  <2> DEFINE l == Mark("new file")
             rest == FromHeader(ps, i, 2)
  <2>1. l \in TextLine(ps) /\ l.t = "new file" /\ rest \in Seq(TextLine(ps)) /\ text = <<l>> \o rest
    BY <1>1, <1>2, <1>3, <1>4, <1>8
  <2> HIDE DEF l, rest
  <2>2. /\ UNCHANGED <<patch, diffs, oldLine, newLine>> /\ text' = rest
        /\ \E gd \in FileDiffs(ps) : current' = <<gd>> /\ gd = AsNew(fd)
    BY <2>1, HeaderLineGoesOn
  <2>3. PICK gd \in FileDiffs(ps) : current' = <<gd>> /\ gd = AsNew(fd)
    BY <2>2
  <2>4. KnowsHeader(p, gd, 2)
    BY <1>7, <1>8, <2>3
  <2>5. InHeader(ps, i, gd, text')
    BY <1>4, <2>2, <2>4 DEF InHeader, p, rest
  <2> QED
    BY <2>2, <2>3, <2>5 DEF InFile
<1>9. CASE k = 2
  <2> DEFINE l == Mark("deleted file")
             rest == FromHeader(ps, i, 3)
  <2>1. l \in TextLine(ps) /\ l.t = "deleted file" /\ rest \in Seq(TextLine(ps)) /\ text = <<l>> \o rest
    BY <1>1, <1>2, <1>3, <1>4, <1>9
  <2> HIDE DEF l, rest
  <2>2. /\ UNCHANGED <<patch, diffs, oldLine, newLine>> /\ text' = rest
        /\ \E gd \in FileDiffs(ps) : current' = <<gd>> /\ gd = AsDeleted(fd)
    BY <2>1, HeaderLineGoesOn
  <2>3. PICK gd \in FileDiffs(ps) : current' = <<gd>> /\ gd = AsDeleted(fd)
    BY <2>2
  <2>4. KnowsHeader(p, gd, 3)
    BY <1>7, <1>9, <2>3
  <2>5. InHeader(ps, i, gd, text')
    BY <1>4, <2>2, <2>4 DEF InHeader, p, rest
  <2> QED
    BY <2>2, <2>3, <2>5 DEF InFile
<1>10. CASE k = 3
  <2> DEFINE l == OldName(p)
             rest == FromHeader(ps, i, 4)
  <2>1. l \in TextLine(ps) /\ l.t = "---" /\ l.path = p.old /\ rest \in Seq(TextLine(ps)) /\ text = <<l>> \o rest
    BY <1>1, <1>2, <1>3, <1>4, <1>10
  <2> HIDE DEF l, rest
  <2>2. /\ UNCHANGED <<patch, diffs, oldLine, newLine>> /\ text' = rest
        /\ \E gd \in FileDiffs(ps) : current' = <<gd>> /\ gd = WithOld(fd, l.path)
    BY <2>1, HeaderLineGoesOn
  <2>3. PICK gd \in FileDiffs(ps) : current' = <<gd>> /\ gd = WithOld(fd, l.path)
    BY <2>2
  <2>4. KnowsHeader(p, gd, 4)
    BY <1>7, <1>10, <2>1, <2>3
  <2>5. InHeader(ps, i, gd, text')
    BY <1>4, <2>2, <2>4 DEF InHeader, p, rest
  <2> QED
    BY <2>2, <2>3, <2>5 DEF InFile
<1>11. CASE k = 4
  <2> DEFINE l == NewName(p)
             rest == From(ps, i, 1)
  <2>1. l \in TextLine(ps) /\ l.t = "+++" /\ l.path = p.new /\ rest \in Seq(TextLine(ps)) /\ text = <<l>> \o rest
    BY <1>1, <1>2, <1>3, <1>4, <1>6, <1>11
  <2> HIDE DEF l, rest
  <2>2. /\ UNCHANGED <<patch, diffs, oldLine, newLine>> /\ text' = rest
        /\ \E gd \in FileDiffs(ps) : current' = <<gd>> /\ gd = WithNew(fd, l.path)
    BY <2>1, HeaderLineGoesOn
  <2>3. PICK gd \in FileDiffs(ps) : current' = <<gd>> /\ gd = WithNew(fd, l.path)
    BY <2>2
  <2>4. Knows(p, gd, 0)
    BY <1>7, <1>11, <2>1, <2>3
  <2>5. OpensHunk(p, 1) \/ Counts(p, 1, oldLine', newLine')
    BY ScriptBegins
  <2>6. InScript(ps, i, gd, text', oldLine', newLine')
    BY <1>5, <2>2, <2>4, <2>5 DEF InScript, p, rest
  <2> QED
    BY <2>2, <2>3, <2>6 DEF InFile
<1> QED
  BY <1>4, <1>8, <1>9, <1>10, <1>11

\* Reading a line of the script.
LEMMA LineGoesOn ==
    ASSUME NEW ps \in Patches, NEW i \in 1 .. Len(ps), NEW fd \in FileDiffs(ps), current = <<fd>>,
           oldLine \in Nat, newLine \in Nat, AtLine(ps, i, fd, text, oldLine, newLine), ReadLine
    PROVE  /\ UNCHANGED <<patch, diffs>> /\ oldLine' \in Nat /\ newLine' \in Nat
           /\ \E gd \in FileDiffs(ps) : current' = <<gd>> /\ InFile(ps, i, gd, text', oldLine', newLine')
<1> DEFINE p == ps[i]
           n == Len(p.script)
<1>1. PICK j \in 1 .. n : /\ IsShown(p, j) /\ text = FromLine(ps, i, j)
                          /\ IsPlain(p) => Knows(p, fd, j - 1) /\ Counts(p, j, oldLine, newLine)
  BY DEF AtLine
<1> DEFINE l == Line(p.script[j])
           rest == From(ps, i, j + 1)
           op == p.script[j].op
<1>2. FilePatch(p) /\ n \in Nat /\ p.script[j] \in ScriptLine /\ DOMAIN p.script = 1 .. n
  BY ScriptIs
<1>3. /\ l \in TextLine(ps) /\ l.t \in {" ", "", "-", "+", "---", "+++"}
      /\ p.script[j].look # "header" =>
            /\ op = "keep" => l.t \in {" ", ""}
            /\ op = "del" => l.t = "-"
            /\ op = "add" => l.t = "+"
  BY <1>2, LineIs
<1>4. op \in {"keep", "add", "del"} /\ (IsPlain(p) => p.script[j].look # "header")
  <2>1. op \in {"keep", "add", "del"}
    BY <1>2 DEF ScriptLine
  <2>2. IsPlain(p) => p.script[j].look # "header"
    BY <1>2 DEF IsPlain
  <2> QED
    BY <2>1, <2>2
<1>5. rest \in Seq(TextLine(ps)) /\ j + 1 \in 1 .. n + 1 /\ text = <<l>> \o rest
  <2>1. j + 1 \in 1 .. n + 1
    BY <1>2
  <2>2. rest \in Seq(TextLine(ps))
    BY <2>1, FromIs
  <2> QED
    BY <1>1, <2>1, <2>2, Zenon DEF FromLine
<1> HIDE DEF l, rest, n, p, op
<1>6. /\ text' = rest /\ UNCHANGED <<patch, diffs>>
      /\ \E gd \in FileDiffs(ps) : current' = <<gd>> /\ Effect(l, fd, gd)
      /\ oldLine' = IF l.t \in {"-", " ", ""} THEN oldLine + 1 ELSE oldLine
      /\ newLine' = IF l.t \in {"+", " ", ""} THEN newLine + 1 ELSE newLine
  <2>1. l.t \notin {"diff", "warning", "@@"}
    BY <1>3
  <2> QED
    BY <1>3, <1>5, <2>1, LineIsRead
<1>7. PICK gd \in FileDiffs(ps) : current' = <<gd>> /\ Effect(l, fd, gd)
  BY <1>6
<1>8. oldLine' \in Nat /\ newLine' \in Nat
  <2>1. oldLine' \in {oldLine, oldLine + 1} /\ newLine' \in {newLine, newLine + 1}
    BY <1>6, Zenon
  <2> QED
    BY <2>1
<1>9. ASSUME IsPlain(p)
      PROVE  Knows(p, gd, j) /\ Counts(p, j + 1, oldLine', newLine')
  <2>1. Knows(p, fd, j - 1) /\ Counts(p, j, oldLine, newLine)
    BY <1>1, <1>9
  <2>2. /\ op = "keep" => l.t \in {" ", ""}
        /\ op = "del" => l.t = "-"
        /\ op = "add" => l.t = "+"
    BY <1>3, <1>4, <1>9
  <2>3. /\ oldLine' = IF op \in {"keep", "del"} THEN oldLine + 1 ELSE oldLine
        /\ newLine' = IF op \in {"keep", "add"} THEN newLine + 1 ELSE newLine
    BY <1>4, <1>6, <2>2
  <2>4. /\ SideLeft(p, j, {"keep", "del"}) => oldLine = Upto(p.script, j - 1, {"keep", "del"}) + 1
        /\ SideLeft(p, j, {"keep", "add"}) => newLine = Upto(p.script, j - 1, {"keep", "add"}) + 1
    BY <2>1, Zenon DEF Counts, OldUpto, NewUpto
  <2>5. /\ op \in {"keep", "del"} => oldLine = Upto(p.script, j, {"keep", "del"})
        /\ SideLeft(p, j + 1, {"keep", "del"}) =>
              (IF op \in {"keep", "del"} THEN oldLine + 1 ELSE oldLine) = Upto(p.script, j, {"keep", "del"}) + 1
    <3> DEFINE ops == {"keep", "del"}
    <3>1. j \in 1 .. Len(p.script) /\ (SideLeft(p, j, ops) => oldLine = Upto(p.script, j - 1, ops) + 1)
      BY <2>4 DEF n
    <3> HIDE DEF ops
    <3> QED
      <4>1. oldLine \in Nat /\ newLine \in Nat /\ FilePatch(p) /\ IsShown(p, j)
        BY <1>1, <1>2
      <4>2. /\ op \in ops => oldLine = Upto(p.script, j, ops)
            /\ SideLeft(p, j + 1, ops) => (IF op \in ops THEN oldLine + 1 ELSE oldLine) = Upto(p.script, j, ops) + 1
        BY <3>1, <4>1, SideGoesOn DEF op
      <4> QED
        BY <4>2 DEF ops
  <2>6. /\ op \in {"keep", "add"} => newLine = Upto(p.script, j, {"keep", "add"})
        /\ SideLeft(p, j + 1, {"keep", "add"}) =>
              (IF op \in {"keep", "add"} THEN newLine + 1 ELSE newLine) = Upto(p.script, j, {"keep", "add"}) + 1
    <3> DEFINE ops == {"keep", "add"}
    <3>1. j \in 1 .. Len(p.script) /\ (SideLeft(p, j, ops) => newLine = Upto(p.script, j - 1, ops) + 1)
      BY <2>4 DEF n
    <3> HIDE DEF ops
    <3> QED
      <4>1. oldLine \in Nat /\ newLine \in Nat /\ FilePatch(p) /\ IsShown(p, j)
        BY <1>1, <1>2
      <4>2. /\ op \in ops => newLine = Upto(p.script, j, ops)
            /\ SideLeft(p, j + 1, ops) => (IF op \in ops THEN newLine + 1 ELSE newLine) = Upto(p.script, j, ops) + 1
        BY <3>1, <4>1, SideGoesOn DEF op
      <4> QED
        BY <4>2 DEF ops
  <2>7. Counts(p, j + 1, oldLine', newLine')
    <3>1. j + 1 - 1 = j
      OBVIOUS
    <3> QED
      BY <2>3, <2>5, <2>6, <3>1 DEF Counts, OldUpto, NewUpto
  <2>8. /\ op = "keep" => Knows(p, fd, j)
        /\ op = "add" => Knows(p, WithAdded(fd, NewUpto(p.script, j)), j)
        /\ op = "del" => Knows(p, WithDeleted(fd, OldUpto(p.script, j)), j)
    BY <1>2, <2>1, KnowsOneMore DEF op, n
  <2>9. /\ op = "keep" => gd = fd
        /\ op = "add" => gd = WithAdded(fd, newLine)
        /\ op = "del" => gd = WithDeleted(fd, oldLine)
    <3>1. ASSUME op = "keep" PROVE gd = fd
      BY <1>7, <2>2, <3>1 DEF Effect
    <3>2. ASSUME op = "add" PROVE gd = WithAdded(fd, newLine)
      BY <1>7, <2>2, <3>2 DEF Effect
    <3>3. ASSUME op = "del" PROVE gd = WithDeleted(fd, oldLine)
      BY <1>7, <2>2, <3>3 DEF Effect
    <3> QED
      BY <3>1, <3>2, <3>3
  <2>10. Knows(p, gd, j)
    BY <1>4, <2>5, <2>6, <2>8, <2>9 DEF OldUpto, NewUpto
  <2> QED
    BY <2>7, <2>10
<1>10. InScript(ps, i, gd, text', oldLine', newLine')
  <2>1. j + 1 - 1 = j
    OBVIOUS
  <2>2. text' = From(ps, i, j + 1)
    BY <1>6 DEF rest
  <2>3. IsPlain(p) => Knows(p, gd, j + 1 - 1)
                      /\ (OpensHunk(p, j + 1) \/ Counts(p, j + 1, oldLine', newLine'))
    BY <1>9, <2>1, Zenon
  <2>4. \E k \in 1 .. n + 1 :
           /\ text' = From(ps, i, k)
           /\ IsPlain(p) => Knows(p, gd, k - 1) /\ (OpensHunk(p, k) \/ Counts(p, k, oldLine', newLine'))
    BY <1>5, <2>2, <2>3
  <2> QED
    BY <2>4 DEF InScript, p, n
<1> QED
  BY <1>6, <1>7, <1>8, <1>10 DEF InFile

\* The next line of the script that is written is one that is shown, or there is none.
LEMMA ScriptStands ==
    ASSUME NEW ps \in Patches, NEW i \in 1 .. Len(ps), NEW fd, NEW tx, NEW ol, NEW nl,
           InScript(ps, i, fd, tx, ol, nl)
    PROVE  LET p == ps[i]
           IN \E j \in 1 .. Len(p.script) + 1 :
                 /\ tx = From(ps, i, j)
                 /\ IsPlain(p) => Knows(p, fd, j - 1) /\ (OpensHunk(p, j) \/ Counts(p, j, ol, nl))
                 /\ j = Len(p.script) + 1 \/ IsShown(p, j)
<1> DEFINE p == ps[i]
           n == Len(p.script)
           At(j) == /\ tx = From(ps, i, j)
                    /\ IsPlain(p) => Knows(p, fd, j - 1) /\ (OpensHunk(p, j) \/ Counts(p, j, ol, nl))
           T == {j \in 1 .. n + 1 : At(j)}
<1>1. n \in Nat /\ FilePatch(p)
  BY ScriptIs
<1>2. T \in SUBSET (0 .. n + 1) /\ T # {} /\ n + 1 \in Nat
  BY <1>1 DEF InScript
<1> HIDE DEF T
<1>3. PICK j \in T : \A k \in T : k <= j
  BY <1>2, GreatestNumber
<1>4. j \in 1 .. n + 1 /\ At(j)
  BY DEF T
<1>5. ASSUME j # n + 1, ~ IsShown(p, j) PROVE FALSE
  <2>1. j \in 1 .. n /\ j + 1 \in 1 .. n + 1 /\ j + 1 - 1 = j /\ j + 1 # 1
    BY <1>1, <1>4, <1>5
  <2>2. From(ps, i, j) = From(ps, i, j + 1)
    BY <1>5, <2>1, FromIs
  <2>3. p.script[j].op = "keep"
    BY <1>1, <1>5, <2>1, WrittenIs
  <2>4. OpensHunk(p, j + 1) \/ Counts(p, j + 1, ol, nl)
    <3>1. CASE IsShown(p, j + 1)
      BY <1>5, <2>1, <3>1 DEF OpensHunk
    <3>2. CASE ~ IsShown(p, j + 1)
      <4>1. \A ops : ~ SideLeft(p, j + 1, ops)
        <5> SUFFICES ASSUME NEW ops, NEW k \in j + 1 .. n, \A l \in j + 1 .. k : IsShown(p, l) PROVE FALSE
          BY DEF SideLeft
        <5>1. j + 1 \in j + 1 .. k
          BY <2>1
        <5> QED
          BY <3>2, <5>1
      <4> QED
        BY <4>1 DEF Counts
    <3> QED
      BY <3>1, <3>2
  <2>5. IsPlain(p) => Knows(p, fd, j)
    <3>1. /\ \A l : l \in 1 .. j <=> l \in 1 .. j - 1 \/ l = j
      BY <2>1
    <3>2. Added(p, j) = Added(p, j - 1) /\ Deleted(p, j) = Deleted(p, j - 1)
      BY <2>3, <3>1 DEF Added, Deleted
    <3> QED
      BY <1>4, <3>2 DEF Knows
  <2>6. At(j + 1)
    BY <1>4, <2>1, <2>2, <2>4, <2>5
  <2>7. j + 1 \in T
    BY <2>1, <2>6 DEF T
  <2>8. j + 1 <= j
    BY <1>3, <2>7
  <2> QED
    BY <2>1, <2>8
<1> QED
  BY <1>4, <1>5

\* Reading what is written of a script.
LEMMA ScriptGoesOn ==
    ASSUME NEW ps \in Patches, NEW i \in 1 .. Len(ps), NEW fd \in FileDiffs(ps), current = <<fd>>,
           oldLine \in Nat, newLine \in Nat, InScript(ps, i, fd, text, oldLine, newLine), ReadLine
    PROVE  /\ UNCHANGED <<patch, diffs>> /\ oldLine' \in Nat /\ newLine' \in Nat
           /\ \E gd \in FileDiffs(ps) : current' = <<gd>> /\ InFile(ps, i, gd, text', oldLine', newLine')
<1> DEFINE p == ps[i]
           n == Len(p.script)
<1>1. PICK j \in 1 .. n + 1 :
                 /\ text = From(ps, i, j)
                 /\ IsPlain(p) => Knows(p, fd, j - 1) /\ (OpensHunk(p, j) \/ Counts(p, j, oldLine, newLine))
                 /\ j = n + 1 \/ IsShown(p, j)
  BY ScriptStands
<1>2. n \in Nat /\ FilePatch(p)
  BY ScriptIs
<1>3. CASE j = n + 1
  <2> DEFINE l == Mark("\\")
             rest == FileRest(ps)[i + 1]
  <2>1. text = <<l>> \o rest
    BY <1>1, <1>3, FromIs
  <2>2. rest \in Seq(TextLine(ps))
    <3>1. i + 1 \in 1 .. Len(ps) + 1
      BY PatchIs
    <3> QED
      BY <3>1, FileRestIs
  <2>3. l \in TextLine(ps) /\ l.t = "\\"
    BY HeaderLinesAre
  <2> HIDE DEF l, rest
  <2>4. l.t \notin {"diff", "warning", "@@", "-", "+", " ", "", "new file", "deleted file", "---", "+++"}
    BY <2>3
  <2>5. /\ text' = rest /\ UNCHANGED <<patch, diffs, oldLine, newLine>>
        /\ \E gd \in FileDiffs(ps) : current' = <<gd>> /\ Effect(l, fd, gd)
    BY <2>1, <2>2, <2>3, <2>4, LineIsRead
  <2>6. current' = <<fd>>
    BY <2>4, <2>5 DEF Effect
  <2>7. AtEnd(ps, i, fd, text')
    <3>1. j - 1 = n
      BY <1>2, <1>3
    <3> QED
      BY <1>1, <2>5, <3>1 DEF AtEnd, rest
  <2> QED
    BY <2>5, <2>6, <2>7 DEF InFile
<1>4. CASE j # n + 1 /\ OpensHunk(p, j)
  <2> DEFINE l == Hunk(p, j)
             rest == FromLine(ps, i, j)
  <2>1. j \in 1 .. n
    BY <1>2, <1>4
  <2>2. text = <<l>> \o rest /\ rest \in Seq(TextLine(ps))
    BY <1>1, <1>4, <2>1, FromIs
  <2>3. l \in TextLine(ps) /\ l.old \in Nat /\ l.new \in Nat
    BY <1>2, <1>4, <2>1, WrittenIs
  <2>4. l.t = "@@"
    BY DEF Hunk
  <2>5. Counts(p, j, l.old, l.new)
    BY <1>2, <1>4, <2>1, HunkCounts
  <2> HIDE DEF l, rest
  <2>6. l.t \notin {"diff", "warning", "-", "+", " ", "", "new file", "deleted file", "---", "+++"}
    BY <2>4
  <2>7. /\ text' = rest /\ UNCHANGED <<patch, diffs>> /\ oldLine' = l.old /\ newLine' = l.new
        /\ \E gd \in FileDiffs(ps) : current' = <<gd>> /\ Effect(l, fd, gd)
    <3>1. l.t \notin {"diff", "warning"}
      BY <2>4
    <3>2. /\ text' = rest /\ UNCHANGED <<patch, diffs>>
          /\ \E gd \in FileDiffs(ps) : current' = <<gd>> /\ Effect(l, fd, gd)
          /\ oldLine' = IF l.t = "@@" THEN l.old ELSE IF l.t \in {"-", " ", ""} THEN oldLine + 1 ELSE oldLine
          /\ newLine' = IF l.t = "@@" THEN l.new ELSE IF l.t \in {"+", " ", ""} THEN newLine + 1 ELSE newLine
      BY <2>2, <2>3, <3>1, LineIsRead
    <3> QED
      BY <2>4, <3>2, Zenon
  <2>8. current' = <<fd>>
    BY <2>6, <2>7 DEF Effect
  <2>9. AtLine(ps, i, fd, text', oldLine', newLine')
    <3>1. IsPlain(p) => Knows(p, fd, j - 1) /\ Counts(p, j, oldLine', newLine')
      BY <1>1, <2>5, <2>7
    <3>2. IsShown(p, j) /\ text' = FromLine(ps, i, j)
      BY <1>1, <1>4, <2>7 DEF rest
    <3> QED
      BY <2>1, <3>1, <3>2 DEF AtLine
  <2> QED
    BY <2>3, <2>7, <2>8, <2>9 DEF InFile
<1>5. CASE j # n + 1 /\ ~ OpensHunk(p, j)
  <2>1. j \in 1 .. n /\ IsShown(p, j)
    BY <1>1, <1>2, <1>5
  <2>2. text = FromLine(ps, i, j)
    BY <1>1, <1>5, <2>1, FromIs
  <2>3. IsPlain(p) => Knows(p, fd, j - 1) /\ Counts(p, j, oldLine, newLine)
    BY <1>1, <1>5
  <2>4. AtLine(ps, i, fd, text, oldLine, newLine)
    BY <2>1, <2>2, <2>3 DEF AtLine
  <2> QED
    BY <2>4, LineGoesOn
<1> QED
  BY <1>3, <1>4, <1>5

-----------------------------------------------------------------------------
(* What is reported of each file.                                          *)

Reported(fd) == [fd EXCEPT !.ranges = Ranges(fd.added)]

\* The lines of a FileDiff are those of the patch of its file.
Reports(p, d) ==
    /\ PathOf(d) = IF p.new = DevNull THEN p.old ELSE p.new
    /\ d.isNew = (p.old = DevNull) /\ d.isDeleted = (p.new = DevNull)
    /\ ToSet(d.added) = AddedBy(p) /\ Covered(d.ranges) = AddedBy(p)
    /\ ToSet(d.deleted) = DeletedBy(p)

\* A FileDiff with its ranges.
LEMMA ReportedIs ==
    ASSUME NEW ps, NEW fd \in FileDiffs(ps)
    PROVE  LET d == Reported(fd)
           IN /\ d \in FileDiffs(ps)
              /\ d.old = fd.old /\ d.new = fd.new /\ d.isNew = fd.isNew /\ d.isDeleted = fd.isDeleted
              /\ d.added = fd.added /\ d.deleted = fd.deleted /\ d.ranges = Ranges(fd.added)
<1> DEFINE r == Ranges(fd.added)
<1>1. r \in Seq(LineRange)
  <2>1. fd.added \in Seq(Int)
    <3>1. fd.added \in Seq(Nat)
      BY DEF FileDiffs
    <3> QED
      BY <3>1
  <2> QED
    BY <2>1, RangesCover
<1> HIDE DEF r
<1>2. Reported(fd) = [fd EXCEPT !.ranges = r]
  BY DEF Reported, r
<1> QED
  BY <1>1, <1>2 DEF FileDiffs, r

\* What is known at the end of a file is what is reported of it.
LEMMA KnownIsReported ==
    ASSUME NEW ps \in Patches, NEW i \in 1 .. Len(ps), NEW fd \in FileDiffs(ps),
           Knows(ps[i], fd, Len(ps[i].script))
    PROVE  Reports(ps[i], Reported(fd))
<1> DEFINE p == ps[i]
           d == Reported(fd)
<1>1. FilePatch(p) /\ DOMAIN p.script = 1 .. Len(p.script)
  BY ScriptIs
<1>2. Added(p, Len(p.script)) = AddedBy(p) /\ Deleted(p, Len(p.script)) = DeletedBy(p)
  BY <1>1 DEF Added, Deleted, AddedBy, DeletedBy
<1>3. fd.added \in Seq(Int)
  <2>1. fd.added \in Seq(Nat)
    BY DEF FileDiffs
  <2> QED
    BY <2>1
<1>4. Covered(Ranges(fd.added)) = ToSet(fd.added)
  BY <1>3, RangesCover
<1>5. /\ d.old = fd.old /\ d.new = fd.new /\ d.isNew = fd.isNew /\ d.isDeleted = fd.isDeleted
      /\ d.added = fd.added /\ d.deleted = fd.deleted /\ d.ranges = Ranges(fd.added)
  BY ReportedIs
<1> HIDE DEF d
<1>6. /\ fd.old = p.old /\ fd.new = p.new
      /\ fd.isNew = (p.old = DevNull) /\ fd.isDeleted = (p.new = DevNull)
      /\ ToSet(fd.added) = AddedBy(p) /\ ToSet(fd.deleted) = DeletedBy(p)
  BY <1>2, Zenon DEF Knows
<1>7. PathOf(d) = IF p.new = DevNull THEN p.old ELSE p.new
  BY <1>1, <1>5, <1>6 DEF PathOf, FilePatch
<1>8. d.isNew = (p.old = DevNull) /\ d.isDeleted = (p.new = DevNull)
  BY <1>5, <1>6, Zenon
<1>9. ToSet(d.added) = AddedBy(p) /\ Covered(d.ranges) = AddedBy(p) /\ ToSet(d.deleted) = DeletedBy(p)
  BY <1>4, <1>5, <1>6, Zenon
<1> QED
  BY <1>7, <1>8, <1>9, Zenon DEF Reports, d, p

-----------------------------------------------------------------------------
(* From the first line to the last.                                        *)

BeforeFiles(ps, tx, cur, ds) ==
    /\ cur = <<>> /\ ds = <<>>
    /\ tx = <<Mark("warning")>> \o FileRest(ps)[1] \/ tx = FileRest(ps)[1]

WithinFile(ps, tx, cur, ds, ol, nl) ==
    \E i \in 1 .. Len(ps), fd \in FileDiffs(ps) :
       cur = <<fd>> /\ Len(ds) = i - 1 /\ InFile(ps, i, fd, tx, ol, nl)

AfterFiles(ps, tx, cur, ds) == cur = <<>> /\ tx = <<>> /\ Len(ds) = Len(ps)

ReportsAll(ps, ds) == \A k \in 1 .. Len(ds) : k \in 1 .. Len(ps) /\ (IsPlain(ps[k]) => Reports(ps[k], ds[k]))

Reading(ps, tx, cur, ds, ol, nl) ==
    /\ ps \in Patches /\ ol \in Nat /\ nl \in Nat /\ ds \in Seq(FileDiffs(ps))
    /\ ReportsAll(ps, ds)
    /\ BeforeFiles(ps, tx, cur, ds) \/ WithinFile(ps, tx, cur, ds, ol, nl) \/ AfterFiles(ps, tx, cur, ds)

\* What the parser has read of the diff, and what it knows.
ReadingInv == Reading(patch, text, current, diffs, oldLine, newLine)

\* A file that is complete is reported.
LEMMA CompleteReports ==
    ASSUME ReadingInv, NEW i \in 1 .. Len(patch), NEW fd \in FileDiffs(patch), current = <<fd>>,
           Len(diffs) = i - 1, AtEnd(patch, i, fd, text)
    PROVE  LET ds == diffs \o Complete
           IN ds \in Seq(FileDiffs(patch)) /\ Len(ds) = i /\ ReportsAll(patch, ds)
<1> DEFINE d == Reported(fd)
           ds == diffs \o Complete
<1>1. patch \in Patches /\ diffs \in Seq(FileDiffs(patch)) /\ ReportsAll(patch, diffs)
  BY Zenon DEF ReadingInv, Reading
<1>2. Complete = <<d>>
  BY DEF Complete, Reported
<1>3. d \in FileDiffs(patch)
  BY ReportedIs
<1>4. IsPlain(patch[i]) => Reports(patch[i], d)
  BY <1>1, KnownIsReported DEF AtEnd
<1> HIDE DEF d
<1>5. ds = diffs \o <<d>>
  BY <1>2
<1> DEFINE S == FileDiffs(patch)
<1> HIDE DEF S, ds
<1>6. ds \in Seq(S) /\ Len(ds) = i /\ ds[i] = d /\ \A k \in 1 .. i - 1 : ds[k] = diffs[k]
  BY <1>1, <1>3, <1>5 DEF S
<1>7. ASSUME NEW k \in 1 .. i PROVE k \in 1 .. Len(patch) /\ (IsPlain(patch[k]) => Reports(patch[k], ds[k]))
  <2>1. CASE k = i
    BY <1>4, <1>6, <2>1
  <2>2. CASE k # i
    <3>1. k \in 1 .. Len(diffs) /\ ds[k] = diffs[k]
      BY <1>6, <2>2
    <3> QED
      BY <1>1, <3>1 DEF ReportsAll
  <2> QED
    BY <2>1, <2>2
<1> QED
  BY <1>6, <1>7 DEF ReportsAll, S, ds

\* The FileDiff that begins with a line.
LEMMA FileDiffIs ==
    ASSUME NEW ps \in Patches, NEW i \in 1 .. Len(ps)
    PROVE  LET l == FirstLine(ps[i])
               fd == FileDiff(l.old, l.new)
           IN fd \in FileDiffs(ps) /\ KnowsHeader(ps[i], fd, 1)
<1> DEFINE l == FirstLine(ps[i])
           fd == FileDiff(l.old, l.new)
<1>1. l \in TextLine(ps) /\ l.t = "diff"
  BY HeaderLinesAre
<1>2. l.old \in Paths(ps) /\ l.new \in Paths(ps)
  BY <1>1, FieldsOfLine
<1> DEFINE o == l.old
           n == l.new
<1> HIDE DEF l, o, n
<1>3. FileDiff(o, n) \in FileDiffs(ps)
  BY <1>2 DEF FileDiff, FileDiffs, o, n
<1>4. KnowsHeader(ps[i], FileDiff(o, n), 1)
  BY DEF FileDiff, KnowsHeader, Tells
<1> QED
  BY <1>3, <1>4 DEF o, n, l

\* A first line begins the next file.
LEMMA FileBegins ==
    ASSUME ReadingInv, ReadLine, NEW i \in 1 .. Len(patch), text = FileRest(patch)[i],
           diffs \o Complete \in Seq(FileDiffs(patch)), Len(diffs \o Complete) = i - 1,
           ReportsAll(patch, diffs \o Complete)
    PROVE  ReadingInv'
<1> DEFINE ps == patch
           l == FirstLine(ps[i])
           rest == FromHeader(ps, i, 1)
           fd == FileDiff(l.old, l.new)
<1>1. ps \in Patches /\ oldLine \in Nat /\ newLine \in Nat
  BY Zenon DEF ReadingInv, Reading
<1>2. text = <<l>> \o rest
  BY <1>1, FileRestIs
<1>3. rest \in Seq(TextLine(ps)) /\ l \in TextLine(ps) /\ l.t = "diff"
  <2>1. 1 \in 1 .. 4
    OBVIOUS
  <2> QED
    BY <1>1, <2>1, FromHeaderIs, HeaderLinesAre
<1>4. fd \in FileDiffs(ps) /\ KnowsHeader(ps[i], fd, 1)
  BY <1>1, FileDiffIs
<1> HIDE DEF l, rest
<1>5. /\ text' = rest /\ patch' = patch /\ UNCHANGED <<oldLine, newLine>>
      /\ diffs' = diffs \o Complete /\ current' = <<fd>>
  <2>1. PICK qs : qs = ps
    OBVIOUS
  <2>2. l \in TextLine(qs) /\ rest \in Seq(TextLine(qs)) /\ text = <<l>> \o rest
    BY <1>2, <1>3, <2>1
  <2> HIDE DEF fd
  <2>3. /\ text' = rest /\ patch' = patch
        /\ l.t = "diff" => diffs' = diffs \o Complete /\ current' = <<FileDiff(l.old, l.new)>>
                           /\ UNCHANGED <<oldLine, newLine>>
    BY <1>1, <2>2, LineIsRead
  <2> QED
    BY <1>3, <2>3, Zenon DEF fd
<1> HIDE DEF fd
<1>6. InFile(ps, i, fd, text', oldLine', newLine')
  <2>1. 1 \in 1 .. 4 /\ text' = FromHeader(ps, i, 1)
    BY <1>5 DEF rest
  <2>2. InHeader(ps, i, fd, text')
    BY <1>4, <2>1 DEF InHeader
  <2> QED
    BY <2>2 DEF InFile
<1>7. WithinFile(patch', text', current', diffs', oldLine', newLine')
  BY <1>4, <1>5, <1>6 DEF WithinFile
<1>8. patch' \in Patches /\ oldLine' \in Nat /\ newLine' \in Nat /\ diffs' \in Seq(FileDiffs(patch'))
      /\ ReportsAll(patch', diffs')
  BY <1>1, <1>5
<1> QED
  BY <1>7, <1>8, Zenon DEF ReadingInv, Reading

\* Where the parser is in the first place.
LEMMA ReadingStarts == DiffInit => ReadingInv
<1> SUFFICES ASSUME DiffInit PROVE ReadingInv
  OBVIOUS
<1> USE DEF DiffInit
<1>1. patch \in Patches /\ 0 \in Nat /\ oldLine = 0 /\ newLine = 0 /\ current = <<>> /\ diffs = <<>>
  OBVIOUS
<1>2. text = <<Mark("warning")>> \o FileRest(patch)[1]
  <2>1. FileRest(patch)[1] = FlattenSeq([i \in DOMAIN patch |-> GitDiff(patch[i])])
    BY FileRestIs
  <2> QED
    BY <2>1, Zenon DEF Mark
<1>3. diffs \in Seq(FileDiffs(patch)) /\ Len(diffs) = 0
  BY <1>1
<1>4. ReportsAll(patch, diffs)
  BY <1>3 DEF ReportsAll
<1>5. BeforeFiles(patch, text, current, diffs)
  BY <1>1, <1>2 DEF BeforeFiles
<1> QED
  BY <1>1, <1>3, <1>4, <1>5 DEF ReadingInv, Reading

\* A line that is read.
LEMMA ReadLineKeeps == ReadingInv /\ ReadLine => ReadingInv'
<1> SUFFICES ASSUME ReadingInv, ReadLine PROVE ReadingInv'
  OBVIOUS
<1>1. /\ patch \in Patches /\ oldLine \in Nat /\ newLine \in Nat /\ diffs \in Seq(FileDiffs(patch))
      /\ ReportsAll(patch, diffs)
      /\ \/ BeforeFiles(patch, text, current, diffs) \/ WithinFile(patch, text, current, diffs, oldLine, newLine)
         \/ AfterFiles(patch, text, current, diffs)
  BY Zenon DEF ReadingInv, Reading
<1>2. text # <<>>
  BY DEF ReadLine
<1>3. /\ Len(patch) \in Nat
      /\ FileRest(patch) \in [1 .. Len(patch) + 1 -> Seq(TextLine(patch))]
      /\ FileRest(patch)[Len(patch) + 1] = <<>>
  BY <1>1, PatchIs, FileRestIs
<1>4. CASE BeforeFiles(patch, text, current, diffs)
  <2>1. /\ current = <<>> /\ diffs = <<>>
        /\ text = <<Mark("warning")>> \o FileRest(patch)[1] \/ text = FileRest(patch)[1]
    BY <1>4 DEF BeforeFiles
  <2>2. Complete = <<>> /\ diffs \o Complete = <<>>
    <3> DEFINE F(i) == [current[i] EXCEPT !.ranges = Ranges(current[i].added)]
    <3>1. Complete = [i \in DOMAIN current |-> F(i)]
      BY DEF Complete
    <3> HIDE DEF F
    <3>2. DOMAIN Complete = {} /\ Complete = [i \in {} |-> F(i)]
      <4>1. DOMAIN <<>> = {}
        OBVIOUS
      <4> QED
        BY <2>1, <3>1, <4>1
    <3>3. Complete = <<>>
      BY <3>2, NothingIn
    <3>4. <<>> \o <<>> = <<>>
      BY NothingIn
    <3> QED
      BY <2>1, <3>3, <3>4, Zenon
  <2>3. CASE text = FileRest(patch)[1]
    <3>1. 1 \in 1 .. Len(patch)
      BY <1>2, <1>3, <2>3
    <3>2. diffs \o Complete \in Seq(FileDiffs(patch)) /\ Len(diffs \o Complete) = 1 - 1
      BY <2>2
    <3>3. ReportsAll(patch, diffs \o Complete)
      BY <1>1, <2>1, <2>2
    <3> QED
      BY <2>3, <3>1, <3>2, <3>3, FileBegins
  <2>4. CASE text = <<Mark("warning")>> \o FileRest(patch)[1]
    <3> DEFINE l == Mark("warning")
               rest == FileRest(patch)[1]
    <3>1. l \in TextLine(patch) /\ l.t = "warning"
      BY DEF Mark, TextLine
    <3>2. rest \in Seq(TextLine(patch))
      BY <1>3
    <3> HIDE DEF l, rest
    <3>3. text' = rest /\ patch' = patch /\ (l.t = "warning" => UNCHANGED <<current, diffs, oldLine, newLine>>)
      BY <1>1, <2>4, <3>1, <3>2, LineIsRead DEF l, rest
    <3>4. BeforeFiles(patch', text', current', diffs')
      <4>1. text' = FileRest(patch')[1] /\ current' = <<>> /\ diffs' = <<>>
        BY <2>1, <3>1, <3>3 DEF rest
      <4> QED
        BY <4>1, Zenon DEF BeforeFiles
    <3> QED
      BY <1>1, <3>1, <3>3, <3>4 DEF ReadingInv, Reading
  <2> QED
    BY <2>1, <2>3, <2>4
<1>5. CASE WithinFile(patch, text, current, diffs, oldLine, newLine)
  <2>1. PICK i \in 1 .. Len(patch), fd \in FileDiffs(patch) :
           current = <<fd>> /\ Len(diffs) = i - 1 /\ InFile(patch, i, fd, text, oldLine, newLine)
    BY <1>5 DEF WithinFile
  <2>2. CASE AtEnd(patch, i, fd, text)
    <3>1. /\ diffs \o Complete \in Seq(FileDiffs(patch)) /\ Len(diffs \o Complete) = i
          /\ ReportsAll(patch, diffs \o Complete)
      BY <2>1, <2>2, CompleteReports
    <3>2. text = FileRest(patch)[i + 1]
      BY <2>2 DEF AtEnd
    <3>3. i + 1 \in 1 .. Len(patch) /\ i = i + 1 - 1
      <4>1. i # Len(patch)
        BY <1>2, <1>3, <3>2
      <4> QED
        BY <1>3, <4>1
    <3> QED
      BY <3>1, <3>2, <3>3, FileBegins
  <2>3. CASE ~ AtEnd(patch, i, fd, text)
    <3>1. /\ UNCHANGED <<patch, diffs>> /\ oldLine' \in Nat /\ newLine' \in Nat
          /\ \E gd \in FileDiffs(patch) : current' = <<gd>> /\ InFile(patch, i, gd, text', oldLine', newLine')
      <4>1. CASE InHeader(patch, i, fd, text)
        <5>1. /\ UNCHANGED <<patch, diffs, oldLine, newLine>>
              /\ \E gd \in FileDiffs(patch) : current' = <<gd>> /\ InFile(patch, i, gd, text', oldLine', newLine')
          BY <1>1, <2>1, <4>1, HeaderGoesOn
        <5> QED
          BY <1>1, <5>1
      <4>2. CASE InScript(patch, i, fd, text, oldLine, newLine)
        BY <1>1, <2>1, <4>2, ScriptGoesOn
      <4>3. CASE AtLine(patch, i, fd, text, oldLine, newLine)
        BY <1>1, <2>1, <4>3, LineGoesOn
      <4> QED
        BY <2>1, <2>3, <4>1, <4>2, <4>3 DEF InFile
    <3>2. WithinFile(patch', text', current', diffs', oldLine', newLine')
      BY <2>1, <3>1 DEF WithinFile
    <3> QED
      BY <1>1, <3>1, <3>2 DEF ReadingInv, Reading
  <2> QED
    BY <2>2, <2>3
<1>6. CASE AfterFiles(patch, text, current, diffs)
  BY <1>2, <1>6 DEF AfterFiles
<1> QED
  BY <1>1, <1>4, <1>5, <1>6

\* The end of the text.
LEMMA EndOfTextKeeps == ReadingInv /\ EndOfText => ReadingInv'
<1> SUFFICES ASSUME ReadingInv, EndOfText PROVE ReadingInv'
  OBVIOUS
<1>1. /\ patch \in Patches /\ oldLine \in Nat /\ newLine \in Nat /\ diffs \in Seq(FileDiffs(patch))
      /\ ReportsAll(patch, diffs)
      /\ \/ BeforeFiles(patch, text, current, diffs) \/ WithinFile(patch, text, current, diffs, oldLine, newLine)
         \/ AfterFiles(patch, text, current, diffs)
  BY Zenon DEF ReadingInv, Reading
<1>2. /\ text = <<>> /\ current # <<>> /\ diffs' = diffs \o Complete /\ current' = <<>>
      /\ UNCHANGED <<patch, text, oldLine, newLine>>
  BY DEF EndOfText
<1>3. PICK i \in 1 .. Len(patch), fd \in FileDiffs(patch) :
         current = <<fd>> /\ Len(diffs) = i - 1 /\ InFile(patch, i, fd, text, oldLine, newLine)
  BY <1>1, <1>2 DEF WithinFile, BeforeFiles, AfterFiles
<1>4. AtEnd(patch, i, fd, text)
  <2>1. \A s, l : s \in Seq(TextLine(patch)) => <<l>> \o s # <<>>
    BY FirstAndRest
  <2>2. ~ InHeader(patch, i, fd, text)
    <3> SUFFICES ASSUME InHeader(patch, i, fd, text) PROVE FALSE
      OBVIOUS
    <3>1. PICK k \in 1 .. 4 : /\ text = FromHeader(patch, i, k)
                              /\ k = 1 => patch[i].old = DevNull
                              /\ k = 2 => patch[i].new = DevNull
      BY <1>1, HeaderLineIs
    <3>2. /\ FromHeader(patch, i, 1) = IF patch[i].old = DevNull THEN <<Mark("new file")>> \o FromHeader(patch, i, 2)
                                       ELSE FromHeader(patch, i, 2)
          /\ FromHeader(patch, i, 2) = IF patch[i].new = DevNull THEN <<Mark("deleted file")>> \o FromHeader(patch, i, 3)
                                       ELSE FromHeader(patch, i, 3)
          /\ FromHeader(patch, i, 3) = <<OldName(patch[i])>> \o FromHeader(patch, i, 4)
          /\ FromHeader(patch, i, 4) = <<NewName(patch[i])>> \o From(patch, i, 1)
          /\ \A m \in 1 .. 4 : FromHeader(patch, i, m) \in Seq(TextLine(patch))
      BY <1>1, FromHeaderIs
    <3>3. From(patch, i, 1) \in Seq(TextLine(patch))
      <4>1. 1 \in 1 .. Len(patch[i].script) + 1
        BY <1>1, ScriptIs
      <4> QED
        BY <1>1, <4>1, FromIs
    <3>4. 2 \in 1 .. 4 /\ 3 \in 1 .. 4 /\ 4 \in 1 .. 4 /\ (k = 1 \/ k = 2 \/ k = 3 \/ k = 4)
      OBVIOUS
    <3>5. \E l : \E s \in Seq(TextLine(patch)) : text = <<l>> \o s
      BY <3>1, <3>2, <3>3, <3>4, Zenon
    <3> QED
      BY <1>2, <2>1, <3>5
  <2>3. ~ AtLine(patch, i, fd, text, oldLine, newLine)
    <3> SUFFICES ASSUME AtLine(patch, i, fd, text, oldLine, newLine) PROVE FALSE
      OBVIOUS
    <3>1. PICK j \in 1 .. Len(patch[i].script) : text = FromLine(patch, i, j)
      BY DEF AtLine
    <3>2. j + 1 \in 1 .. Len(patch[i].script) + 1
      BY <1>1, ScriptIs
    <3>3. From(patch, i, j + 1) \in Seq(TextLine(patch))
      BY <1>1, <3>2, FromIs
    <3> QED
      BY <1>2, <2>1, <3>1, <3>3 DEF FromLine
  <2>4. ~ InScript(patch, i, fd, text, oldLine, newLine)
    <3> SUFFICES ASSUME InScript(patch, i, fd, text, oldLine, newLine) PROVE FALSE
      OBVIOUS
    <3> DEFINE n == Len(patch[i].script)
    <3>1. PICK j \in 1 .. n + 1 : text = From(patch, i, j) /\ (j = n + 1 \/ IsShown(patch[i], j))
      BY <1>1, ScriptStands
    <3>2. n \in Nat
      BY <1>1, ScriptIs
    <3>3. CASE j = n + 1
      <4>1. text = <<Mark("\\")>> \o FileRest(patch)[i + 1]
        BY <1>1, <3>1, <3>3, FromIs
      <4>2. FileRest(patch)[i + 1] \in Seq(TextLine(patch))
        <5>1. i + 1 \in 1 .. Len(patch) + 1
          BY <1>1, PatchIs
        <5> QED
          BY <1>1, <5>1, FileRestIs
      <4> QED
        BY <1>2, <2>1, <4>1, <4>2
    <3>4. CASE j # n + 1
      <4>1. j \in 1 .. n /\ j + 1 \in 1 .. n + 1
        BY <3>2, <3>4
      <4>2. FromLine(patch, i, j) \in Seq(TextLine(patch)) /\ From(patch, i, j + 1) \in Seq(TextLine(patch))
        BY <1>1, <4>1, FromIs
      <4>3. text = FromLine(patch, i, j) \/ text = <<Hunk(patch[i], j)>> \o FromLine(patch, i, j)
        BY <1>1, <3>1, <3>4, <4>1, FromIs
      <4>4. FromLine(patch, i, j) # <<>>
        BY <2>1, <4>2 DEF FromLine
      <4> QED
        BY <1>2, <2>1, <4>2, <4>3, <4>4
    <3> QED
      BY <3>3, <3>4
  <2> QED
    BY <1>3, <2>2, <2>3, <2>4 DEF InFile
<1>5. /\ diffs \o Complete \in Seq(FileDiffs(patch)) /\ Len(diffs \o Complete) = i
      /\ ReportsAll(patch, diffs \o Complete)
  BY <1>3, <1>4, CompleteReports
<1>6. i = Len(patch)
  <2>1. ASSUME i # Len(patch) PROVE FALSE
    <3>1. i + 1 \in 1 .. Len(patch)
      BY <1>1, <2>1, PatchIs
    <3>2. FileRest(patch)[i + 1] = <<FirstLine(patch[i + 1])>> \o FromHeader(patch, i + 1, 1)
      BY <1>1, <3>1, FileRestIs
    <3>3. FromHeader(patch, i + 1, 1) \in Seq(TextLine(patch))
      <4>1. 1 \in 1 .. 4
        OBVIOUS
      <4> QED
        BY <1>1, <3>1, <4>1, FromHeaderIs
    <3> QED
      BY <1>2, <1>4, <3>2, <3>3, FirstAndRest DEF AtEnd
  <2> QED
    BY <2>1
<1>7. AfterFiles(patch', text', current', diffs')
  BY <1>2, <1>5, <1>6 DEF AfterFiles
<1> QED
  BY <1>1, <1>2, <1>5, <1>7 DEF ReadingInv, Reading

\* A step of the parser, and one of others.
LEMMA ReadingGoesOn == ReadingInv /\ [DiffNext]_diffVars => ReadingInv'
<1>1. ReadingInv /\ UNCHANGED diffVars => ReadingInv'
  BY DEF ReadingInv, diffVars
<1> QED
  BY <1>1, ReadLineKeeps, EndOfTextKeeps DEF DiffNext

\* When all is read, the lines are exact.
LEMMA ReadIsExact == ReadingInv => LinesAreExact
<1> SUFFICES ASSUME ReadingInv, IsRead
             PROVE  /\ Len(diffs) = Len(patch)
                    /\ \A i \in DOMAIN patch : IsPlain(patch[i]) => Reports(patch[i], diffs[i])
  BY DEF LinesAreExact, Reports
<1>1. /\ patch \in Patches /\ ReportsAll(patch, diffs)
      /\ \/ BeforeFiles(patch, text, current, diffs) \/ WithinFile(patch, text, current, diffs, oldLine, newLine)
         \/ AfterFiles(patch, text, current, diffs)
  BY Zenon DEF ReadingInv, Reading
<1>2. text = <<>> /\ current = <<>>
  BY DEF IsRead
<1>3. /\ Len(patch) \in Nat /\ DOMAIN patch = 1 .. Len(patch)
      /\ FileRest(patch) \in [1 .. Len(patch) + 1 -> Seq(TextLine(patch))]
  BY <1>1, PatchIs, FileRestIs
<1>4. Len(diffs) = Len(patch)
  <2>1. ~ WithinFile(patch, text, current, diffs, oldLine, newLine)
    BY <1>2 DEF WithinFile
  <2>2. ASSUME BeforeFiles(patch, text, current, diffs) PROVE Len(diffs) = 0 /\ Len(patch) = 0
    <3>1. FileRest(patch)[1] \in Seq(TextLine(patch))
      BY <1>3
    <3>2. text # <<Mark("warning")>> \o FileRest(patch)[1]
      BY <1>2, <3>1, FirstAndRest
    <3>3. FileRest(patch)[1] = <<>> /\ diffs = <<>>
      BY <1>2, <2>2, <3>2 DEF BeforeFiles
    <3>4. ASSUME Len(patch) # 0 PROVE FALSE
      <4>1. 1 \in 1 .. Len(patch) /\ 1 \in 1 .. 4
        BY <1>3, <3>4
      <4>2. FileRest(patch)[1] = <<FirstLine(patch[1])>> \o FromHeader(patch, 1, 1)
            /\ FromHeader(patch, 1, 1) \in Seq(TextLine(patch))
        BY <1>1, <4>1, FileRestIs, FromHeaderIs
      <4> QED
        BY <3>3, <4>2, FirstAndRest
    <3> QED
      BY <3>3, <3>4
  <2> QED
    BY <1>1, <2>1, <2>2 DEF AfterFiles
<1> QED
  BY <1>1, <1>3, <1>4 DEF ReportsAll

\* ParseUnifiedDiff takes from a diff the lines that were added and deleted, by their
\* numbers, in every file none of whose lines looks like a header.
THEOREM LinesAreRead == DiffSpec => []LinesAreExact
<1>1. DiffInit => ReadingInv
  BY ReadingStarts
<1>2. ReadingInv /\ [DiffNext]_diffVars => ReadingInv'
  BY ReadingGoesOn
<1>3. ReadingInv => LinesAreExact
  BY ReadIsExact
<1> QED
  BY <1>1, <1>2, <1>3, PTL DEF DiffSpec

-----------------------------------------------------------------------------
(* The symbols that reach a symbol.                                        *)

CallersIn(g, S) == {e.src : e \in {d \in g.edges : d.kind \in TestKinds /\ d.tgt \in S}}
OneFurther(g, n, k, f) == [j \in 0 .. k |-> IF j = 0 THEN {n} ELSE f[j - 1] \cup CallersIn(g, f[j - 1])]
StepsIn(g, n, k) == CHOOSE f : f = OneFurther(g, n, k, f)

\* Reaching, Breaches and what they rest on, with the variables they read as parameters.
ReachingIn(g, n, k) == StepsIn(g, n, k)[k]

\* The sets Reaching is computed from are there, each of them the one before it and its callers.
LEMMA StepsAre ==
    ASSUME NEW g \in Graphs, NEW n \in Nodes, NEW k \in Nat
    PROVE  LET h == StepsIn(g, n, k)
           IN /\ h \in [0 .. k -> SUBSET Nodes] /\ h[0] = {n}
              /\ \A j \in 1 .. k : h[j] = h[j - 1] \cup CallersIn(g, h[j - 1])
<1> DEFINE St == SUBSET Nodes
           move == [p \in (1 .. k) \X St |-> p[2] \cup CallersIn(g, p[2])]
           h == StepsIn(g, n, k)
<1>1. \A S \in St : S \cup CallersIn(g, S) \in St
  <2>1. g.edges \in SUBSET Edge
    BY CodeGraphAssumption DEF Graph
  <2>2. \A e \in g.edges : e.src \in Nodes
    BY <2>1 DEF Edge
  <2> QED
    BY <2>2 DEF CallersIn
<1>2. {n} \in St
  OBVIOUS
<1> HIDE DEF St
<1>3. Moves(k, St, move)
  <2>1. ASSUME NEW p \in (1 .. k) \X St PROVE p[2] \cup CallersIn(g, p[2]) \in St
    <3>1. p[2] \in St
      OBVIOUS
    <3> QED
      BY <1>1, <3>1
  <2> QED
    BY <2>1 DEF Moves
<1>4. \A j \in 1 .. k, S \in St : move[<<j, S>>] = S \cup CallersIn(g, S)
  OBVIOUS
<1> HIDE DEF move
<1>5. PICK f : Walks(k, St, {n}, move, f)
  BY <1>2, <1>3, Recursion
<1>6. /\ f \in [0 .. k -> St] /\ f[0] = {n}
      /\ \A j \in 1 .. k : j - 1 \in 0 .. k /\ f[j] = f[j - 1] \cup CallersIn(g, f[j - 1])
  <2>1. /\ f \in [0 .. k -> St] /\ f[0] = {n}
        /\ \A j \in 1 .. k : f[j] = move[<<j, f[j - 1]>>]
    BY <1>5 DEF Walks
  <2>2. \A j \in 1 .. k : j - 1 \in 0 .. k
    OBVIOUS
  <2> QED
    BY <1>4, <2>1, <2>2
<1>7. f = OneFurther(g, n, k, f)
  <2>1. f = [j \in 0 .. k |-> f[j]]
    BY <1>6
  <2>2. \A j \in 0 .. k : f[j] = IF j = 0 THEN {n} ELSE f[j - 1] \cup CallersIn(g, f[j - 1])
    BY <1>6
  <2> QED
    BY <2>1, <2>2 DEF OneFurther
<1>8. h = OneFurther(g, n, k, h)
  BY <1>7, Zenon DEF StepsIn
<1> HIDE DEF h
<1>9. DOMAIN h = 0 .. k /\ h = [j \in 0 .. k |-> h[j]]
      /\ \A j \in 0 .. k : h[j] = IF j = 0 THEN {n} ELSE h[j - 1] \cup CallersIn(g, h[j - 1])
  <2> DEFINE u == OneFurther(g, n, k, h)
  <2>1. DOMAIN u = 0 .. k /\ u = [j \in 0 .. k |-> u[j]]
        /\ \A j \in 0 .. k : u[j] = IF j = 0 THEN {n} ELSE h[j - 1] \cup CallersIn(g, h[j - 1])
    BY DEF OneFurther
  <2> HIDE DEF u
  <2>2. h = u
    BY <1>8 DEF u
  <2> QED
    BY <2>1, <2>2
<1>10. h[0] = {n} /\ \A j \in 1 .. k : j - 1 \in 0 .. k /\ h[j] = h[j - 1] \cup CallersIn(g, h[j - 1])
  BY <1>9
<1> DEFINE T == {j \in 0 .. k : h[j] \in St}
<1>11. 0 .. k \subseteq T
  <2>1. 0 \in T
    <3>1. 0 \in 0 .. k
      OBVIOUS
    <3> QED
      BY <1>2, <1>10, <3>1
  <2>2. ASSUME NEW j \in 1 .. k, j - 1 \in T PROVE j \in T
    <3>1. h[j - 1] \in St /\ h[j] = h[j - 1] \cup CallersIn(g, h[j - 1])
      BY <1>10, <2>2
    <3>2. h[j] \in St
      BY <1>1, <3>1
    <3> QED
      BY <3>2
  <2> HIDE DEF T
  <2> QED
    BY <2>1, <2>2, StepByStep
<1>12. h \in [0 .. k -> St]
  BY <1>9, <1>11
<1> QED
  BY <1>10, <1>12 DEF h, St

\* Each depth adds the callers of what the depth before it reached.
LEMMA ReachingGrows ==
    ASSUME NEW g \in Graphs, NEW n \in Nodes
    PROVE  /\ ReachingIn(g, n, 0) = {n}
           /\ \A k \in Nat : /\ ReachingIn(g, n, k) \in SUBSET Nodes
                             /\ ReachingIn(g, n, k + 1)
                                  = ReachingIn(g, n, k) \cup CallersIn(g, ReachingIn(g, n, k))
<1>1. ReachingIn(g, n, 0) = {n}
  BY StepsAre DEF ReachingIn
<1>2. ASSUME NEW k \in Nat
      PROVE  /\ ReachingIn(g, n, k) \in SUBSET Nodes
             /\ ReachingIn(g, n, k + 1) = ReachingIn(g, n, k) \cup CallersIn(g, ReachingIn(g, n, k))
  <2> DEFINE f == StepsIn(g, n, k)
             h == StepsIn(g, n, k + 1)
  <2>1. /\ f \in [0 .. k -> SUBSET Nodes] /\ f[0] = {n}
        /\ \A j \in 1 .. k : f[j] = f[j - 1] \cup CallersIn(g, f[j - 1])
    BY StepsAre
  <2>2. /\ h \in [0 .. k + 1 -> SUBSET Nodes] /\ h[0] = {n}
        /\ \A j \in 1 .. k + 1 : h[j] = h[j - 1] \cup CallersIn(g, h[j - 1])
    <3>1. k + 1 \in Nat
      OBVIOUS
    <3> QED
      BY <3>1, StepsAre
  <2> DEFINE T == {j \in 0 .. k : f[j] = h[j]}
  <2> HIDE DEF f, h
  <2>3. 0 .. k \subseteq T
    <3>1. 0 \in T
      <4>1. 0 \in 0 .. k
        OBVIOUS
      <4> QED
        BY <2>1, <2>2, <4>1
    <3>2. ASSUME NEW j \in 1 .. k, j - 1 \in T PROVE j \in T
      <4>1. j \in 0 .. k /\ j \in 1 .. k + 1 /\ f[j - 1] = h[j - 1]
        BY <3>2
      <4>2. f[j] = f[j - 1] \cup CallersIn(g, f[j - 1]) /\ h[j] = h[j - 1] \cup CallersIn(g, h[j - 1])
        BY <2>1, <2>2, <4>1
      <4>3. f[j] = h[j]
        BY <4>1, <4>2
      <4> QED
        BY <4>1, <4>3
    <3> HIDE DEF T
    <3> QED
      BY <3>1, <3>2, StepByStep
  <2>4. k \in 0 .. k /\ k + 1 \in 1 .. k + 1 /\ (k + 1) - 1 = k
    OBVIOUS
  <2>5. f[k] = h[k] /\ h[k + 1] = h[k] \cup CallersIn(g, h[k]) /\ f[k] \in SUBSET Nodes
    BY <2>1, <2>2, <2>3, <2>4
  <2> QED
    BY <2>5 DEF f, h, ReachingIn
<1> QED
  BY <1>1, <1>2

\* What Reaching is.
LEMMA ReachingIs == \A n, k : Reaching(n, k) = ReachingIn(graph, n, k)
BY Zenon DEF Reaching, ReachingIn, StepsIn, OneFurther, CallersIn

\* And what it is after a step.
LEMMA ReachingNext == graph' = graph => \A n, k : Reaching(n, k)' = Reaching(n, k)
<1>1. \A n, k : Reaching(n, k)' = ReachingIn(graph', n, k)
  BY Zenon DEF Reaching, ReachingIn, StepsIn, OneFurther, CallersIn
<1> HIDE DEF Reaching
<1> QED
  BY <1>1, ReachingIs

\* The least of a set of numbers.
LEMMA MinIs ==
    ASSUME NEW S \in SUBSET Nat, S # {}
    PROVE  Min(S) \in S /\ \A k \in S : Min(S) <= k
BY LeastNumber DEF Min

\* What is reached stays reached.
LEMMA ReachingStays ==
    ASSUME NEW g \in Graphs, NEW n \in Nodes, NEW j \in Nat, NEW k \in Nat, j <= k
    PROVE  ReachingIn(g, n, j) \subseteq ReachingIn(g, n, k)
<1> DEFINE d == k - j
           T == {i \in 0 .. d : ReachingIn(g, n, j) \subseteq ReachingIn(g, n, j + i)}
<1>1. d \in Nat /\ j + d = k /\ j + 0 = j /\ 0 \in 0 .. d /\ d \in 0 .. d
  OBVIOUS
<1>2. 0 \in T
  BY <1>1
<1>3. ASSUME NEW i \in 1 .. d, i - 1 \in T PROVE i \in T
  <2>1. i \in 0 .. d /\ i - 1 \in 0 .. d /\ j + (i - 1) \in Nat /\ (j + (i - 1)) + 1 = j + i
    OBVIOUS
  <2>2. ReachingIn(g, n, j + (i - 1)) \subseteq ReachingIn(g, n, j + i)
    <3>1. \A l \in Nat : ReachingIn(g, n, l) \subseteq ReachingIn(g, n, l + 1)
      BY ReachingGrows
    <3> QED
      BY <2>1, <3>1
  <2> QED
    BY <1>3, <2>1, <2>2
<1> HIDE DEF T
<1>4. 0 .. d \subseteq T
  <2> HIDE DEF d
  <2> QED
    BY <1>1, <1>2, <1>3, StepByStep
<1> QED
  BY <1>1, <1>4 DEF T

\* Where a chain of edges comes from is reached at its length.
LEMMA ChainReaches ==
    ASSUME graph \in Graphs, NEW n \in Nodes, NEW m, NEW k \in Nat, TestChain(m, n, k)
    PROVE  m \in ReachingIn(graph, n, k)
<1>1. PICK w \in [0 .. k -> Nodes] :
         /\ w[0] = m /\ w[k] = n
         /\ \A i \in 0 .. k - 1 : \E e \in graph.edges : e.kind \in TestKinds /\ e.src = w[i] /\ e.tgt = w[i + 1]
  BY DEF TestChain
<1> DEFINE T == {i \in 0 .. k : w[k - i] \in ReachingIn(graph, n, i)}
<1>2. 0 \in T
  <2>1. 0 \in 0 .. k /\ k - 0 = k
    OBVIOUS
  <2> QED
    BY <1>1, <2>1, ReachingGrows
<1>3. ASSUME NEW i \in 1 .. k, i - 1 \in T PROVE i \in T
  <2>1. /\ i \in 0 .. k /\ i - 1 \in Nat /\ (i - 1) + 1 = i
        /\ k - i \in 0 .. k - 1 /\ k - (i - 1) = (k - i) + 1
    OBVIOUS
  <2>2. PICK e \in graph.edges : e.kind \in TestKinds /\ e.src = w[k - i] /\ e.tgt = w[(k - i) + 1]
    BY <1>1, <2>1
  <2>3. e.tgt \in ReachingIn(graph, n, i - 1)
    BY <1>3, <2>1, <2>2
  <2>4. e.src \in CallersIn(graph, ReachingIn(graph, n, i - 1))
    BY <2>2, <2>3 DEF CallersIn
  <2>5. CallersIn(graph, ReachingIn(graph, n, i - 1)) \subseteq ReachingIn(graph, n, (i - 1) + 1)
    BY <2>1, ReachingGrows
  <2> QED
    BY <2>1, <2>2, <2>4, <2>5
<1> HIDE DEF T
<1>4. 0 .. k \subseteq T
  BY <1>2, <1>3, StepByStep
<1>5. k \in T /\ k - k = 0
  BY <1>4
<1> QED
  BY <1>1, <1>5 DEF T

\* The depth a symbol is reached at, and the symbols within reach, read from a graph.
DepthIn(g, n, m) == CHOOSE k \in 0 .. MaxDepth : m \in ReachingIn(g, n, k) /\ \A j \in 0 .. k - 1 : m \notin ReachingIn(g, n, j)
WithinIn(g, n) == (ReachingIn(g, n, MaxDepth) \ {n}) \cap g.nodes

\* The depth a symbol is reached at.
LEMMA DepthIs == \A n, m : ReachDepth(n, m) = DepthIn(graph, n, m)
BY Zenon DEF ReachDepth, DepthIn, Reaching, ReachingIn, StepsIn, OneFurther, CallersIn

\* The symbols within reach.
LEMMA WithinIs == \A n : WithinReach(n) = WithinIn(graph, n)
BY ReachingIs DEF WithinReach, WithinIn

\* The depth a symbol is reached at is the least one.
LEMMA DepthIsLeast ==
    ASSUME NEW g \in Graphs, NEW n \in Nodes, NEW m, NEW k \in 0 .. MaxDepth, m \in ReachingIn(g, n, k)
    PROVE  DepthIn(g, n, m) \in 0 .. MaxDepth /\ DepthIn(g, n, m) <= k
<1> DEFINE Is(l) == m \in ReachingIn(g, n, l) /\ \A j \in 0 .. l - 1 : m \notin ReachingIn(g, n, j)
           T == {l \in 0 .. MaxDepth : m \in ReachingIn(g, n, l)}
           d == DepthIn(g, n, m)
<1>1. MaxDepth \in Nat /\ k \in T /\ T \in SUBSET Nat
  BY ImpactAssumption
<1>2. PICK l \in T : \A j \in T : l <= j
  BY <1>1, LeastNumber
<1>3. l \in 0 .. MaxDepth /\ Is(l)
  <2>1. ASSUME NEW j \in 0 .. l - 1 PROVE m \notin ReachingIn(g, n, j)
    <3>1. j \in 0 .. MaxDepth /\ ~ l <= j
      BY <1>1
    <3> QED
      BY <1>2, <3>1
  <2> QED
    BY <2>1
<1>4. d \in 0 .. MaxDepth /\ Is(d)
  <2>1. d = CHOOSE x \in 0 .. MaxDepth : Is(x)
    BY Zenon DEF DepthIn
  <2> HIDE DEF d, Is
  <2> QED
    BY <1>3, <2>1, Zenon
<1> HIDE DEF d
<1>5. ~ k < d
  BY <1>1, <1>4
<1> QED
  BY <1>1, <1>4, <1>5 DEF d

\* All that is within reach has a depth, and there are only so many symbols.
LEMMA WithinHasDepth ==
    ASSUME NEW g \in Graphs, NEW n \in Nodes
    PROVE  /\ IsFiniteSet(WithinIn(g, n)) /\ Cardinality(WithinIn(g, n)) \in Nat
           /\ \A m \in WithinIn(g, n) : DepthIn(g, n, m) \in 0 .. MaxDepth
<1>1. MaxDepth \in Nat /\ MaxDepth \in 0 .. MaxDepth
  BY ImpactAssumption
<1>2. WithinIn(g, n) \in SUBSET Nodes /\ IsFiniteSet(Nodes)
  BY <1>1, ReachingGrows, CodeGraphAssumption DEF WithinIn
<1>3. IsFiniteSet(WithinIn(g, n)) /\ Cardinality(WithinIn(g, n)) \in Nat
  <2>1. IsFiniteSet(WithinIn(g, n))
    BY <1>2, FS_Subset
  <2> QED
    BY <2>1, FS_CardinalityType
<1>4. ASSUME NEW m \in WithinIn(g, n) PROVE DepthIn(g, n, m) \in 0 .. MaxDepth
  <2>1. m \in ReachingIn(g, n, MaxDepth)
    BY DEF WithinIn
  <2> QED
    BY <1>1, <2>1, DepthIsLeast
<1> QED
  BY <1>3, <1>4

\* Where a chain comes from is within reach, no further off than the chain is long.
LEMMA ChainIsWithin ==
    ASSUME graph \in Graphs, NEW n \in Nodes, NEW m \in graph.nodes, m # n,
           NEW k \in 0 .. MaxDepth, TestChain(m, n, k)
    PROVE  m \in WithinIn(graph, n) /\ DepthIn(graph, n, m) <= k
<1>1. MaxDepth \in Nat /\ k \in Nat /\ k <= MaxDepth
  BY ImpactAssumption
<1>2. m \in ReachingIn(graph, n, k)
  BY <1>1, ChainReaches
<1>3. ReachingIn(graph, n, k) \subseteq ReachingIn(graph, n, MaxDepth)
  BY <1>1, ReachingStays
<1>4. m \in WithinIn(graph, n)
  BY <1>2, <1>3 DEF WithinIn
<1>5. DepthIn(graph, n, m) <= k
  BY <1>2, DepthIsLeast
<1> QED
  BY <1>4, <1>5

-----------------------------------------------------------------------------
(* The symbols that changed.                                               *)

Named(syms) == {s.node : s \in syms}

\* The diff of a file says something of a symbol in it.
Hits(lay, fd, n) ==
    fd.isDeleted \/ (lay.first[n] .. lay.last[n]) \cap (ToSet(fd.added) \cup ToSet(fd.deleted)) # {}

\* Of all the symbols a FileDiff says something of, the changed ones know.
IsMapped(g, lay, syms, fd) ==
    \A n \in g.nodes : lay.file[n] = PathOf(fd) /\ Hits(lay, fd, n) => n \in Named(syms)

\* Just what a FileDiff hits is changed, and under its own name.
LEMMA ChangeIs ==
    ASSUME NEW fd, NEW n
    PROVE  /\ Hits(layout, fd, n) => \E s \in ChangeOf(fd, n) : s.node = n
           /\ \A s \in ChangeOf(fd, n) : s.node = n
<1> DEFINE hit == Span(n) \cap ToSet(fd.added)
           gone == Span(n) \cap ToSet(fd.deleted)
           type == IF fd.isNew \/ hit = Span(n) THEN "added" ELSE "modified"
<1>1. ChangeOf(fd, n) = IF fd.isDeleted THEN {Symbol(n, "deleted", {})}
                        ELSE IF hit # {} THEN {Symbol(n, type, hit)}
                        ELSE IF gone # {} THEN {Symbol(n, "modified", {Min(gone)})}
                        ELSE {}
  BY Zenon DEF ChangeOf
<1>2. \A t, l : Symbol(n, t, l).node = n
  BY DEF Symbol
<1>3. Hits(layout, fd, n) => fd.isDeleted \/ hit # {} \/ gone # {}
  BY Zenon DEF Hits, Span
<1> HIDE DEF hit, gone, type
<1>4. CASE fd.isDeleted
  <2>1. ChangeOf(fd, n) = {Symbol(n, "deleted", {})}
    BY <1>1, <1>4, Zenon
  <2> QED
    BY <1>2, <2>1, Zenon
<1>5. CASE ~ fd.isDeleted /\ hit # {}
  <2>1. ChangeOf(fd, n) = {Symbol(n, type, hit)}
    BY <1>1, <1>5, Zenon
  <2> QED
    BY <1>2, <2>1, Zenon
<1>6. CASE ~ fd.isDeleted /\ hit = {} /\ gone # {}
  <2>1. ChangeOf(fd, n) = {Symbol(n, "modified", {Min(gone)})}
    BY <1>1, <1>6, Zenon
  <2> QED
    BY <1>2, <2>1, Zenon
<1>7. CASE ~ fd.isDeleted /\ hit = {} /\ gone = {}
  <2>1. ChangeOf(fd, n) = {}
    BY <1>1, <1>7, Zenon
  <2> QED
    BY <1>3, <1>7, <2>1, Zenon
<1> QED
  BY <1>4, <1>5, <1>6, <1>7, Zenon

\* MapFile maps the file at hand, and what was mapped before stays so.
LEMMA FileIsMapped ==
    ASSUME MapFile
    PROVE  /\ IsMapped(graph, layout, changed', Head(unmapped))
           /\ \A fd : IsMapped(graph, layout, changed, fd) => IsMapped(graph, layout, changed', fd)
           /\ Named(changed) \subseteq graph.nodes => Named(changed') \subseteq graph.nodes
<1> DEFINE fd == Head(unmapped)
           new == UNION {ChangeOf(fd, n) : n \in InFileOf(PathOf(fd)) \ Named(changed)}
<1>1. changed' = changed \cup new
  BY Zenon DEF MapFile, Named
<1>2. ASSUME NEW n \in graph.nodes, layout.file[n] = PathOf(fd), Hits(layout, fd, n), n \notin Named(changed)
      PROVE  \E s \in new : s.node = n
  <2>1. n \in InFileOf(PathOf(fd)) \ Named(changed)
    BY <1>2 DEF InFileOf
  <2>2. PICK s \in ChangeOf(fd, n) : s.node = n
    BY <1>2, ChangeIs
  <2> QED
    BY <2>1, <2>2
<1>3. ASSUME NEW s \in new PROVE s.node \in graph.nodes
  <2>1. PICK n \in InFileOf(PathOf(fd)) : s \in ChangeOf(fd, n)
    BY <1>3
  <2> QED
    BY <2>1, ChangeIs DEF InFileOf
<1> HIDE DEF new, fd
<1>4. IsMapped(graph, layout, changed', fd)
  BY <1>1, <1>2 DEF IsMapped, Named
<1>5. \A d : IsMapped(graph, layout, changed, d) => IsMapped(graph, layout, changed', d)
  BY <1>1 DEF IsMapped, Named
<1>6. Named(changed) \subseteq graph.nodes => Named(changed') \subseteq graph.nodes
  BY <1>1, <1>3 DEF Named
<1> QED
  BY <1>4, <1>5, <1>6 DEF fd

\* Once every file is mapped, the symbols the patch touched are among the changed ones.
LEMMA TouchedAreNamed ==
    ASSUME ReadingInv, IsRead, AllPlain, graph \in Graphs, layout \in Layouts,
           \A i \in DOMAIN diffs : IsMapped(graph, layout, changed, diffs[i])
    PROVE  Touched \subseteq Named(changed)
<1>1. /\ Len(diffs) = Len(patch)
      /\ \A i \in DOMAIN patch : Reports(patch[i], diffs[i])
  BY ReadIsExact DEF LinesAreExact, Reports, AllPlain
<1>2. DOMAIN patch = 1 .. Len(patch) /\ DOMAIN diffs = 1 .. Len(diffs)
  <2>1. patch \in Patches /\ diffs \in Seq(FileDiffs(patch))
    BY Zenon DEF ReadingInv, Reading
  <2> QED
    BY <2>1, PatchIs
<1>3. SUFFICES ASSUME NEW n \in graph.nodes, NEW i \in DOMAIN patch,
                      \/ layout.file[n] = patch[i].new
                         /\ (Span(n) \cap AddedBy(patch[i]) # {} \/ LosesLine(patch[i], n))
                      \/ layout.file[n] = patch[i].old /\ patch[i].new = DevNull
               PROVE  n \in Named(changed)
  BY DEF Touched
<1>4. n \in Nodes /\ layout.file[n] # DevNull /\ layout.first[n] \in Nat /\ layout.last[n] \in Nat
  BY CodeGraphAssumption, ImpactAssumption DEF Graph
<1>5. Reports(patch[i], diffs[i]) /\ IsMapped(graph, layout, changed, diffs[i])
  BY <1>1, <1>2
<1>6. SUFFICES layout.file[n] = PathOf(diffs[i]) /\ Hits(layout, diffs[i], n)
  BY <1>5 DEF IsMapped
<1>7. CASE layout.file[n] = patch[i].old /\ patch[i].new = DevNull
  <2>1. PathOf(diffs[i]) = patch[i].old /\ diffs[i].isDeleted = TRUE
    BY <1>5, <1>7 DEF Reports
  <2> QED
    BY <1>7, <2>1 DEF Hits
<1>8. CASE layout.file[n] = patch[i].new /\ Span(n) \cap AddedBy(patch[i]) # {}
  <2>1. PathOf(diffs[i]) = patch[i].new /\ ToSet(diffs[i].added) = AddedBy(patch[i])
    BY <1>4, <1>5, <1>8 DEF Reports
  <2> QED
    BY <1>8, <2>1 DEF Hits, Span
<1>9. CASE layout.file[n] = patch[i].new /\ LosesLine(patch[i], n)
  <2>1. PathOf(diffs[i]) = patch[i].new /\ ToSet(diffs[i].deleted) = DeletedBy(patch[i])
    BY <1>4, <1>5, <1>9 DEF Reports
  <2>2. PICK j \in DOMAIN patch[i].script :
           /\ patch[i].script[j].op = "del"
           /\ NewUpto(patch[i].script, j) >= layout.first[n] /\ NewUpto(patch[i].script, j) < layout.last[n]
           /\ OldUpto(patch[i].script, j) = NewUpto(patch[i].script, j) + 1
    BY <1>9 DEF LosesLine
  <2>3. OldUpto(patch[i].script, j) \in DeletedBy(patch[i])
    BY <2>2 DEF DeletedBy
  <2>4. OldUpto(patch[i].script, j) \in Nat /\ NewUpto(patch[i].script, j) \in Nat
    <3>1. patch \in Patches /\ i \in 1 .. Len(patch)
      BY <1>2, Zenon DEF ReadingInv, Reading
    <3>2. patch[i].script \in Seq(ScriptLine) /\ j \in 0 .. Len(patch[i].script)
      BY <2>2, <3>1, ScriptIs
    <3> QED
      BY <3>2, UptoGoesOn DEF OldUpto, NewUpto
  <2>5. OldUpto(patch[i].script, j) \in layout.first[n] .. layout.last[n]
    BY <1>4, <2>2, <2>4
  <2> QED
    BY <1>9, <2>1, <2>3, <2>5 DEF Hits
<1> QED
  BY <1>3, <1>7, <1>8, <1>9

-----------------------------------------------------------------------------
(* The tests that are selected.                                            *)

\* The matches are the best there are for a changed symbol.
BestFor(g, lay, sel, n) ==
    /\ n \in lay.tests => n \in DOMAIN sel /\ sel[n] <= 0
    /\ Cardinality(WithinIn(g, n)) <= ReachLimit =>
          \A m \in WithinIn(g, n) \cap lay.tests : m \in DOMAIN sel /\ sel[m] <= DepthIn(g, n, m)

DepthsAreNumbers(sel) == \A m \in DOMAIN sel : sel[m] \in Nat

\* Matches that are no worse than others, and as many.
NoWorse(sel, old) == \A m \in DOMAIN old : m \in DOMAIN sel /\ sel[m] <= old[m]

\* What is best stays best when no match gets worse.
LEMMA BestStaysBest ==
    ASSUME graph \in Graphs, NEW sel, NEW old, DepthsAreNumbers(sel), DepthsAreNumbers(old),
           NoWorse(sel, old), NEW n \in Nodes, BestFor(graph, layout, old, n)
    PROVE  BestFor(graph, layout, sel, n)
<1>1. ASSUME n \in layout.tests PROVE n \in DOMAIN sel /\ sel[n] <= 0
  <2>1. n \in DOMAIN old /\ old[n] <= 0
    BY <1>1 DEF BestFor
  <2>2. n \in DOMAIN sel /\ sel[n] <= old[n] /\ sel[n] \in Nat /\ old[n] \in Nat
    BY <2>1 DEF NoWorse, DepthsAreNumbers
  <2> QED
    BY <2>1, <2>2
<1>2. ASSUME Cardinality(WithinIn(graph, n)) <= ReachLimit, NEW m \in WithinIn(graph, n) \cap layout.tests
      PROVE  m \in DOMAIN sel /\ sel[m] <= DepthIn(graph, n, m)
  <2>1. m \in DOMAIN old /\ old[m] <= DepthIn(graph, n, m)
    BY <1>2 DEF BestFor
  <2>2. m \in DOMAIN sel /\ sel[m] <= old[m] /\ sel[m] \in Nat /\ old[m] \in Nat
    BY <2>1 DEF NoWorse, DepthsAreNumbers
  <2>3. DepthIn(graph, n, m) \in 0 .. MaxDepth
    BY WithinHasDepth
  <2> QED
    BY <2>1, <2>2, <2>3
<1> QED
  BY <1>1, <1>2 DEF BestFor

\* All symbols within reach are looked at if there are not too many.
LEMMA AllAreReached ==
    ASSUME graph \in Graphs, NEW n \in Nodes, NEW S \in Reached(n)
    PROVE  /\ S \subseteq WithinIn(graph, n)
           /\ Cardinality(WithinIn(graph, n)) <= ReachLimit => S = WithinIn(graph, n)
<1> DEFINE W == WithinIn(graph, n)
           c == Cardinality(W)
<1>1. S \in SUBSET W /\ Cardinality(S) = Min({ReachLimit, c})
  BY WithinIs, Zenon DEF Reached
<1>2. IsFiniteSet(W) /\ c \in Nat /\ ReachLimit \in Nat
  BY WithinHasDepth, ImpactAssumption
<1> HIDE DEF W, c
<1>3. Min({ReachLimit, c}) \in {ReachLimit, c} /\ \A k \in {ReachLimit, c} : Min({ReachLimit, c}) <= k
  <2> DEFINE two == {ReachLimit, c}
  <2>1. two \in SUBSET Nat /\ two # {}
    BY <1>2
  <2> HIDE DEF two
  <2>2. Min(two) \in two /\ \A k \in two : Min(two) <= k
    BY <2>1, MinIs
  <2> QED
    BY <2>2 DEF two
<1>4. c <= ReachLimit => Cardinality(S) = c
  BY <1>1, <1>2, <1>3
<1>5. Cardinality(S) = c => S = W
  <2>1. Cardinality(W) = Cardinality(S) => S = W
    BY <1>1, <1>2, FS_Subset
  <2> QED
    BY <2>1 DEF c
<1> QED
  BY <1>1, <1>4, <1>5 DEF W, c

\* Looking at a changed symbol finds its best matches and makes no other match worse.
LEMMA SelectFinds ==
    ASSUME graph \in Graphs, NEW n \in Nodes, Select(n), DepthsAreNumbers(selected)
    PROVE  /\ DepthsAreNumbers(selected') /\ NoWorse(selected', selected)
           /\ BestFor(graph, layout, selected', n)
<1>1. PICK S \in Reached(n) :
         LET better == Nearer(n, S)
             near == {b[1] : b \in better}
             itself == {n} \cap layout.tests
         IN selected' = [m \in DOMAIN selected \cup near \cup itself |->
                            IF m \in itself THEN 0
                            ELSE IF m \in near THEN (CHOOSE b \in better : b[1] = m)[2]
                            ELSE selected[m]]
  BY Zenon DEF Select
<1> DEFINE better == Nearer(n, S)
           near == {t \in S \cap layout.tests : t \in DOMAIN selected => DepthIn(graph, n, t) < selected[t]}
           itself == {n} \cap layout.tests
<1>2. better = {<<m, DepthIn(graph, n, m)>> : m \in near}
  BY DepthIs, Zenon DEF Nearer
<1> DEFINE firsts == {b[1] : b \in better}
<1>3. firsts = near
  <2> HIDE DEF near, better
  <2>1. ASSUME NEW m \in near PROVE m \in firsts
    <3>1. <<m, DepthIn(graph, n, m)>> \in better /\ <<m, DepthIn(graph, n, m)>>[1] = m
      BY <1>2
    <3> HIDE DEF better
    <3> QED
      BY <3>1, Zenon
  <2>2. ASSUME NEW b \in better PROVE b[1] \in near
    <3>1. PICK m \in near : b = <<m, DepthIn(graph, n, m)>>
      BY <1>2
    <3> QED
      BY <3>1
  <2> QED
    BY <2>1, <2>2
<1>4. ASSUME NEW m \in near PROVE (CHOOSE b \in better : b[1] = m)[2] = DepthIn(graph, n, m)
  <2> HIDE DEF near, better
  <2>1. <<m, DepthIn(graph, n, m)>> \in better /\ \A b \in better : b[1] = m => b[2] = DepthIn(graph, n, m)
    BY <1>2, <1>4
  <2>2. <<m, DepthIn(graph, n, m)>>[1] = m
    OBVIOUS
  <2> DEFINE b0 == CHOOSE b \in better : b[1] = m
  <2>3. b0 \in better /\ b0[1] = m
    BY <2>1, <2>2, Zenon
  <2> HIDE DEF b0
  <2>4. b0[2] = DepthIn(graph, n, m)
    BY <2>1, <2>3
  <2> QED
    BY <2>4 DEF b0
<1>5. selected' = [m \in DOMAIN selected \cup near \cup itself |->
                      IF m \in itself THEN 0
                      ELSE IF m \in near THEN (CHOOSE b \in better : b[1] = m)[2]
                      ELSE selected[m]]
  <2>1. selected' = [m \in DOMAIN selected \cup firsts \cup itself |->
                        IF m \in itself THEN 0
                        ELSE IF m \in firsts THEN (CHOOSE b \in better : b[1] = m)[2]
                        ELSE selected[m]]
    BY <1>1, Zenon
  <2> HIDE DEF near, firsts, itself, better
  <2> QED
    BY <1>3, <2>1
<1>6. /\ DOMAIN selected' = DOMAIN selected \cup near \cup itself
      /\ \A m \in DOMAIN selected' :
            selected'[m] = IF m \in itself THEN 0 ELSE IF m \in near THEN DepthIn(graph, n, m) ELSE selected[m]
  <2> HIDE DEF near, itself, better
  <2> QED
    BY <1>4, <1>5
<1>7. S \subseteq WithinIn(graph, n) /\ (Cardinality(WithinIn(graph, n)) <= ReachLimit => S = WithinIn(graph, n))
  BY AllAreReached
<1>8. MaxDepth \in Nat /\ \A m \in WithinIn(graph, n) : DepthIn(graph, n, m) \in 0 .. MaxDepth
  BY WithinHasDepth, ImpactAssumption
<1>9. \A m \in near : /\ DepthIn(graph, n, m) \in Nat /\ m \in layout.tests
                      /\ m \in DOMAIN selected => DepthIn(graph, n, m) < selected[m]
  BY <1>7, <1>8
<1>10. ASSUME NEW m \in S \cap layout.tests, m \notin near
       PROVE  m \in DOMAIN selected /\ selected[m] <= DepthIn(graph, n, m)
  <2>1. m \in DOMAIN selected /\ ~ DepthIn(graph, n, m) < selected[m]
    BY <1>10
  <2>2. selected[m] \in Nat /\ DepthIn(graph, n, m) \in Nat
    BY <1>7, <1>8, <2>1 DEF DepthsAreNumbers
  <2> QED
    BY <2>1, <2>2
<1>11. n \in layout.tests <=> n \in itself
  OBVIOUS
<1> HIDE DEF near, itself
<1>12. DepthsAreNumbers(selected')
  BY <1>6, <1>9 DEF DepthsAreNumbers
<1>13. NoWorse(selected', selected)
  <2> SUFFICES ASSUME NEW m \in DOMAIN selected PROVE m \in DOMAIN selected' /\ selected'[m] <= selected[m]
    BY DEF NoWorse
  <2>1. selected[m] \in Nat /\ m \in DOMAIN selected'
    BY <1>6 DEF DepthsAreNumbers
  <2> QED
    BY <1>6, <1>9, <2>1
<1>14. n \in layout.tests => n \in DOMAIN selected' /\ selected'[n] <= 0
  BY <1>6, <1>11
<1>15. ASSUME Cardinality(WithinIn(graph, n)) <= ReachLimit, NEW m \in WithinIn(graph, n) \cap layout.tests
       PROVE  m \in DOMAIN selected' /\ selected'[m] <= DepthIn(graph, n, m)
  <2>1. m \in S \cap layout.tests /\ DepthIn(graph, n, m) \in Nat
    BY <1>7, <1>8, <1>15
  <2>2. CASE m \in itself \/ m \in near
    BY <1>6, <2>1, <2>2
  <2>3. CASE m \notin itself /\ m \notin near
    <3>1. m \in DOMAIN selected /\ selected[m] <= DepthIn(graph, n, m)
      BY <1>10, <2>1, <2>3
    <3> QED
      BY <1>6, <2>3, <3>1
  <2> QED
    BY <2>2, <2>3
<1> QED
  BY <1>12, <1>13, <1>14, <1>15 DEF BestFor

-----------------------------------------------------------------------------
(* The rules that are broken.                                              *)

\* matchPathPattern finds the paths that are the one of the pattern or lie below it.
LEMMA MatchesWhatLies ==
    ASSUME NEW path, NEW pattern, IsPath(path), IsPath(pattern.dir), pattern.dir # <<>>,
           pattern.glob \in {"*", "**", "none"}
    PROVE  Matches(pattern, path) <=> Lies(path, pattern)
<1> DEFINE d == pattern.dir
           T == ToSet(path) \cup ToSet(d)
<1>1. path \in Seq(T) /\ d \in Seq(T) /\ d # <<>>
  <2>1. path \in Seq(ToSet(path)) /\ d \in Seq(ToSet(d))
    BY DEF IsPath
  <2> DEFINE P == ToSet(path)
             D == ToSet(d)
  <2> HIDE DEF P, D
  <2>2. path \in Seq(P \cup D) /\ d \in Seq(P \cup D)
    BY <2>1 DEF P, D
  <2> QED
    BY <2>2 DEF P, D
<1> HIDE DEF d, T
<1>2. Len(path) \in Nat /\ Len(d) \in Nat /\ Len(d) # 0
  BY <1>1
<1>3. SubSeq(path, 1, Len(path)) = path /\ SubSeq(d, 1, Len(d)) = d
  BY <1>1
<1>4. ASSUME NEW k \in 1 .. Len(path) PROVE Len(SubSeq(path, 1, k)) = k
  BY <1>1, <1>2
<1>5. ASSUME Matches(pattern, path) PROVE Lies(path, pattern)
  <2>1. CASE pattern.glob \in {"**", "none"} /\ path = d
    <3>1. Len(path) \in 1 .. Len(path) /\ pattern.glob # "*"
      BY <1>2, <2>1
    <3> QED
      BY <1>3, <2>1, <3>1 DEF Lies, d
  <2>2. CASE IsStrictPrefix(d, path)
    <3>1. Len(d) <= Len(path) /\ SubSeq(d, 1, Len(d)) = SubSeq(path, 1, Len(d)) /\ d # path
      BY <2>2 DEF IsStrictPrefix, IsPrefix
    <3>2. Len(d) # Len(path)
      BY <1>3, <3>1
    <3>3. Len(d) \in 1 .. Len(path) /\ Len(d) < Len(path)
      BY <1>2, <3>1, <3>2
    <3> QED
      BY <1>3, <3>1, <3>3 DEF Lies, d
  <2> QED
    BY <1>5, <2>1, <2>2 DEF Matches, d
<1>6. ASSUME Lies(path, pattern) PROVE Matches(pattern, path)
  <2>1. PICK k \in 1 .. Len(path) : SubSeq(path, 1, k) = d /\ (k < Len(path) \/ pattern.glob # "*")
    BY <1>6 DEF Lies, d
  <2>2. k = Len(d) /\ k \in Nat
    BY <1>2, <1>4, <2>1
  <2>3. CASE k = Len(path)
    BY <1>3, <2>1, <2>3 DEF Matches, d
  <2>4. CASE k < Len(path)
    <3>1. d # path /\ Len(d) <= Len(path) /\ SubSeq(d, 1, Len(d)) = SubSeq(path, 1, Len(d))
      BY <1>2, <1>3, <2>1, <2>2, <2>4
    <3> QED
      BY <3>1 DEF Matches, IsStrictPrefix, IsPrefix, d
  <2> QED
    BY <1>2, <2>1, <2>3, <2>4
<1> QED
  BY <1>5, <1>6

\* A path is in the first layer it lies in.
IsIn(rul, path, layer) == Lies(path, rul.layers[layer]) /\ \A k \in 1 .. layer - 1 : ~ Lies(path, rul.layers[k])

\* Of an edge, all is reported that NewBreachesAreReported asks for.
AllReported(g, lay, rul, found, e) ==
    LET s == lay.file[e.src]
        t == lay.file[e.tgt]
    IN {e.src, e.tgt} \subseteq g.nodes /\ s # t =>
         /\ \A f \in rul.forbidden : Lies(s, f.from) /\ Lies(t, f.to) => <<e, f>> \in found
         /\ \A j, k \in DOMAIN rul.layers : k < j /\ IsIn(rul, s, j) /\ IsIn(rul, t, k) => <<e, "layers">> \in found

\* What is known of patterns and of the layer of a path.
LEMMA LayerIs ==
    ASSUME rules \in Rules, NEW path, IsPath(path)
    PROVE  /\ \A f \in rules.forbidden : /\ Matches(f.from, path) <=> Lies(path, f.from)
                                         /\ Matches(f.to, path) <=> Lies(path, f.to)
           /\ DOMAIN rules.layers \in SUBSET Nat
           /\ \A l \in DOMAIN rules.layers : IsIn(rules, path, l) => Layer(path) = l /\ l > 0
<1> DEFINE ls == {i \in DOMAIN rules.layers : Matches(rules.layers[i], path)}
<1>1. /\ rules.layers \in Seq(ToSet(rules.layers))
      /\ \A p \in Patterns(rules) : IsPath(p.dir) /\ p.dir # <<>> /\ p.glob \in {"*", "**", "none"}
  BY ImpactAssumption
<1>2. ASSUME NEW p \in Patterns(rules) PROVE Matches(p, path) <=> Lies(path, p)
  BY <1>1, MatchesWhatLies
<1>3. /\ \A f \in rules.forbidden : f.from \in Patterns(rules) /\ f.to \in Patterns(rules)
      /\ \A i \in DOMAIN rules.layers : rules.layers[i] \in Patterns(rules)
  BY DEF Patterns, ToSet
<1>4. DOMAIN rules.layers = 1 .. Len(rules.layers) /\ Len(rules.layers) \in Nat
  BY <1>1
<1>5. ASSUME NEW l \in DOMAIN rules.layers, IsIn(rules, path, l) PROVE Layer(path) = l /\ l > 0
  <2>1. l \in 1 .. Len(rules.layers)
    BY <1>4
  <2>2. l \in ls
    BY <1>2, <1>3, <1>5 DEF IsIn
  <2>3. ASSUME NEW i \in ls PROVE l <= i
    <3>1. i \in 1 .. Len(rules.layers) /\ Lies(path, rules.layers[i])
      BY <1>2, <1>3, <1>4, <2>3
    <3>2. i \notin 1 .. l - 1
      BY <1>5, <3>1 DEF IsIn
    <3> QED
      BY <2>1, <3>1, <3>2
  <2>4. Layer(path) = IF ls = {} THEN 0 ELSE Min(ls)
    BY Zenon DEF Layer
  <2>5. ls \in SUBSET Nat
    BY <1>4
  <2> HIDE DEF ls
  <2>6. Min(ls) \in ls /\ Min(ls) <= l
    BY <2>2, <2>5, MinIs
  <2>7. l <= Min(ls) /\ Min(ls) \in Nat /\ l \in Nat
    BY <2>3, <2>5, <2>6, <2>2
  <2> QED
    BY <2>1, <2>2, <2>4, <2>6, <2>7
<1> QED
  BY <1>2, <1>3, <1>4, <1>5

\* evaluateEdge finds of an edge all that is to be reported.
LEMMA BreachesAre ==
    ASSUME graph \in Graphs, layout \in Layouts, rules \in Rules, NEW e \in graph.edges
    PROVE  AllReported(graph, layout, rules, Breaches(e), e)
<1> DEFINE s == layout.file[e.src]
           t == layout.file[e.tgt]
<1>1. SUFFICES ASSUME {e.src, e.tgt} \subseteq graph.nodes, s # t
               PROVE  /\ \A f \in rules.forbidden : Lies(s, f.from) /\ Lies(t, f.to) => <<e, f>> \in Breaches(e)
                      /\ \A j, k \in DOMAIN rules.layers :
                            k < j /\ IsIn(rules, s, j) /\ IsIn(rules, t, k) => <<e, "layers">> \in Breaches(e)
  BY Zenon DEF AllReported
<1>2. IsPath(s) /\ IsPath(t)
  <2>1. e.src \in Nodes /\ e.tgt \in Nodes
    BY CodeGraphAssumption DEF Graph, Edge
  <2> QED
    BY <2>1, ImpactAssumption
<1>3. Breaches(e) = {<<e, r>> : r \in {f \in rules.forbidden : Matches(f.from, s) /\ Matches(f.to, t)}}
                      \cup (IF Layer(t) > 0 /\ Layer(s) > Layer(t) THEN {<<e, "layers">>} ELSE {})
  BY <1>1, Zenon DEF Breaches
<1> HIDE DEF s, t
<1>4. ASSUME NEW f \in rules.forbidden, Lies(s, f.from), Lies(t, f.to) PROVE <<e, f>> \in Breaches(e)
  <2>1. Matches(f.from, s) /\ Matches(f.to, t)
    BY <1>2, <1>4, LayerIs
  <2> QED
    BY <1>3, <2>1
<1>5. ASSUME NEW j \in DOMAIN rules.layers, NEW k \in DOMAIN rules.layers, k < j,
             IsIn(rules, s, j), IsIn(rules, t, k)
      PROVE  <<e, "layers">> \in Breaches(e)
  <2>1. Layer(s) = j /\ Layer(t) = k /\ k > 0
    BY <1>2, <1>5, LayerIs
  <2> QED
    BY <1>3, <1>5, <2>1
<1> QED
  BY <1>4, <1>5

-----------------------------------------------------------------------------
(* From the patch to the answer.                                           *)

\* The files mapped so far are the first ones of the diff.
MappingIs(g, lay, ds, syms, rest, st) ==
    /\ st = "map" => \E j \in 0 .. Len(ds) : /\ rest = SubSeq(ds, j + 1, Len(ds))
                                             /\ \A i \in 1 .. j : IsMapped(g, lay, syms, ds[i])
    /\ st \in {"select", "lint", "done"} => \A i \in DOMAIN ds : IsMapped(g, lay, syms, ds[i])

\* For the changed symbols looked at so far, the matches are the best.
SelectionIs(g, lay, syms, left, sel, st) ==
    /\ left \subseteq Named(syms) /\ DepthsAreNumbers(sel)
    /\ st \in {"select", "lint", "done"} => \A n \in Named(syms) \ left : BestFor(g, lay, sel, n)
    /\ st \in {"lint", "done"} => left = {}

\* In the end all that is to be reported of the edges of changed symbols is.
ReportIs(g, lay, rul, syms, found, st) ==
    st = "done" => \A e \in g.edges : e.kind \in DependencyKinds /\ e.src \in Named(syms)
                                      => AllReported(g, lay, rul, found, e)

ImpactInv ==
    /\ graph \in Graphs /\ layout \in Layouts /\ rules \in Rules
    /\ ReadingInv /\ (stage # "read" => IsRead)
    /\ stage \in {"read", "map", "select", "lint", "done"}
    /\ Named(changed) \subseteq graph.nodes
    /\ MappingIs(graph, layout, diffs, changed, unmapped, stage)
    /\ SelectionIs(graph, layout, changed, unselected, selected, stage)
    /\ ReportIs(graph, layout, rules, changed, violations, stage)

\* The rest of a list: its first element and what follows it.
LEMMA RestOfList ==
    ASSUME NEW T, NEW s \in Seq(T)
    PROVE  /\ s = SubSeq(s, 1, Len(s))
           /\ \A j \in 0 .. Len(s) : LET r == SubSeq(s, j + 1, Len(s))
                                     IN /\ r = <<>> => j = Len(s)
                                        /\ r # <<>> => /\ j + 1 \in 1 .. Len(s) /\ Head(r) = s[j + 1]
                                                       /\ Tail(r) = SubSeq(s, (j + 1) + 1, Len(s))
<1>1. Len(s) \in Nat
  OBVIOUS
<1>2. ASSUME NEW j \in 0 .. Len(s)
      PROVE  LET r == SubSeq(s, j + 1, Len(s))
             IN /\ r = <<>> => j = Len(s)
                /\ r # <<>> => /\ j + 1 \in 1 .. Len(s) /\ Head(r) = s[j + 1]
                               /\ Tail(r) = SubSeq(s, (j + 1) + 1, Len(s))
  <2> DEFINE r == SubSeq(s, j + 1, Len(s))
  <2>1. CASE j = Len(s)
    <3>1. r = <<>>
      BY <1>1, <2>1
    <3> QED
      BY <2>1, <3>1
  <2>2. CASE j # Len(s)
    <3> DEFINE l == Len(s)
    <3> HIDE DEF l
    <3>1. j + 1 \in 1 .. l /\ l \in j + 1 .. l
      <4>1. l \in Nat /\ j \in 0 .. l /\ j # l
        BY <1>1, <2>2 DEF l
      <4> QED
        BY <4>1
    <3>2. j + 1 \in 1 .. Len(s) /\ Len(s) \in j + 1 .. Len(s)
      BY <3>1 DEF l
    <3>3. Head(r) = s[j + 1] /\ Tail(r) = SubSeq(s, (j + 1) + 1, Len(s))
      BY <3>2, HeadTailOfSubSeq
    <3>4. r # <<>>
      <4>1. Len(r) = Len(s) - (j + 1) + 1
        BY <1>1, <3>2
      <4>2. l \in Nat /\ j \in Nat /\ j + 1 <= l
        BY <1>1, <3>1 DEF l
      <4> HIDE DEF r
      <4>3. Len(r) = l - (j + 1) + 1
        BY <4>1 DEF l
      <4>4. Len(r) # 0
        BY <4>2, <4>3
      <4> QED
        BY <4>4
    <3> QED
      BY <3>2, <3>3, <3>4
  <2> QED
    BY <2>1, <2>2
<1> QED
  BY <1>2, SubSeqFull

\* At first nothing is known.
LEMMA ImpactStarts == graph \in Graphs /\ ImpactInit => ImpactInv
<1> SUFFICES ASSUME graph \in Graphs, ImpactInit PROVE ImpactInv
  OBVIOUS
<1>1. ReadingInv
  BY ReadingStarts DEF ImpactInit
<1>2. /\ layout \in Layouts /\ rules \in Rules /\ stage = "read"
      /\ changed = {} /\ unselected = {} /\ selected = [m \in {} |-> 0]
  BY Zenon DEF ImpactInit
<1>3. Named(changed) = {}
  BY <1>2 DEF Named
<1>4. DepthsAreNumbers(selected)
  BY <1>2 DEF DepthsAreNumbers
<1> QED
  BY <1>1, <1>2, <1>3, <1>4 DEF ImpactInv, MappingIs, SelectionIs, ReportIs

\* The parser reads a line.
LEMMA ReadKeepsImpact == ImpactInv /\ Read /\ graph' = graph => ImpactInv'
<1> SUFFICES ASSUME ImpactInv, Read, graph' = graph PROVE ImpactInv'
  OBVIOUS
<1>1. /\ stage = "read" /\ DiffNext
      /\ UNCHANGED <<layout, rules, unmapped, changed, unselected, selected, violations, stage>>
  BY DEF Read
<1>2. ReadingInv'
  BY <1>1, ReadingGoesOn DEF ImpactInv
<1> QED
  BY <1>1, <1>2 DEF ImpactInv, MappingIs, SelectionIs, ReportIs

\* What the steps after the reading leave as it is.
LEMMA ReadingIsOver ==
    ASSUME ImpactInv, UNCHANGED <<graph, diffVars, layout, rules>>, stage # "read"
    PROVE  /\ graph' \in Graphs /\ layout' \in Layouts /\ rules' \in Rules
           /\ graph' = graph /\ layout' = layout /\ rules' = rules /\ diffs' = diffs
           /\ ReadingInv' /\ IsRead'
<1>1. ReadingInv'
  BY ReadingGoesOn DEF ImpactInv
<1>2. IsRead'
  BY DEF ImpactInv, IsRead, diffVars
<1> QED
  BY <1>1, <1>2 DEF ImpactInv, diffVars

\* The diff is read, and the first file of it is the first to be mapped.
LEMMA HasReadKeepsImpact == ImpactInv /\ HasRead /\ graph' = graph => ImpactInv'
<1> SUFFICES ASSUME ImpactInv, HasRead, graph' = graph PROVE ImpactInv'
  OBVIOUS
<1>1. /\ IsRead /\ stage' = "map" /\ unmapped' = diffs
      /\ UNCHANGED <<diffVars, layout, rules, changed, unselected, selected, violations>>
  BY DEF HasRead
<1>2. ReadingInv' /\ IsRead' /\ diffs' = diffs
  BY <1>1, ReadingGoesOn DEF ImpactInv, IsRead, diffVars
<1>3. diffs \in Seq(FileDiffs(patch))
  BY Zenon DEF ImpactInv, ReadingInv, Reading
<1>4. MappingIs(graph, layout, diffs, changed, unmapped, stage)'
  <2>1. unmapped' = SubSeq(diffs, 0 + 1, Len(diffs)) /\ 0 \in 0 .. Len(diffs)
    BY <1>1, <1>3, RestOfList
  <2> QED
    BY <1>1, <1>2, <2>1 DEF MappingIs
<1> QED
  BY <1>1, <1>2, <1>4 DEF ImpactInv, SelectionIs, ReportIs

\* One more file is mapped.
LEMMA MapFileKeepsImpact == ImpactInv /\ MapFile /\ graph' = graph => ImpactInv'
<1> SUFFICES ASSUME ImpactInv, MapFile, graph' = graph PROVE ImpactInv'
  OBVIOUS
<1>1. /\ stage = "map" /\ unmapped # <<>> /\ unmapped' = Tail(unmapped)
      /\ UNCHANGED <<diffVars, layout, rules, unselected, selected, violations, stage>>
  BY DEF MapFile
<1>2. /\ graph' \in Graphs /\ layout' \in Layouts /\ rules' \in Rules
      /\ graph' = graph /\ layout' = layout /\ rules' = rules /\ diffs' = diffs /\ ReadingInv' /\ IsRead'
  BY <1>1, ReadingIsOver
<1>3. diffs \in Seq(FileDiffs(patch))
  BY Zenon DEF ImpactInv, ReadingInv, Reading
<1>4. PICK j \in 0 .. Len(diffs) : /\ unmapped = SubSeq(diffs, j + 1, Len(diffs))
                                   /\ \A i \in 1 .. j : IsMapped(graph, layout, changed, diffs[i])
  BY <1>1 DEF ImpactInv, MappingIs
<1>5. /\ j + 1 \in 1 .. Len(diffs) /\ Head(unmapped) = diffs[j + 1]
      /\ unmapped' = SubSeq(diffs, (j + 1) + 1, Len(diffs))
  BY <1>1, <1>3, <1>4, RestOfList
<1>6. /\ IsMapped(graph, layout, changed', Head(unmapped))
      /\ \A fd : IsMapped(graph, layout, changed, fd) => IsMapped(graph, layout, changed', fd)
      /\ Named(changed') \subseteq graph.nodes
  BY FileIsMapped DEF ImpactInv
<1>7. MappingIs(graph, layout, diffs, changed, unmapped, stage)'
  <2>1. \A i \in 1 .. j + 1 : IsMapped(graph, layout, changed', diffs[i])
    BY <1>4, <1>5, <1>6
  <2>2. j + 1 \in 0 .. Len(diffs)
    BY <1>5
  <2>3. \E l \in 0 .. Len(diffs) : /\ unmapped' = SubSeq(diffs, l + 1, Len(diffs))
                                   /\ \A i \in 1 .. l : IsMapped(graph, layout, changed', diffs[i])
    BY <1>5, <2>1, <2>2, Zenon
  <2> QED
    BY <1>1, <1>2, <2>3 DEF MappingIs
<1>8. SelectionIs(graph, layout, changed, unselected, selected, stage)'
  <2>1. Named(changed) \subseteq Named(changed')
    BY DEF MapFile, Named
  <2> QED
    BY <1>1, <2>1 DEF ImpactInv, SelectionIs
<1> QED
  BY <1>1, <1>2, <1>6, <1>7, <1>8 DEF ImpactInv, ReportIs

\* All files are mapped, and no changed symbol is looked at so far.
LEMMA HasMappedKeepsImpact == ImpactInv /\ HasMapped /\ graph' = graph => ImpactInv'
<1> SUFFICES ASSUME ImpactInv, HasMapped, graph' = graph PROVE ImpactInv'
  OBVIOUS
<1>1. /\ stage = "map" /\ unmapped = <<>> /\ stage' = "select" /\ unselected' = Named(changed)
      /\ UNCHANGED <<diffVars, layout, rules, unmapped, changed, selected, violations>>
  BY DEF HasMapped, Named
<1>2. /\ graph' \in Graphs /\ layout' \in Layouts /\ rules' \in Rules
      /\ graph' = graph /\ layout' = layout /\ rules' = rules /\ diffs' = diffs /\ ReadingInv' /\ IsRead'
  BY <1>1, ReadingIsOver
<1>3. diffs \in Seq(FileDiffs(patch))
  BY Zenon DEF ImpactInv, ReadingInv, Reading
<1>4. \A i \in DOMAIN diffs : IsMapped(graph, layout, changed, diffs[i])
  <2>1. PICK j \in 0 .. Len(diffs) : /\ unmapped = SubSeq(diffs, j + 1, Len(diffs))
                                     /\ \A i \in 1 .. j : IsMapped(graph, layout, changed, diffs[i])
    BY <1>1 DEF ImpactInv, MappingIs
  <2>2. j = Len(diffs) /\ DOMAIN diffs = 1 .. Len(diffs)
    BY <1>1, <1>3, <2>1, RestOfList
  <2> QED
    BY <2>1, <2>2
<1>5. SelectionIs(graph, layout, changed, unselected, selected, stage)'
  BY <1>1, <1>2 DEF ImpactInv, SelectionIs
<1> QED
  BY <1>1, <1>2, <1>4, <1>5 DEF ImpactInv, MappingIs, ReportIs

\* One more changed symbol is looked at.
LEMMA SelectKeepsImpact ==
    ASSUME ImpactInv, NEW n \in unselected, Select(n), graph' = graph
    PROVE  ImpactInv'
<1>1. /\ stage = "select" /\ unselected' = unselected \ {n}
      /\ UNCHANGED <<diffVars, layout, rules, unmapped, changed, violations, stage>>
  BY Zenon DEF Select
<1>2. /\ graph' \in Graphs /\ layout' \in Layouts /\ rules' \in Rules
      /\ graph' = graph /\ layout' = layout /\ rules' = rules /\ diffs' = diffs /\ ReadingInv' /\ IsRead'
  BY <1>1, ReadingIsOver
<1>3. graph \in Graphs /\ Named(changed) \subseteq Nodes /\ n \in Nodes
  BY CodeGraphAssumption DEF ImpactInv, SelectionIs, Graph
<1>4. DepthsAreNumbers(selected) /\ unselected \subseteq Named(changed)
      /\ \A m \in Named(changed) \ unselected : BestFor(graph, layout, selected, m)
  BY <1>1 DEF ImpactInv, SelectionIs
<1>5. /\ DepthsAreNumbers(selected') /\ NoWorse(selected', selected)
      /\ BestFor(graph, layout, selected', n)
  BY <1>3, <1>4, SelectFinds
<1>6. ASSUME NEW m \in Named(changed) \ unselected PROVE BestFor(graph, layout, selected', m)
  <2>1. m \in Nodes /\ BestFor(graph, layout, selected, m)
    BY <1>3, <1>4
  <2> QED
    BY <1>3, <1>4, <1>5, <2>1, BestStaysBest
<1>7. \A m \in Named(changed) \ (unselected \ {n}) : BestFor(graph, layout, selected', m)
  BY <1>5, <1>6
<1>8. SelectionIs(graph, layout, changed, unselected, selected, stage)'
  BY <1>1, <1>2, <1>4, <1>5, <1>7 DEF SelectionIs
<1> QED
  BY <1>1, <1>2, <1>8 DEF ImpactInv, MappingIs, ReportIs

\* All changed symbols are looked at.
LEMMA HasSelectedKeepsImpact == ImpactInv /\ HasSelected /\ graph' = graph => ImpactInv'
<1> SUFFICES ASSUME ImpactInv, HasSelected, graph' = graph PROVE ImpactInv'
  OBVIOUS
<1>1. /\ stage = "select" /\ unselected = {} /\ stage' = "lint"
      /\ UNCHANGED <<diffVars, layout, rules, unmapped, changed, unselected, selected, violations>>
  BY DEF HasSelected
<1>2. /\ graph' \in Graphs /\ layout' \in Layouts /\ rules' \in Rules
      /\ graph' = graph /\ layout' = layout /\ rules' = rules /\ diffs' = diffs /\ ReadingInv' /\ IsRead'
  BY <1>1, ReadingIsOver
<1> QED
  BY <1>1, <1>2 DEF ImpactInv, MappingIs, SelectionIs, ReportIs

\* The edges of the changed symbols are checked.
LEMMA LintKeepsImpact == ImpactInv /\ Lint /\ graph' = graph => ImpactInv'
<1> SUFFICES ASSUME ImpactInv, Lint, graph' = graph PROVE ImpactInv'
  OBVIOUS
<1>1. /\ stage = "lint" /\ stage' = "done" /\ violations' = LintDiff(changed)
      /\ UNCHANGED <<diffVars, layout, rules, unmapped, changed, unselected, selected>>
  BY DEF Lint
<1>2. /\ graph' \in Graphs /\ layout' \in Layouts /\ rules' \in Rules
      /\ graph' = graph /\ layout' = layout /\ rules' = rules /\ diffs' = diffs /\ ReadingInv' /\ IsRead'
  BY <1>1, ReadingIsOver
<1>3. ASSUME NEW e \in graph.edges, e.kind \in DependencyKinds, e.src \in Named(changed)
      PROVE  AllReported(graph, layout, rules, violations', e)
  <2>1. Breaches(e) \subseteq LintDiff(changed)
    BY <1>3 DEF LintDiff, Named
  <2>2. AllReported(graph, layout, rules, Breaches(e), e)
    BY BreachesAre DEF ImpactInv
  <2> QED
    BY <1>1, <2>1, <2>2 DEF AllReported
<1>4. ReportIs(graph, layout, rules, changed, violations, stage)'
  BY <1>1, <1>2, <1>3 DEF ReportIs
<1> QED
  BY <1>1, <1>2, <1>4 DEF ImpactInv, MappingIs, SelectionIs

\* So every step keeps what is known.
LEMMA ImpactGoesOn ==
    ImpactInv /\ [ImpactNext /\ UNCHANGED graph]_<<graph, impactVars>> => ImpactInv'
<1> SUFFICES ASSUME ImpactInv, [ImpactNext /\ UNCHANGED graph]_<<graph, impactVars>> PROVE ImpactInv'
  OBVIOUS
<1>1. CASE UNCHANGED <<graph, impactVars>>
  <2>1. UNCHANGED <<graph, diffVars, layout, rules, unmapped, changed, unselected, selected, violations, stage>>
    BY <1>1 DEF impactVars
  <2>2. ReadingInv'
    BY <2>1, ReadingGoesOn DEF ImpactInv
  <2>3. IsRead' <=> IsRead
    BY <2>1 DEF IsRead, diffVars
  <2>4. diffs' = diffs
    BY <2>1 DEF diffVars
  <2> QED
    BY <2>1, <2>2, <2>3, <2>4 DEF ImpactInv
<1>2. CASE ImpactNext /\ graph' = graph
  <2>1. ASSUME NEW n \in unselected, Select(n) PROVE ImpactInv'
    BY <1>2, <2>1, SelectKeepsImpact
  <2> QED
    BY <1>2, <2>1, ReadKeepsImpact, HasReadKeepsImpact, MapFileKeepsImpact, HasMappedKeepsImpact,
       HasSelectedKeepsImpact, LintKeepsImpact DEF ImpactNext
<1> QED
  BY <1>1, <1>2

\* Between the diff and the answer nothing is lost: the files mapped are the first ones of
\* the diff, the tests selected the nearest ones for the symbols looked at, and what is
\* reported holds all that the rules forbid.
THEOREM ImpactInvHolds == ImpactSpec => []ImpactInv
<1>1. graph \in Graphs /\ ImpactInit => ImpactInv
  BY ImpactStarts
<1>2. ImpactInv /\ [ImpactNext /\ UNCHANGED graph]_<<graph, impactVars>> => ImpactInv'
  BY ImpactGoesOn
<1> QED
  BY <1>1, <1>2, PTL DEF ImpactSpec

\* The symbols the patch touched are known in the end.
LEMMA TouchedAreKnown ==
    ASSUME ImpactInv, stage = "done", AllPlain
    PROVE  Touched \subseteq Named(changed)
<1>1. \A i \in DOMAIN diffs : IsMapped(graph, layout, changed, diffs[i])
  BY DEF ImpactInv, MappingIs
<1> QED
  BY <1>1, TouchedAreNamed DEF ImpactInv

\* SelectTests selects every test that runs a symbol the patch touched, at its distance.
THEOREM TouchedTestsFound == ImpactSpec => []TouchedTestsAreSelected
<1>1. ImpactInv => TouchedTestsAreSelected
  <2> SUFFICES ASSUME ImpactInv, stage = "done", AllPlain,
                      NEW m \in layout.tests \cap graph.nodes, NEW n \in Touched,
                      NEW k \in 0 .. MaxDepth,
                      TestChain(m, n, k), Cardinality(WithinReach(n)) <= ReachLimit
               PROVE  m \in DOMAIN selected /\ selected[m] <= k
    BY DEF TouchedTestsAreSelected
  <2>1. n \in Named(changed) /\ graph \in Graphs /\ n \in Nodes
    <3>1. n \in Named(changed) /\ Named(changed) \subseteq graph.nodes /\ graph \in Graphs
      BY TouchedAreKnown DEF ImpactInv
    <3> QED
      BY <3>1, CodeGraphAssumption DEF Graph
  <2>2. BestFor(graph, layout, selected, n) /\ DepthsAreNumbers(selected)
    BY <2>1 DEF ImpactInv, SelectionIs
  <2>3. k \in 0 .. MaxDepth /\ k \in Nat
    <3>1. MaxDepth \in Nat
      BY ImpactAssumption
    <3> QED
      BY <3>1
  <2>4. CASE m = n
    <3>1. n \in DOMAIN selected /\ selected[n] <= 0
      BY <2>2, <2>4 DEF BestFor
    <3>2. selected[n] \in Nat
      BY <2>2, <3>1 DEF DepthsAreNumbers
    <3> QED
      BY <2>3, <2>4, <3>1, <3>2
  <2>5. CASE m # n
    <3>1. m \in WithinIn(graph, n) /\ DepthIn(graph, n, m) <= k
      BY <2>1, <2>3, <2>5, ChainIsWithin
    <3>2. Cardinality(WithinIn(graph, n)) <= ReachLimit
      BY WithinIs
    <3>3. m \in DOMAIN selected /\ selected[m] <= DepthIn(graph, n, m)
      BY <2>2, <3>1, <3>2 DEF BestFor
    <3>4. selected[m] \in Nat /\ DepthIn(graph, n, m) \in 0 .. MaxDepth
      BY <2>1, <2>2, <3>1, <3>3, WithinHasDepth DEF DepthsAreNumbers
    <3> QED
      BY <2>3, <3>1, <3>3, <3>4
  <2> QED
    BY <2>4, <2>5
<1> QED
  BY <1>1, ImpactInvHolds, PTL

\* LintDiff reports every dependency the patch writes that a rule forbids or the layers
\* do not allow.
THEOREM BreachesAreReported == ImpactSpec => []NewBreachesAreReported
<1>1. ImpactInv => NewBreachesAreReported
  <2> SUFFICES ASSUME ImpactInv, stage = "done", AllPlain, NEW e \in graph.edges, NEW i \in DOMAIN patch,
                      {e.src, e.tgt} \subseteq graph.nodes, layout.file[e.src] # layout.file[e.tgt],
                      layout.file[e.src] = patch[i].new, e.kind \in DependencyKinds,
                      e.line \in Span(e.src) \cap AddedBy(patch[i])
               PROVE  LET s == layout.file[e.src]
                          t == layout.file[e.tgt]
                      IN /\ \A f \in rules.forbidden : Lies(s, f.from) /\ Lies(t, f.to) => <<e, f>> \in violations
                         /\ \A j, k \in DOMAIN rules.layers :
                               k < j /\ IsIn(rules, s, j) /\ IsIn(rules, t, k) => <<e, "layers">> \in violations
    BY Zenon DEF NewBreachesAreReported, IsIn
  <2>1. e.src \in Touched
    BY DEF Touched
  <2>2. e.src \in Named(changed)
    BY <2>1, TouchedAreKnown
  <2>3. AllReported(graph, layout, rules, violations, e)
    BY <2>2 DEF ImpactInv, ReportIs
  <2> QED
    BY <2>3, Zenon DEF AllReported
<1> QED
  BY <1>1, ImpactInvHolds, PTL

=============================================================================
