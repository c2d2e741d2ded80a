----------------------------- MODULE ListProofs -----------------------------
(***************************************************************************)
(* Lemmas about numbers, lists and recursion that say nothing of the       *)
(* program: the other modules of proofs rest on them.                      *)
(***************************************************************************)
EXTENDS Integers, SequencesExt, FiniteSetTheorems, SequenceTheorems, WellFoundedInduction, TLAPS

-----------------------------------------------------------------------------
(* Recursion.  That there is a function as a definition by recursion says  *)
(* is shown for each such definition, before anything is taken from it.    *)

Less == {p \in Nat \X Nat : p[1] < p[2]}

\* The order of the natural numbers is well-founded.
LEMMA LessIsWellFounded == IsWellFoundedOn(Less, Nat)
BY NatLessThanWellFounded DEF OpToRel, Less

\* Every set of natural numbers that has an element has a least one.
LEMMA LeastNumber ==
    ASSUME NEW T \in SUBSET Nat, T # {}
    PROVE  \E m \in T : \A k \in T : m <= k
<1>1. PICK m \in T : \A k \in T : ~ (<<k, m>> \in Less)
  BY LessIsWellFounded, WFMin, Zenon
<1>2. ASSUME NEW k \in T PROVE m <= k
  <2>1. k \in Nat /\ m \in Nat /\ <<k, m>> \in Nat \X Nat
    OBVIOUS
  <2>2. ~ (<<k, m>>[1] < <<k, m>>[2])
    BY <1>1, <2>1 DEF Less
  <2> QED
    BY <2>1, <2>2
<1> QED
  BY <1>2

\* If a set of numbers has a bound, it has a greatest one.
LEMMA GreatestNumber ==
    ASSUME NEW n \in Nat, NEW T \in SUBSET (0 .. n), T # {}
    PROVE  \E m \in T : \A k \in T : k <= m
<1> DEFINE U == {n - k : k \in T}
<1>1. U \in SUBSET Nat /\ U # {}
  <2>1. \A k \in 0 .. n : n - k \in Nat
    OBVIOUS
  <2>2. \A u \in U : u \in Nat
    BY <2>1
  <2>3. PICK k \in T : TRUE
    OBVIOUS
  <2>4. n - k \in U
    BY <2>3
  <2> QED
    BY <2>2, <2>4
<1>2. PICK l \in U : \A k \in U : l <= k
  BY <1>1, LeastNumber
<1>3. PICK m \in T : l = n - m
  OBVIOUS
<1>4. ASSUME NEW k \in T PROVE k <= m
  <2>1. n - k \in U
    OBVIOUS
  <2>2. n - m <= n - k
    BY <1>2, <1>3, <2>1
  <2> QED
    BY <2>2
<1> QED
  BY <1>4

Moves(n, St, move) == move \in [(1 .. n) \X St -> St]
Walks(n, St, init, move, f) == /\ f \in [0 .. n -> St] /\ f[0] = init
                               /\ \A k \in 1 .. n : f[k] = move[<<k, f[k - 1]>>]

\* There is a function that starts with some state and goes on by steps.
LEMMA Recursion ==
    ASSUME NEW n \in Nat, NEW St, NEW init \in St, NEW move, Moves(n, St, move)
    PROVE  \E f : Walks(n, St, init, move, f)
<1> USE DEF Moves, Walks
<1> DEFINE Goes(m, f) == f[0] = init /\ \A k \in 1 .. m : f[k] = move[<<k, f[k - 1]>>]
           T == {m \in 0 .. n : ~ \E f \in [0 .. m -> St] : Goes(m, f)}
<1>1. SUFFICES ASSUME T # {} PROVE FALSE
  <2>1. n \in 0 .. n /\ n \notin T
    BY <1>1
  <2> QED
    BY <2>1
<1>2. PICK m \in T : \A k \in T : m <= k
  <2>1. T \in SUBSET Nat
    OBVIOUS
  <2> HIDE DEF T
  <2> QED
    BY <1>1, <2>1, LeastNumber
<1>3. m \in 0 .. n /\ ~ \E f \in [0 .. m -> St] : Goes(m, f)
  OBVIOUS
<1>4. m # 0
  <2> SUFFICES ASSUME m = 0 PROVE FALSE
    OBVIOUS
  <2> DEFINE f == [k \in 0 .. 0 |-> init]
  <2>1. f \in [0 .. m -> St] /\ Goes(m, f)
    OBVIOUS
  <2> QED
    BY <1>3, <2>1
<1>5. m - 1 \in 0 .. n /\ m - 1 \notin T
  <2>1. m - 1 \in 0 .. n /\ m - 1 < m
    BY <1>3, <1>4
  <2>2. m - 1 \notin T
    BY <1>2, <1>3, <2>1
  <2> QED
    BY <2>1, <2>2
<1>6. PICK g \in [0 .. m - 1 -> St] : Goes(m - 1, g)
  BY <1>5
<1> HIDE DEF T
<1> DEFINE f == [k \in 0 .. m |-> IF k = m THEN move[<<m, g[m - 1]>>] ELSE g[k]]
<1>7. g[m - 1] \in St /\ move[<<m, g[m - 1]>>] \in St
  BY <1>3, <1>4
<1>8. f \in [0 .. m -> St] /\ f[m] = move[<<m, g[m - 1]>>] /\ \A k \in 0 .. m - 1 : f[k] = g[k]
  BY <1>3, <1>4, <1>7
<1> HIDE DEF f
<1>9. Goes(m, f)
  <2>1. f[0] = init
    BY <1>3, <1>4, <1>6, <1>8
  <2>2. ASSUME NEW k \in 1 .. m PROVE f[k] = move[<<k, f[k - 1]>>]
    <3>1. k - 1 \in 0 .. m - 1 /\ f[k - 1] = g[k - 1]
      BY <1>3, <1>8
    <3>2. CASE k = m
      BY <1>8, <3>1, <3>2
    <3>3. CASE k # m
      <4>1. k \in 1 .. m - 1 /\ k \in 0 .. m - 1
        BY <1>3, <3>3
      <4> QED
        BY <1>6, <1>8, <3>1, <4>1
    <3> QED
      BY <3>2, <3>3
  <2> QED
    BY <2>1, <2>2
<1> QED
  BY <1>3, <1>8, <1>9

-----------------------------------------------------------------------------
(* Lists.                                                                  *)

\* What a function makes of a finite set is finite.
LEMMA ImagesAreFinite ==
    ASSUME NEW S, IsFiniteSet(S), NEW f, DOMAIN f = S, f = [x \in S |-> f[x]]
    PROVE  IsFiniteSet({f[x] : x \in S})
<1> DEFINE T == {f[x] : x \in S}
<1>1. f \in Surjection(S, T)
  BY DEF Surjection
<1> QED
  BY <1>1, FS_Surjection

\* A list has finitely many elements, and is a list of them.
LEMMA RangesAreFinite ==
    ASSUME NEW B, NEW s \in Seq(B)
    PROVE  IsFiniteSet(ToSet(s)) /\ s \in Seq(ToSet(s))
<1>1. DOMAIN s = 1 .. Len(s) /\ Len(s) \in Nat /\ s = [i \in DOMAIN s |-> s[i]]
  OBVIOUS
<1>2. IsFiniteSet(DOMAIN s)
  <2>1. 1 \in Int /\ Len(s) \in Int
    BY <1>1
  <2> QED
    BY <1>1, <2>1, FS_Interval
<1>3. IsFiniteSet({s[x] : x \in DOMAIN s})
  BY <1>1, <1>2, ImagesAreFinite
<1>4. \A i \in 1 .. Len(s) : s[i] \in ToSet(s)
  BY <1>1 DEF ToSet
<1>5. s \in [1 .. Len(s) -> ToSet(s)]
  BY <1>1, <1>4
<1> QED
  BY <1>1, <1>3, <1>5 DEF ToSet

\* What holds of 0, and of each number if it does of the one before, holds of all up to n.
LEMMA StepByStep ==
    ASSUME NEW n \in Nat, NEW T, 0 \in T, \A k \in 1 .. n : k - 1 \in T => k \in T
    PROVE  0 .. n \subseteq T
<1> DEFINE U == (0 .. n) \ T
<1> SUFFICES ASSUME U # {} PROVE FALSE
  OBVIOUS
<1>1. U \in SUBSET Nat
  OBVIOUS
<1> HIDE DEF U
<1>2. PICK m \in U : \A k \in U : m <= k
  BY <1>1, LeastNumber
<1>3. m \in 0 .. n /\ m \notin T
  BY DEF U
<1>4. m \in 1 .. n
  BY <1>3
<1>5. m - 1 \in 0 .. n /\ ~ (m <= m - 1)
  BY <1>4
<1>6. m - 1 \in T
  BY <1>2, <1>5 DEF U
<1> QED
  BY <1>3, <1>4, <1>6

\* f[i] is the concatenation of the first i of n lists.
Grows(f, n, seqs, B) ==
    /\ f \in [0 .. n -> Seq(B)] /\ f[0] = <<>>
    /\ \A i \in 1 .. n : f[i] = f[i - 1] \o seqs[i]

\* The concatenation of n lists is reached by appending one after the other.
LEMMA FlattenGrows ==
    ASSUME NEW B, NEW seqs, NEW n \in Nat, seqs \in [1 .. n -> Seq(B)]
    PROVE  \E f : Grows(f, n, seqs, B) /\ f[n] = FlattenSeq(seqs)
<1>1. Len(seqs) = n /\ DOMAIN seqs = 1 .. n
  OBVIOUS
<1>2. CASE n = 0
  <2>1. FlattenSeq(seqs) = seqs
    BY <1>1, <1>2, Zenon DEF FlattenSeq
  <2>2. seqs = <<>>
    BY <1>1, <1>2
  <2> DEFINE f == [i \in 0 .. 0 |-> <<>>]
  <2>3. f \in [0 .. n -> Seq(B)] /\ f[0] = <<>> /\ f[n] = FlattenSeq(seqs) /\ 1 .. n = {}
    BY <1>2, <2>1, <2>2
  <2> HIDE DEF f
  <2> QED
    BY <2>3 DEF Grows
<1>3. CASE n # 0
  <2> DEFINE St == Seq(B)
             move == [p \in (1 .. n) \X St |-> p[2] \o seqs[p[1]]]
             Body(f) == [i \in 1 .. Len(seqs) |-> IF i = 1 THEN seqs[i] ELSE f[i - 1] \o seqs[i]]
  <2>1. <<>> \in St /\ move \in [(1 .. n) \X St -> St]
        /\ \A i \in 1 .. n, s \in St : move[<<i, s>>] = s \o seqs[i] /\ seqs[i] \in St
    <3>1. \A i \in 1 .. n, s \in St : s \o seqs[i] \in St /\ seqs[i] \in St
      OBVIOUS
    <3>2. <<>> \in St
      OBVIOUS
    <3> HIDE DEF St
    <3>3. \A p \in (1 .. n) \X St : p[1] \in 1 .. n /\ p[2] \in St
      OBVIOUS
    <3>4. move \in [(1 .. n) \X St -> St]
      BY <3>1, <3>3
    <3>5. \A i \in 1 .. n, s \in St : move[<<i, s>>] = s \o seqs[i]
      OBVIOUS
    <3> QED
      BY <3>1, <3>2, <3>4, <3>5
  <2>2. \A s \in St : <<>> \o s = s
    OBVIOUS
  <2> HIDE DEF St, move
  <2>3. PICK f \in [0 .. n -> St] : f[0] = <<>> /\ \A i \in 1 .. n : f[i] = move[<<i, f[i - 1]>>]
    <3>1. Moves(n, St, move)
      BY <2>1 DEF Moves
    <3>2. \E f : Walks(n, St, <<>>, move, f)
      BY <2>1, <3>1, Recursion
    <3> QED
      BY <3>2 DEF Walks
  <2>4. ASSUME NEW i \in 1 .. n PROVE f[i] = IF i = 1 THEN seqs[i] ELSE f[i - 1] \o seqs[i]
    <3>1. i - 1 \in 0 .. n
      OBVIOUS
    <3>2. f[i] = f[i - 1] \o seqs[i] /\ seqs[i] \in St
      BY <2>1, <2>3, <3>1
    <3>3. CASE i = 1
      <4>1. f[i - 1] = <<>>
        BY <2>3, <3>3
      <4> QED
        BY <2>2, <3>2, <3>3, <4>1
    <3> QED
      BY <3>2, <3>3
  <2> DEFINE g == [i \in 1 .. n |-> f[i]]
  <2>5. g = Body(g)
    <3>1. ASSUME NEW i \in 1 .. n, i # 1 PROVE g[i - 1] = f[i - 1]
      <4>1. i - 1 \in 1 .. n
        BY <3>1
      <4> QED
        BY <4>1
    <3>2. \A i \in 1 .. n : g[i] = f[i]
      OBVIOUS
    <3>3. DOMAIN g = 1 .. n /\ g = [i \in 1 .. n |-> g[i]]
      OBVIOUS
    <3> HIDE DEF g
    <3>4. \A i \in 1 .. n : g[i] = IF i = 1 THEN seqs[i] ELSE g[i - 1] \o seqs[i]
      BY <2>4, <3>1, <3>2
    <3> QED
      BY <1>1, <3>3, <3>4
  <2> HIDE DEF Body, g
  <2> DEFINE h == CHOOSE x : x = Body(x)
  <2>6. h = Body(h)
    BY <2>5, Zenon
  <2>7. FlattenSeq(seqs) = h[n]
    <3>1. Len(seqs) # 0
      BY <1>1, <1>3
    <3>2. FlattenSeq(seqs) = h[Len(seqs)]
      BY <3>1, Zenon DEF FlattenSeq, Body
    <3> QED
      BY <1>1, <3>2
  <2>8. \A i \in 1 .. n : Body(h)[i] = IF i = 1 THEN seqs[i] ELSE h[i - 1] \o seqs[i]
    BY <1>1 DEF Body
  <2> HIDE DEF h
  <2>9. \A i \in 1 .. n : h[i] = IF i = 1 THEN seqs[i] ELSE h[i - 1] \o seqs[i]
    BY <2>6, <2>8
  <2>f. \A i \in 1 .. n : f[i] = IF i = 1 THEN seqs[i] ELSE f[i - 1] \o seqs[i]
    BY <2>4
  <2> DEFINE T == {i \in 0 .. n : i > 0 => h[i] = f[i]}
  <2>10. 0 .. n \subseteq T
    <3>1. 0 \in T
      OBVIOUS
    <3>2. ASSUME NEW k \in 1 .. n, k - 1 \in T PROVE k \in T
      <4>1. CASE k = 1
        BY <2>9, <2>f, <4>1
      <4>2. CASE k # 1
        <5>1. k - 1 > 0 /\ k - 1 \in 1 .. n
          BY <4>2
        <5>2. h[k - 1] = f[k - 1]
          BY <3>2, <5>1
        <5> QED
          BY <2>9, <2>f, <4>2, <5>2
      <4> QED
        BY <4>1, <4>2
    <3> HIDE DEF T
    <3> QED
      BY <3>1, <3>2, StepByStep
  <2>11. h[n] = f[n]
    BY <1>3, <2>10
  <2>12. \A i \in 1 .. n : f[i] = f[i - 1] \o seqs[i]
    <3> SUFFICES ASSUME NEW i \in 1 .. n PROVE f[i] = f[i - 1] \o seqs[i]
      OBVIOUS
    <3>1. i - 1 \in 0 .. n
      OBVIOUS
    <3> QED
      BY <2>1, <2>3, <3>1
  <2>13. f \in [0 .. n -> Seq(B)]
    BY <2>3 DEF St
  <2> QED
    BY <2>3, <2>7, <2>11, <2>12, <2>13 DEF Grows
<1> QED
  BY <1>2, <1>3

\* Lists one after the other are a list.
LEMMA FlattenIs ==
    ASSUME NEW B, NEW seqs, NEW n \in Nat, seqs \in [1 .. n -> Seq(B)]
    PROVE  FlattenSeq(seqs) \in Seq(B)
<1>1. PICK f : Grows(f, n, seqs, B) /\ f[n] = FlattenSeq(seqs)
  BY FlattenGrows
<1>2. n \in 0 .. n
  OBVIOUS
<1> QED
  BY <1>1, <1>2 DEF Grows

\* R[i] is what is left of lists one after the other from the i-th on.
AreRests(R, n, seqs, B) ==
    /\ R \in [1 .. n + 1 -> Seq(B)]
    /\ R[1] = FlattenSeq(seqs) /\ R[n + 1] = <<>>
    /\ \A i \in 1 .. n : R[i] = seqs[i] \o R[i + 1]

\* There are such rests: each begins with a list of its own and goes on with the next.
LEMMA RestsExist ==
    ASSUME NEW B, NEW seqs, NEW n \in Nat, seqs \in [1 .. n -> Seq(B)]
    PROVE  \E R : AreRests(R, n, seqs, B)
<1>gr. PICK f : Grows(f, n, seqs, B) /\ f[n] = FlattenSeq(seqs)
  BY FlattenGrows
<1>7. /\ f \in [0 .. n -> Seq(B)] /\ f[0] = <<>> /\ f[n] = FlattenSeq(seqs)
      /\ \A i \in 1 .. n : f[i] = f[i - 1] \o seqs[i]
  BY <1>gr DEF Grows
<1> DEFINE St == Seq(B)
           move == [p \in (1 .. n) \X St |-> seqs[n + 1 - p[1]] \o p[2]]
<1>1. /\ <<>> \in St /\ \A s \in St : <<>> \o s = s /\ s \o <<>> = s
      /\ \A r, s \in St : r \o s \in St
      /\ \A r, s, u \in St : r \o (s \o u) = (r \o s) \o u
  OBVIOUS
<1>2. \A i \in 1 .. n : seqs[i] \in St /\ n + 1 - i \in 1 .. n
  OBVIOUS
<1> HIDE DEF St
<1>3. move \in [(1 .. n) \X St -> St]
  <2>1. ASSUME NEW p \in (1 .. n) \X St PROVE seqs[n + 1 - p[1]] \o p[2] \in St
    <3>1. p[1] \in 1 .. n /\ p[2] \in St
      OBVIOUS
    <3> QED
      BY <1>1, <1>2, <3>1
  <2> QED
    BY <2>1
<1>4. \A i \in 1 .. n, s \in St : move[<<i, s>>] = seqs[n + 1 - i] \o s
  OBVIOUS
<1> HIDE DEF move
<1>5. PICK g : /\ g \in [0 .. n -> St] /\ g[0] = <<>>
               /\ \A k \in 1 .. n : g[k] = move[<<k, g[k - 1]>>]
  <2>1. Moves(n, St, move)
    BY <1>3 DEF Moves
  <2>2. \E w : Walks(n, St, <<>>, move, w)
    BY <1>1, <2>1, Recursion
  <2> QED
    BY <2>2 DEF Walks
<1>6. ASSUME NEW k \in 1 .. n
      PROVE  g[k] = seqs[n + 1 - k] \o g[k - 1] /\ g[k - 1] \in St
  <2>1. k - 1 \in 0 .. n
    OBVIOUS
  <2> QED
    BY <1>4, <1>5, <2>1
<1>f. f \in [0 .. n -> St]
  BY <1>7 DEF St
<1> DEFINE T == {k \in 0 .. n : f[k] \o g[n - k] = g[n]}
<1>8. 0 .. n \subseteq T
  <2>1. 0 \in T
    <3>1. 0 \in 0 .. n /\ n - 0 = n /\ n \in 0 .. n
      OBVIOUS
    <3>2. f[0] \o g[n - 0] = g[n]
      BY <1>1, <1>5, <1>7, <1>f, <3>1
    <3> QED
      BY <3>1, <3>2
  <2>2. ASSUME NEW k \in 1 .. n, k - 1 \in T PROVE k \in T
    <3>1. /\ k - 1 \in 0 .. n /\ n - k \in 0 .. n /\ n - (k - 1) \in 1 .. n
          /\ n + 1 - (n - (k - 1)) = k /\ n - (k - 1) - 1 = n - k
      OBVIOUS
    <3>2. g[n - (k - 1)] = seqs[k] \o g[n - k]
      BY <1>6, <3>1
    <3>3. f[k] = f[k - 1] \o seqs[k] /\ f[k - 1] \in St /\ seqs[k] \in St /\ g[n - k] \in St
      BY <1>2, <1>5, <1>7, <1>f, <3>1
    <3>4. f[k - 1] \o g[n - (k - 1)] = g[n]
      BY <2>2
    <3> HIDE DEF T
    <3>5. f[k - 1] \o (seqs[k] \o g[n - k]) = (f[k - 1] \o seqs[k]) \o g[n - k]
      <4> DEFINE r == f[k - 1]
                 s == seqs[k]
                 u == g[n - k]
      <4>1. r \in St /\ s \in St /\ u \in St
        BY <3>3
      <4> HIDE DEF r, s, u
      <4>2. r \o (s \o u) = (r \o s) \o u
        BY <1>1, <4>1
      <4> QED
        BY <4>2 DEF r, s, u
    <3>6. f[k] \o g[n - k] = g[n] /\ k \in 0 .. n
      <4>1. f[k] \o g[n - k] = f[k - 1] \o g[n - (k - 1)]
        BY <3>2, <3>3, <3>5, Zenon
      <4> QED
        BY <3>4, <4>1
    <3> QED
      BY <3>6 DEF T
  <2> HIDE DEF T
  <2> QED
    BY <2>1, <2>2, StepByStep
<1>9. g[n] = FlattenSeq(seqs)
  <2>1. n - n = 0 /\ n \in 0 .. n
    OBVIOUS
  <2>2. f[n] \o g[n - n] = g[n]
    <3> HIDE DEF T
    <3>1. n \in T
      BY <1>8, <2>1
    <3> QED
      BY <3>1 DEF T
  <2> QED
    BY <1>1, <1>5, <1>7, <1>f, <2>1, <2>2
<1> DEFINE R == [i \in 1 .. n + 1 |-> g[n + 1 - i]]
<1>10. \A i \in 1 .. n + 1 : n + 1 - i \in 0 .. n /\ R[i] = g[n + 1 - i]
  OBVIOUS
<1>11. R \in [1 .. n + 1 -> Seq(B)]
  BY <1>5, <1>10 DEF St
<1>12. R[1] = FlattenSeq(seqs) /\ R[n + 1] = <<>>
  <2>1. 1 \in 1 .. n + 1 /\ n + 1 \in 1 .. n + 1 /\ n + 1 - 1 = n /\ n + 1 - (n + 1) = 0
    OBVIOUS
  <2> HIDE DEF R
  <2> QED
    BY <1>5, <1>9, <1>10, <2>1
<1>13. ASSUME NEW i \in 1 .. n PROVE R[i] = seqs[i] \o R[i + 1]
  <2>1. /\ i \in 1 .. n + 1 /\ i + 1 \in 1 .. n + 1 /\ n + 1 - i \in 1 .. n
        /\ n + 1 - (n + 1 - i) = i /\ n + 1 - i - 1 = n + 1 - (i + 1)
    OBVIOUS
  <2> HIDE DEF R
  <2>2. R[i] = g[n + 1 - i] /\ R[i + 1] = g[n + 1 - (i + 1)]
    BY <1>10, <2>1
  <2>3. g[n + 1 - i] = seqs[n + 1 - (n + 1 - i)] \o g[n + 1 - i - 1]
    <3> DEFINE k == n + 1 - i
    <3>1. k \in 1 .. n
      BY <2>1
    <3> HIDE DEF k
    <3>2. g[k] = seqs[n + 1 - k] \o g[k - 1]
      BY <1>6, <3>1
    <3>3. k = n + 1 - i
      BY DEF k
    <3> QED
      BY <3>2, <3>3
  <2> QED
    BY <2>1, <2>2, <2>3
<1> HIDE DEF R
<1> QED
  BY <1>11, <1>12, <1>13 DEF AreRests

\* The list of nothing.
LEMMA NothingIn == /\ <<>> \o <<>> = <<>>
                   /\ \A s : DOMAIN s = {} /\ s = [i \in DOMAIN s |-> s[i]] => s = <<>>
<1>1. <<>> \o <<>> = <<>>
  OBVIOUS
<1>2. \A s : DOMAIN s = {} /\ s = [i \in DOMAIN s |-> s[i]] => s = <<>>
  OBVIOUS
<1> QED
  BY <1>1, <1>2

\* A list of two is two lists of one.
LEMMA TwoInOrder == ASSUME NEW x, NEW y PROVE <<x, y>> = <<x>> \o <<y>>
<1> DEFINE s == <<x>> \o <<y>>
<1>1. s \in Seq({x, y}) /\ Len(s) = 2 /\ s[1] = x /\ s[2] = y
  OBVIOUS
<1> HIDE DEF s
<1>2. s = <<x, y>>
  BY <1>1
<1> QED
  BY <1>2 DEF s

Joined(r, s) == r \o s

\* It makes no difference which of three lists are joined first.
LEMMA JoinedTwice ==
    ASSUME NEW T
    PROVE  /\ \A r, s \in Seq(T) : Joined(r, s) \in Seq(T)
           /\ \A r, s, u \in Seq(T) : Joined(Joined(r, s), u) = Joined(r, Joined(s, u))
<1>1. \A r, s \in Seq(T) : r \o s \in Seq(T)
  OBVIOUS
<1>2. ASSUME NEW r \in Seq(T), NEW s \in Seq(T), NEW u \in Seq(T)
      PROVE  (r \o s) \o u = r \o (s \o u)
  OBVIOUS
<1> QED
  BY <1>1, <1>2, Zenon DEF Joined

Together(a, b, c, d, e, f, g) == a \o b \o c \o (d \o e) \o f \o g
OneByOne(b, c, d, e, f, g, h) == b \o (c \o (d \o (e \o (f \o (g \o h)))))
AreLists(T, a, b, c, d, e, f, g, h) ==
    /\ a \in Seq(T) /\ b \in Seq(T) /\ c \in Seq(T) /\ d \in Seq(T)
    /\ e \in Seq(T) /\ f \in Seq(T) /\ g \in Seq(T) /\ h \in Seq(T)

\* Seven lists one after the other, and one more.
LEMMA AllInOrder ==
    ASSUME NEW T, NEW a, NEW b, NEW c, NEW d, NEW e, NEW f, NEW g, NEW h,
           AreLists(T, a, b, c, d, e, f, g, h)
    PROVE  /\ Together(a, b, c, d, e, f, g) \in Seq(T)
           /\ Joined(Together(a, b, c, d, e, f, g), h) = Joined(a, OneByOne(b, c, d, e, f, g, h))
<1> DEFINE St == Seq(T)
<1>1. \A r, s \in St : Joined(r, s) \in St
  BY JoinedTwice
<1>2. \A r, s, u \in St : Joined(Joined(r, s), u) = Joined(r, Joined(s, u))
  BY JoinedTwice
<1>3. a \in St /\ b \in St /\ c \in St /\ d \in St /\ e \in St /\ f \in St /\ g \in St /\ h \in St
  BY DEF AreLists
<1> DEFINE all == Joined(Joined(Joined(Joined(Joined(a, b), c), Joined(d, e)), f), g)
<1>4. a \o b \o c \o (d \o e) \o f \o g = all
  BY Zenon DEF Joined
<1>5. /\ all \in St
      /\ Joined(all, h) = Joined(a, Joined(b, Joined(c, Joined(d, Joined(e, Joined(f, Joined(g, h)))))))
  <2> HIDE DEF St
  <2>1. Joined(g, h) \in St /\ Joined(f, Joined(g, h)) \in St /\ Joined(d, e) \in St
    BY <1>1, <1>3
  <2>2. Joined(a, b) \in St /\ Joined(Joined(a, b), c) \in St /\ Joined(Joined(Joined(a, b), c), Joined(d, e)) \in St
    BY <1>1, <1>3, <2>1
  <2>3. Joined(Joined(Joined(Joined(a, b), c), Joined(d, e)), f) \in St /\ all \in St
    BY <1>1, <1>3, <2>2
  <2>4. Joined(e, Joined(f, Joined(g, h))) \in St /\ Joined(d, Joined(e, Joined(f, Joined(g, h)))) \in St
        /\ Joined(c, Joined(d, Joined(e, Joined(f, Joined(g, h))))) \in St
    BY <1>1, <1>3, <2>1
  <2>5. Joined(all, h) = Joined(Joined(Joined(Joined(Joined(a, b), c), Joined(d, e)), f), Joined(g, h))
    BY <1>2, <1>3, <2>3
  <2>6. Joined(Joined(Joined(Joined(Joined(a, b), c), Joined(d, e)), f), Joined(g, h))
          = Joined(Joined(Joined(Joined(a, b), c), Joined(d, e)), Joined(f, Joined(g, h)))
    BY <1>2, <1>3, <2>1, <2>2
  <2>7. Joined(Joined(Joined(Joined(a, b), c), Joined(d, e)), Joined(f, Joined(g, h)))
          = Joined(Joined(Joined(a, b), c), Joined(Joined(d, e), Joined(f, Joined(g, h))))
    BY <1>2, <2>1, <2>2
  <2>8. Joined(Joined(d, e), Joined(f, Joined(g, h))) = Joined(d, Joined(e, Joined(f, Joined(g, h))))
    BY <1>2, <1>3, <2>1
  <2> DEFINE v == Joined(d, Joined(e, Joined(f, Joined(g, h))))
  <2>9. Joined(Joined(Joined(a, b), c), v) = Joined(a, Joined(b, Joined(c, v)))
    <3>1. v \in St
      BY <2>4
    <3> HIDE DEF v, all
    <3>2. Joined(Joined(Joined(a, b), c), v) = Joined(Joined(a, b), Joined(c, v)) /\ Joined(c, v) \in St
      BY <1>1, <1>2, <1>3, <2>2, <3>1
    <3> QED
      BY <1>2, <1>3, <3>2
  <2> QED
    BY <2>3, <2>5, <2>6, <2>7, <2>8, <2>9
<1>6. Together(a, b, c, d, e, f, g) = all
  BY <1>4, Zenon DEF Together
<1>7. Joined(a, Joined(b, Joined(c, Joined(d, Joined(e, Joined(f, Joined(g, h)))))))
        = Joined(a, OneByOne(b, c, d, e, f, g, h))
  BY Zenon DEF Joined, OneByOne
<1> HIDE DEF all
<1> QED
  BY <1>5, <1>6, <1>7, Zenon DEF St

-----------------------------------------------------------------------------
(* The first of a set.                                                     *)

\* The elements of S with fewer than L before them, R being the order of S.
Firsts(S, R, L) == {n \in S : Cardinality({m \in S : <<m, n>> \in R}) < L}

\* Of a finite set in a strict total order R, the elements with fewer than L before them
\* are the first ones: L of them, if there are so many, and all of them otherwise.
LEMMA FirstOnes ==
    ASSUME NEW S, IsFiniteSet(S), NEW R,
           \A m, n \in S : m = n \/ <<m, n>> \in R \/ <<n, m>> \in R,
           \A n \in S : <<n, n>> \notin R,
           \A l, m, n \in S : <<l, m>> \in R /\ <<m, n>> \in R => <<l, n>> \in R,
           NEW L \in Int
    PROVE  /\ \A n \in Firsts(S, R, L), m \in S : <<m, n>> \in R => m \in Firsts(S, R, L)
           /\ 0 <= L /\ L <= Cardinality(S) => Cardinality(Firsts(S, R, L)) = L
           /\ Cardinality(S) <= L => Firsts(S, R, L) = S
<1> DEFINE Before(n) == {m \in S : <<m, n>> \in R}
           First == {n \in S : Cardinality(Before(n)) < L}
           c == Cardinality(S)
<1>1. ASSUME NEW n \in S PROVE IsFiniteSet(Before(n)) /\ Cardinality(Before(n)) \in 0 .. c - 1
  <2>1. Before(n) \in SUBSET S /\ n \notin Before(n)
    OBVIOUS
  <2>2. IsFiniteSet(Before(n)) /\ Cardinality(Before(n)) <= c /\ Cardinality(Before(n)) # c
    BY <2>1, FS_Subset
  <2>3. Cardinality(Before(n)) \in Nat /\ c \in Nat
    BY <2>2, FS_CardinalityType
  <2> QED
    BY <2>2, <2>3
<1>2. ASSUME NEW m \in S, NEW n \in S, <<m, n>> \in R
      PROVE  Cardinality(Before(m)) < Cardinality(Before(n))
  <2>1. Before(m) \in SUBSET Before(n) /\ m \in Before(n) /\ m \notin Before(m)
    BY <1>2
  <2>2. Cardinality(Before(m)) <= Cardinality(Before(n)) /\ Cardinality(Before(m)) # Cardinality(Before(n))
    <3> HIDE DEF Before
    <3> QED
      BY <1>1, <2>1, FS_Subset
  <2>3. Cardinality(Before(m)) \in Int /\ Cardinality(Before(n)) \in Int
    <3> HIDE DEF Before
    <3> QED
      BY <1>1
  <2> QED
    BY <2>2, <2>3
<1>3. \A n \in First, m \in S : <<m, n>> \in R => m \in First
  <2> HIDE DEF Before
  <2> QED
    BY <1>1, <1>2
<1>4. c \in Nat /\ IsFiniteSet(0 .. c - 1) /\ Cardinality(0 .. c - 1) = c
  <2>1. c \in Nat
    BY FS_CardinalityType
  <2>2. 0 \in Int /\ c - 1 \in Int /\ (IF 0 > c - 1 THEN 0 ELSE (c - 1) - 0 + 1) = c
    BY <2>1
  <2>3. IsFiniteSet(0 .. c - 1) /\ Cardinality(0 .. c - 1) = IF 0 > c - 1 THEN 0 ELSE (c - 1) - 0 + 1
    <3> HIDE DEF c
    <3> QED
      BY <2>2, FS_Interval
  <2> QED
    BY <2>1, <2>2, <2>3
<1>5. c <= L => First = S
  <2> HIDE DEF Before
  <2> QED
    BY <1>1, <1>4
<1> DEFINE place == [n \in S |-> Cardinality(Before(n))]
<1>6. place \in Injection(S, 0 .. c - 1)
  <2> HIDE DEF Before
  <2>1. place \in [S -> 0 .. c - 1]
    BY <1>1
  <2>2. ASSUME NEW m \in S, NEW n \in S, place[m] = place[n] PROVE m = n
    <3>1. ~ (<<m, n>> \in R) /\ ~ (<<n, m>> \in R)
      BY <1>1, <1>2, <2>2
    <3> QED
      BY <3>1
  <2> QED
    BY <2>1, <2>2 DEF Injection, IsInjective
<1>7. ASSUME 0 <= L, L <= c PROVE Cardinality(First) = L
  <2> HIDE DEF place
  <2>1. place \in Surjection(S, 0 .. c - 1)
    BY <1>4, <1>6, FS_Injection
  <2> DEFINE some == [n \in First |-> place[n]]
  <2>2. \A n \in S : place[n] = Cardinality(Before(n))
    BY DEF place
  <2>3. some \in Bijection(First, 0 .. L - 1)
    <3> HIDE DEF Before
    <3>1. some \in [First -> 0 .. L - 1]
      BY <1>1, <2>2
    <3>2. \A m, n \in First : some[m] = some[n] => m = n
      BY <1>6 DEF Injection, IsInjective
    <3>3. ASSUME NEW i \in 0 .. L - 1 PROVE \E n \in First : some[n] = i
      <4>1. i \in 0 .. c - 1 /\ i < L
        BY <1>4, <1>7
      <4>2. PICK n \in S : place[n] = i
        BY <2>1, <4>1 DEF Surjection
      <4> QED
        BY <2>2, <4>1, <4>2
    <3> QED
      BY <3>1, <3>2, <3>3 DEF Bijection, Injection, Surjection, IsInjective
  <2>4. First \in SUBSET S /\ IsFiniteSet(First)
    BY FS_Subset
  <2>5. Cardinality(0 .. L - 1) = Cardinality(First)
    <3> HIDE DEF First, some
    <3> QED
      BY <2>3, <2>4, FS_Bijection DEF ExistsBijection
  <2> QED
    BY <1>7, <2>5, FS_Interval
<1> QED
  BY <1>3, <1>5, <1>7 DEF Firsts
=============================================================================
