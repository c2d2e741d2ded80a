---------------------------- MODULE PassesProofs ----------------------------
(* Proofs about the two passes: about what the plugins extract of a file,  *)
(* for all files, and about Resolver, for all repositories that pass 1 may *)
(* hand over.                                                              *)
EXTENDS Passes, ListProofs

-----------------------------------------------------------------------------
(* Syntax trees.                                                           *)

\* Each node comes after its parent.
IsTree(t) == t \in Seq(ToSet(t)) /\ \A i \in 1 .. Len(t) : t[i].up \in 0 .. i - 1

UpsOnce(t, f) == [j \in 0 .. Len(t) |-> IF j = 0 THEN {} ELSE {j} \cup f[t[j].up]]
UpsIn(t) == CHOOSE f : f = UpsOnce(t, f)

\* The function Around reads is there: it is filled one node after the other.
LEMMA UpsExist ==
    ASSUME NEW t, IsTree(t)
    PROVE  \E f : f = UpsOnce(t, f)
<1> DEFINE n == Len(t)
           St == [0 .. n -> SUBSET Nat]
           Fill(j, s) == [s EXCEPT ![j] = {j} \cup s[t[j].up]]
           move == [p \in (1 .. n) \X St |-> Fill(p[1], p[2])]
           init == [j \in 0 .. n |-> {}]
<1>1. n \in Nat /\ \A j \in 1 .. n : t[j].up \in 0 .. j - 1 /\ t[j].up \in 0 .. n
  BY DEF IsTree
<1> HIDE DEF n
<1>2. init \in St
  OBVIOUS
<1>3. ASSUME NEW j \in 1 .. n, NEW s \in St
      PROVE  /\ Fill(j, s) \in St /\ Fill(j, s)[j] = {j} \cup s[t[j].up]
             /\ \A i \in 0 .. n : i # j => Fill(j, s)[i] = s[i]
  <2>1. t[j].up \in 0 .. n /\ j \in 0 .. n /\ j \in Nat
    BY <1>1
  <2> DEFINE v == {j} \cup s[t[j].up]
  <2>2. v \in SUBSET Nat
    BY <2>1
  <2> HIDE DEF v
  <2>3. [s EXCEPT ![j] = v] \in St /\ [s EXCEPT ![j] = v][j] = v
        /\ \A i \in 0 .. n : i # j => [s EXCEPT ![j] = v][i] = s[i]
    BY <2>1, <2>2
  <2> QED
    BY <2>3 DEF v
<1> HIDE DEF Fill, init
<1>4. PICK w : Walks(n, St, init, move, w)
  <2> HIDE DEF St
  <2>1. Moves(n, St, move)
    <3>1. ASSUME NEW p \in (1 .. n) \X St PROVE Fill(p[1], p[2]) \in St
      <4>1. p[1] \in 1 .. n /\ p[2] \in St
        OBVIOUS
      <4> QED
        BY <1>3, <4>1
    <3> QED
      BY <3>1 DEF Moves
  <2> HIDE DEF move
  <2> QED
    BY <1>1, <1>2, <2>1, Recursion
<1>5. /\ w \in [0 .. n -> St] /\ w[0] = init
      /\ \A k \in 1 .. n : k - 1 \in 0 .. n /\ w[k - 1] \in St /\ w[k] = Fill(k, w[k - 1])
  <2> HIDE DEF St
  <2>1. /\ w \in [0 .. n -> St] /\ w[0] = init
        /\ \A k \in 1 .. n : w[k] = move[<<k, w[k - 1]>>]
    BY <1>4 DEF Walks
  <2>2. \A k \in 1 .. n, s \in St : move[<<k, s>>] = Fill(k, s)
    OBVIOUS
  <2>3. \A k \in 1 .. n : k - 1 \in 0 .. n
    BY <1>1
  <2> HIDE DEF move
  <2> QED
    BY <2>1, <2>2, <2>3
<1> DEFINE T == {k \in 0 .. n : w[k][0] = {} /\ \A j \in 1 .. k : w[k][j] = {j} \cup w[k][t[j].up]}
<1>6. 0 .. n \subseteq T
  <2>1. 0 \in T
    <3>1. 0 \in 0 .. n /\ w[0][0] = {}
      BY <1>1, <1>5 DEF init
    <3> QED
      BY <3>1
  <2>2. ASSUME NEW k \in 1 .. n, k - 1 \in T PROVE k \in T
    <3>1. /\ \A i \in 0 .. n : i # k => w[k][i] = w[k - 1][i]
          /\ w[k][k] = {k} \cup w[k - 1][t[k].up]
      BY <1>3, <1>5
    <3>2. k \in 0 .. n /\ w[k][0] = {}
      BY <1>1, <2>2, <3>1
    <3>3. ASSUME NEW j \in 1 .. k PROVE w[k][j] = {j} \cup w[k][t[j].up]
      <4>1. j \in 1 .. n /\ j \in 0 .. n /\ t[j].up \in 0 .. n /\ t[j].up # k
        BY <1>1
      <4>2. CASE j = k
        BY <3>1, <4>1, <4>2
      <4>3. CASE j # k
        <5>1. j \in 1 .. k - 1
          BY <4>3
        <5>2. w[k - 1][j] = {j} \cup w[k - 1][t[j].up]
          BY <2>2, <5>1
        <5> QED
          BY <3>1, <4>1, <4>3, <5>2
      <4> QED
        BY <4>2, <4>3
    <3> QED
      BY <3>2, <3>3
  <2> HIDE DEF T
  <2> QED
    BY <1>1, <2>1, <2>2, StepByStep
<1> DEFINE f == w[n]
<1>7. f \in St /\ f[0] = {} /\ \A j \in 1 .. n : f[j] = {j} \cup f[t[j].up]
  <2>1. n \in 0 .. n
    BY <1>1
  <2> QED
    BY <1>5, <1>6, <2>1
<1> HIDE DEF f
<1>8. f = [j \in 0 .. n |-> f[j]] /\ \A j \in 0 .. n : f[j] = IF j = 0 THEN {} ELSE {j} \cup f[t[j].up]
  BY <1>1, <1>7
<1>9. f = UpsOnce(t, f)
  BY <1>8 DEF UpsOnce, n
<1> QED
  BY <1>9

\* What that function says.
LEMMA UpsAre ==
    ASSUME NEW t, IsTree(t)
    PROVE  LET h == UpsIn(t)
           IN h[0] = {} /\ \A j \in 1 .. Len(t) : h[j] = {j} \cup h[t[j].up]
<1> DEFINE h == UpsIn(t)
<1>1. h = UpsOnce(t, h)
  BY UpsExist, Zenon DEF UpsIn
<1>2. Len(t) \in Nat
  BY DEF IsTree
<1> DEFINE u == UpsOnce(t, h)
<1>3. \A j \in 0 .. Len(t) : u[j] = IF j = 0 THEN {} ELSE {j} \cup h[t[j].up]
  <2> HIDE DEF h
  <2> QED
    BY DEF UpsOnce
<1> HIDE DEF u, h
<1>4. h = u
  BY <1>1 DEF u
<1>5. 0 \in 0 .. Len(t) /\ \A j \in 1 .. Len(t) : j \in 0 .. Len(t) /\ j # 0
  BY <1>2
<1>6. h[0] = {} /\ \A j \in 1 .. Len(t) : h[j] = {j} \cup h[t[j].up]
  BY <1>3, <1>4, <1>5
<1> QED
  BY <1>6 DEF h

\* Around a node are its parent and what is around that; all of it comes before the node.
LEMMA AroundIs ==
    ASSUME NEW t, IsTree(t)
    PROVE  \A i \in 1 .. Len(t) :
              /\ Around(t, i) \subseteq 1 .. i - 1
              /\ Around(t, i) = IF t[i].up = 0 THEN {} ELSE {t[i].up} \cup Around(t, t[i].up)
<1> DEFINE h == UpsIn(t)
           n == Len(t)
<1>1. h[0] = {} /\ \A j \in 1 .. n : h[j] = {j} \cup h[t[j].up]
  BY UpsAre
<1>2. \A i : Around(t, i) = h[t[i].up]
  BY Zenon DEF Around, UpsIn, UpsOnce
<1>3. n \in Nat /\ \A i \in 1 .. n : t[i].up \in 0 .. i - 1
  BY DEF IsTree
<1> HIDE DEF h, n
<1> DEFINE T == {k \in 0 .. n : \A j \in 0 .. k : h[j] \subseteq 1 .. j}
<1>4. 0 .. n \subseteq T
  <2>1. 0 \in T
    BY <1>1, <1>3
  <2>2. ASSUME NEW k \in 1 .. n, k - 1 \in T PROVE k \in T
    <3>1. t[k].up \in 0 .. k - 1 /\ k \in 0 .. n /\ k \in 1 .. k
      BY <1>3
    <3>2. h[t[k].up] \subseteq 1 .. t[k].up
      BY <2>2, <3>1
    <3>3. 1 .. t[k].up \subseteq 1 .. k
      BY <3>1
    <3>4. h[k] \subseteq 1 .. k
      BY <1>1, <3>1, <3>2, <3>3
    <3>5. \A j \in 0 .. k : j = k \/ j \in 0 .. k - 1
      BY <3>1
    <3> QED
      BY <2>2, <3>1, <3>4, <3>5
  <2> HIDE DEF T
  <2> QED
    BY <1>3, <2>1, <2>2, StepByStep
<1>5. ASSUME NEW i \in 1 .. n
      PROVE  /\ Around(t, i) \subseteq 1 .. i - 1
             /\ Around(t, i) = IF t[i].up = 0 THEN {} ELSE {t[i].up} \cup Around(t, t[i].up)
  <2>1. t[i].up \in 0 .. i - 1 /\ t[i].up \in 0 .. n
    BY <1>3
  <2>2. h[t[i].up] \subseteq 1 .. t[i].up
    BY <1>4, <2>1
  <2>3. 1 .. t[i].up \subseteq 1 .. i - 1
    BY <2>1
  <2>4. CASE t[i].up = 0
    BY <1>1, <1>2, <2>2, <2>3, <2>4
  <2>5. CASE t[i].up # 0
    <3>1. t[i].up \in 1 .. n
      BY <2>1, <2>5
    <3>2. h[t[i].up] = {t[i].up} \cup h[t[t[i].up].up]
      BY <1>1, <3>1
    <3>3. Around(t, t[i].up) = h[t[t[i].up].up] /\ Around(t, i) = h[t[i].up]
      BY <1>2
    <3> QED
      BY <2>2, <2>3, <2>5, <3>2, <3>3
  <2> QED
    BY <2>4, <2>5
<1> QED
  BY <1>5 DEF n

\* What is around a node does not change as the tree grows.
LEMMA AroundStays ==
    ASSUME NEW t, IsTree(t), NEW u, IsTree(u),
           Len(t) <= Len(u), \A i \in 1 .. Len(t) : u[i].up = t[i].up
    PROVE  \A i \in 1 .. Len(t) : Around(u, i) = Around(t, i)
<1> DEFINE n == Len(t)
           T == {k \in 0 .. n : \A i \in 1 .. k : Around(u, i) = Around(t, i)}
<1>1. n \in Nat /\ Len(u) \in Nat /\ \A i \in 1 .. n : t[i].up \in 0 .. i - 1
  BY DEF IsTree
<1>2. 0 .. n \subseteq T
  <2>1. 0 \in T
    BY <1>1
  <2>2. ASSUME NEW k \in 1 .. n, k - 1 \in T PROVE k \in T
    <3>1. /\ Around(t, k) = IF t[k].up = 0 THEN {} ELSE {t[k].up} \cup Around(t, t[k].up)
          /\ Around(u, k) = IF t[k].up = 0 THEN {} ELSE {t[k].up} \cup Around(u, t[k].up)
      <4>1. k \in 1 .. n /\ k \in 1 .. Len(u) /\ u[k].up = t[k].up
        BY <1>1
      <4> QED
        BY <4>1, AroundIs
    <3>2. t[k].up = 0 \/ t[k].up \in 1 .. k - 1
      BY <1>1
    <3>3. Around(u, k) = Around(t, k)
      BY <2>2, <3>1, <3>2
    <3>4. k \in 0 .. n /\ \A j \in 1 .. k : j = k \/ j \in 1 .. k - 1
      BY <1>1
    <3> QED
      BY <2>2, <3>3, <3>4
  <2> HIDE DEF T
  <2> QED
    BY <1>1, <2>1, <2>2, StepByStep
<1>3. n \in 0 .. n
  BY <1>1
<1> QED
  BY <1>2, <1>3

\* What is around a node is around all that is in it.
LEMMA AroundNests ==
    ASSUME NEW t, IsTree(t)
    PROVE  \A j \in 1 .. Len(t) : \A i \in Around(t, j) : Around(t, i) \subseteq Around(t, j)
<1> DEFINE n == Len(t)
           T == {k \in 0 .. n : \A j \in 1 .. k : \A i \in Around(t, j) : Around(t, i) \subseteq Around(t, j)}
<1>1. n \in Nat /\ \A i \in 1 .. n : t[i].up \in 0 .. i - 1
  BY DEF IsTree
<1>2. 0 .. n \subseteq T
  <2>1. 0 \in T
    BY <1>1
  <2>2. ASSUME NEW k \in 1 .. n, k - 1 \in T PROVE k \in T
    <3>1. Around(t, k) = IF t[k].up = 0 THEN {} ELSE {t[k].up} \cup Around(t, t[k].up)
      BY AroundIs
    <3>2. t[k].up = 0 \/ t[k].up \in 1 .. k - 1
      BY <1>1
    <3>3. \A i \in Around(t, k) : Around(t, i) \subseteq Around(t, k)
      BY <2>2, <3>1, <3>2
    <3>4. k \in 0 .. n /\ \A j \in 1 .. k : j = k \/ j \in 1 .. k - 1
      BY <1>1
    <3> QED
      BY <2>2, <3>3, <3>4
  <2> HIDE DEF T
  <2> QED
    BY <1>1, <2>1, <2>2, StepByStep
<1>3. n \in 0 .. n
  BY <1>1
<1> QED
  BY <1>2, <1>3

\* What is around a node is around all that comes between the two.
GrownRight(t) == \A k \in 1 .. Len(t) : \A i \in Around(t, k) : \A j \in i .. k : i = j \/ i \in Around(t, j)

\* The nodes the next one may be in.
OpenIn(t) == IF Len(t) = 0 THEN {0} ELSE {0, Len(t)} \cup Around(t, Len(t))

\* A tree that grows at its right edge stays one.
LEMMA GrowsRight ==
    ASSUME NEW t, IsTree(t), GrownRight(t), NEW x, x.up \in OpenIn(t)
    PROVE  IsTree(Append(t, x)) /\ GrownRight(Append(t, x))
<1> DEFINE u == Append(t, x)
           n == Len(t)
<1>1. n \in Nat /\ t \in Seq(ToSet(t)) /\ \A i \in 1 .. n : t[i].up \in 0 .. i - 1
  BY DEF IsTree
<1>2. /\ Len(u) = n + 1 /\ u[n + 1] = x /\ \A i \in 1 .. n : u[i] = t[i]
      /\ u \in Seq(ToSet(u))
  <2>1. u \in Seq(ToSet(t) \cup {x})
    <3>1. t \in Seq(ToSet(t) \cup {x})
      BY <1>1
    <3> QED
      BY <3>1
  <2>2. Len(u) = n + 1 /\ u[n + 1] = x /\ \A i \in 1 .. n : u[i] = t[i]
    BY <1>1
  <2> HIDE DEF u
  <2> QED
    BY <2>1, <2>2, RangesAreFinite
<1>3. x.up = 0 \/ (n \in 1 .. n /\ (x.up = n \/ x.up \in Around(t, n)))
  <2>1. CASE n = 0
    BY <2>1 DEF OpenIn
  <2>2. CASE n # 0
    BY <1>1, <2>2 DEF OpenIn
  <2> QED
    BY <2>1, <2>2
<1>4. x.up \in 0 .. n
  BY <1>1, <1>3, AroundIs
<1> HIDE DEF u, n
<1>5. IsTree(u)
  <2>1. ASSUME NEW i \in 1 .. n + 1 PROVE u[i].up \in 0 .. i - 1
    <3>1. i \in 1 .. n \/ i = n + 1
      BY <1>1
    <3> QED
      BY <1>1, <1>2, <1>4, <3>1
  <2> QED
    BY <1>2, <2>1 DEF IsTree
<1>6. \A i \in 1 .. n : Around(u, i) = Around(t, i)
  <2>1. Len(t) <= Len(u) /\ \A i \in 1 .. Len(t) : u[i].up = t[i].up
    BY <1>1, <1>2 DEF n
  <2> QED
    BY <1>5, <2>1, AroundStays DEF n
<1>7. \A i \in Around(u, n + 1) : n \in 1 .. n /\ (i = n \/ i \in Around(t, n))
  <2>1. Around(u, n + 1) = IF x.up = 0 THEN {} ELSE {x.up} \cup Around(u, x.up)
    <3>1. n + 1 \in 1 .. Len(u)
      BY <1>1, <1>2
    <3> QED
      BY <1>2, <1>5, <3>1, AroundIs
  <2>2. CASE x.up = 0
    BY <2>1, <2>2
  <2>3. CASE x.up # 0
    <3>1. x.up \in 1 .. n /\ n \in 1 .. n /\ (x.up = n \/ x.up \in Around(t, n))
      BY <1>1, <1>3, <1>4, <2>3
    <3>2. Around(u, n + 1) = {x.up} \cup Around(t, x.up)
      BY <1>6, <2>1, <2>3, <3>1
    <3>3. x.up \in Around(t, n) => Around(t, x.up) \subseteq Around(t, n)
      BY <3>1, AroundNests DEF n
    <3> QED
      BY <3>1, <3>2, <3>3
  <2> QED
    BY <2>2, <2>3
<1>8. ASSUME NEW k \in 1 .. n + 1, NEW i \in Around(u, k), NEW j \in i .. k
      PROVE  i = j \/ i \in Around(u, j)
  <2>0. i \in 1 .. k - 1
    <3>1. k \in 1 .. Len(u)
      BY <1>2
    <3> QED
      BY <1>5, <3>1, AroundIs
  <2>1. CASE k \in 1 .. n
    <3>1. j \in 1 .. n
      BY <1>1, <2>0, <2>1
    <3> QED
      BY <1>6, <2>1, <3>1 DEF GrownRight, n
  <2>2. CASE k = n + 1
    <3>1. CASE j = n + 1
      BY <2>2, <3>1
    <3>2. CASE j # n + 1
      <4>1. j \in 1 .. n /\ j \in i .. n /\ i \in 1 .. n
        BY <1>1, <2>0, <2>2, <3>2
      <4>2. n \in 1 .. n /\ (i = n \/ i \in Around(t, n))
        BY <1>7, <2>2
      <4>3. i = j \/ i \in Around(t, j)
        BY <4>1, <4>2 DEF GrownRight, n
      <4> QED
        BY <1>6, <4>1, <4>3
    <3> QED
      BY <3>1, <3>2
  <2>3. k \in 1 .. n \/ k = n + 1
    BY <1>1
  <2> QED
    BY <2>1, <2>2, <2>3
<1>9. GrownRight(u)
  BY <1>2, <1>8 DEF GrownRight
<1> QED
  BY <1>5, <1>9 DEF u

\* A node spans what is in it, and no other node.
LEMMA SpansAreNesting ==
    ASSUME NEW t, IsTree(t), GrownRight(t), NEW i \in 1 .. Len(t)
    PROVE  /\ End(t, i) \in Int
           /\ \A j \in 1 .. Len(t) : i <= j /\ j < End(t, i) <=> i = j \/ i \in Around(t, j)
           /\ \A j \in Around(t, i) : End(t, i) <= End(t, j)
<1> DEFINE n == Len(t)
           In(k) == {k} \cup {j \in 1 .. n : k \in Around(t, j)}
<1>1. n \in Nat /\ DOMAIN t = 1 .. n
  BY DEF IsTree
<1>2. ASSUME NEW k \in 1 .. n
      PROVE  /\ End(t, k) - 1 \in In(k) /\ End(t, k) \in Int
             /\ \A j \in In(k) : j < End(t, k)
  <2>1. End(t, k) = 1 + Max(In(k))
    BY <1>1 DEF End
  <2>2. In(k) \in SUBSET (0 .. n) /\ In(k) # {}
    BY <1>1
  <2>3. \E m \in In(k) : \A j \in In(k) : j <= m
    BY <1>1, <2>2, GreatestNumber
  <2> HIDE DEF In, n
  <2>4. \A j \in In(k) : j \in Nat
    BY <1>1, <2>2
  <2>5. \E m \in In(k) : \A j \in In(k) : m >= j
    BY <2>3, <2>4
  <2>6. Max(In(k)) \in In(k) /\ \A j \in In(k) : Max(In(k)) >= j
    BY <2>5, Zenon DEF Max
  <2> DEFINE m == Max(In(k))
  <2> HIDE DEF m
  <2>7. End(t, k) = 1 + m /\ m \in In(k) /\ m \in Nat /\ \A j \in In(k) : j <= m /\ j \in Nat
    BY <2>1, <2>4, <2>6 DEF m
  <2> QED
    BY <2>7
<1>3. ASSUME NEW j \in 1 .. n
      PROVE  i <= j /\ j < End(t, i) <=> i = j \/ i \in Around(t, j)
  <2>1. ASSUME i = j \/ i \in Around(t, j) PROVE i <= j /\ j < End(t, i)
    <3>1. i <= j
      BY <2>1, AroundIs
    <3> QED
      BY <1>2, <2>1, <3>1
  <2>2. ASSUME i <= j, j < End(t, i), i # j PROVE i \in Around(t, j)
    <3> DEFINE m == End(t, i) - 1
    <3>1. m \in In(i) /\ End(t, i) \in Int
      BY <1>2
    <3>2. m \in Int /\ j <= m
      BY <2>2, <3>1
    <3> HIDE DEF m
    <3>3. m \in 1 .. n /\ i \in Around(t, m) /\ j \in i .. m
      BY <1>1, <2>2, <3>1, <3>2
    <3> QED
      BY <2>2, <3>3 DEF GrownRight
  <2> QED
    BY <2>1, <2>2
<1>4. ASSUME NEW j \in Around(t, i) PROVE End(t, i) <= End(t, j)
  <2>1. j \in 1 .. n /\ j \in 1 .. i - 1
    BY <1>1, AroundIs
  <2>2. In(i) \subseteq In(j)
    <3>1. \A k \in 1 .. n : i \in Around(t, k) => j \in Around(t, k)
      BY AroundNests
    <3> QED
      BY <3>1
  <2>3. End(t, i) - 1 < End(t, j) /\ End(t, i) \in Int /\ End(t, j) \in Int
    BY <1>2, <2>1, <2>2
  <2> QED
    BY <2>3
<1> QED
  BY <1>2, <1>3, <1>4

-----------------------------------------------------------------------------
(* References in a list.                                                   *)

Sooner(rs, j, i) == rs[j].line < rs[i].line \/ (rs[j].line = rs[i].line /\ j <= i)
PlaceOf(rs, i) == Cardinality({j \in DOMAIN rs : Sooner(rs, j, i)})

\* No two references of a list get the same place when they are sorted.
LEMMA PlacesAreDistinct ==
    ASSUME NEW n \in Nat, NEW rs, DOMAIN rs = 1 .. n, \A i \in 1 .. n : rs[i].line \in Int
    PROVE  /\ \A i \in 1 .. n : PlaceOf(rs, i) \in 1 .. n
           /\ \A i, j \in 1 .. n : PlaceOf(rs, i) = PlaceOf(rs, j) => i = j
<1> DEFINE Upto(i) == {j \in 1 .. n : Sooner(rs, j, i)}
<1>0. /\ \A i : PlaceOf(rs, i) = Cardinality(Upto(i))
      /\ IsFiniteSet(1 .. n) /\ Cardinality(1 .. n) = n
  <2>1. \A i : PlaceOf(rs, i) = Cardinality(Upto(i))
    BY DEF PlaceOf
  <2>2. 1 \in Int /\ n \in Int /\ (1 > n => n = 0) /\ n - 1 + 1 = n
    OBVIOUS
  <2>3. IsFiniteSet(1 .. n) /\ Cardinality(1 .. n) = n
    BY <2>2, FS_Interval
  <2> QED
    BY <2>1, <2>3
<1>1. /\ \A i \in 1 .. n : Sooner(rs, i, i)
      /\ \A i, j \in 1 .. n : Sooner(rs, i, j) \/ Sooner(rs, j, i)
      /\ \A i, j \in 1 .. n : Sooner(rs, i, j) /\ Sooner(rs, j, i) => i = j
      /\ \A i, j, k \in 1 .. n : Sooner(rs, i, j) /\ Sooner(rs, j, k) => Sooner(rs, i, k)
  BY DEF Sooner
<1>2. ASSUME NEW i \in 1 .. n
      PROVE  /\ IsFiniteSet(Upto(i)) /\ Cardinality(Upto(i)) \in 1 .. n
             /\ \A T \in SUBSET Upto(i) : Cardinality(T) = Cardinality(Upto(i)) => T = Upto(i)
  <2>1. Upto(i) \in SUBSET (1 .. n) /\ i \in Upto(i)
    BY <1>1
  <2> HIDE DEF Upto
  <2>2. IsFiniteSet(Upto(i)) /\ Cardinality(Upto(i)) <= n
    BY <1>0, <2>1, FS_Subset
  <2>3. Cardinality(Upto(i)) \in Nat /\ Cardinality(Upto(i)) # 0
    BY <2>1, <2>2, FS_CardinalityType, FS_EmptySet
  <2>4. \A T \in SUBSET Upto(i) : Cardinality(T) = Cardinality(Upto(i)) => T = Upto(i)
    BY <2>2, FS_Subset
  <2> QED
    BY <2>2, <2>3, <2>4
<1>3. ASSUME NEW i \in 1 .. n, NEW j \in 1 .. n, Sooner(rs, j, i), Cardinality(Upto(j)) = Cardinality(Upto(i))
      PROVE  i = j
  <2>1. Upto(j) \in SUBSET Upto(i)
    BY <1>1, <1>3
  <2>2. Upto(j) = Upto(i)
    <3> HIDE DEF Upto
    <3> QED
      BY <1>2, <1>3, <2>1
  <2>3. Sooner(rs, i, j)
    BY <1>1, <2>2
  <2> QED
    BY <1>1, <1>3, <2>3
<1> HIDE DEF Upto
<1> QED
  BY <1>0, <1>1, <1>2, <1>3

\* Sorting a list by line keeps what is in it.
LEMMA ByLineKeeps ==
    ASSUME NEW B, NEW rs \in Seq(B), \A i \in 1 .. Len(rs) : rs[i].line \in Int
    PROVE  ByLine(rs) \in Seq(ToSet(rs)) /\ ToSet(ByLine(rs)) = ToSet(rs)
<1> DEFINE n == Len(rs)
           at(k) == CHOOSE i \in DOMAIN rs : PlaceOf(rs, i) = k
           f == [i \in 1 .. n |-> PlaceOf(rs, i)]
<1>1. n \in Nat /\ DOMAIN rs = 1 .. n
  OBVIOUS
<1>2. ByLine(rs) = [k \in DOMAIN rs |-> rs[at(k)]]
  BY Zenon DEF ByLine, PlaceOf, Sooner
<1>3. /\ \A i \in 1 .. n : PlaceOf(rs, i) \in 1 .. n
      /\ \A i, j \in 1 .. n : PlaceOf(rs, i) = PlaceOf(rs, j) => i = j
  BY <1>1, PlacesAreDistinct
<1> HIDE DEF n
<1>4. \A k \in 1 .. n : \E i \in 1 .. n : PlaceOf(rs, i) = k
  <2>1. f \in Injection(1 .. n, 1 .. n)
    BY <1>3 DEF Injection, IsInjective
  <2>2. IsFiniteSet(1 .. n)
    BY <1>1, FS_Interval
  <2> HIDE DEF f
  <2>3. f \in Surjection(1 .. n, 1 .. n)
    BY <2>1, <2>2, FS_Injection
  <2>4. \A k \in 1 .. n : \E i \in 1 .. n : f[i] = k
    BY <2>3 DEF Surjection
  <2> QED
    BY <2>4 DEF f
<1>5. \A k \in 1 .. n : at(k) \in 1 .. n /\ PlaceOf(rs, at(k)) = k
  <2>1. ASSUME NEW k \in 1 .. n PROVE at(k) \in DOMAIN rs /\ PlaceOf(rs, at(k)) = k
    <3>1. \E i \in DOMAIN rs : PlaceOf(rs, i) = k
      BY <1>1, <1>4
    <3> QED
      BY <3>1, Zenon
  <2> QED
    BY <1>1, <2>1
<1>6. \A i \in 1 .. n : at(PlaceOf(rs, i)) = i
  BY <1>3, <1>5
<1>7. \A i \in 1 .. n : rs[i] \in ToSet(rs)
  BY <1>1 DEF ToSet
<1>8. \A x \in ToSet(rs) : \E i \in 1 .. n : x = rs[i]
  BY <1>1 DEF ToSet
<1> HIDE DEF at
<1> DEFINE s == [k \in DOMAIN rs |-> rs[at(k)]]
<1>9. s \in Seq(ToSet(rs)) /\ DOMAIN s = 1 .. n /\ \A k \in 1 .. n : s[k] = rs[at(k)]
  BY <1>1, <1>5, <1>7
<1>10. ToSet(s) = ToSet(rs)
  <2> HIDE DEF s
  <2>1. \A x : x \in ToSet(s) <=> \E k \in 1 .. n : x = s[k]
    BY <1>9 DEF ToSet
  <2>2. \A x \in ToSet(rs) : x \in ToSet(s)
    BY <1>3, <1>6, <1>8, <1>9, <2>1
  <2>3. \A x \in ToSet(s) : x \in ToSet(rs)
    BY <1>5, <1>7, <1>9, <2>1
  <2> QED
    BY <2>2, <2>3
<1> QED
  BY <1>2, <1>9, <1>10

\* In two lists joined is what is in one of them.
LEMMA JoinHolds ==
    ASSUME NEW B, NEW r \in Seq(B), NEW s \in Seq(B)
    PROVE  r \o s \in Seq(B) /\ ToSet(r \o s) = ToSet(r) \cup ToSet(s)
<1>1. /\ DOMAIN (r \o s) = 1 .. Len(r) + Len(s) /\ DOMAIN r = 1 .. Len(r) /\ DOMAIN s = 1 .. Len(s)
      /\ \A i \in 1 .. Len(r) : (r \o s)[i] = r[i]
      /\ \A i \in 1 .. Len(s) : Len(r) + i \in 1 .. Len(r) + Len(s) /\ (r \o s)[Len(r) + i] = s[i]
      /\ Len(r) \in Nat /\ Len(s) \in Nat
  OBVIOUS
<1>2. \A i \in 1 .. Len(r) + Len(s) :
         i \in 1 .. Len(r) \/ (i - Len(r) \in 1 .. Len(s) /\ i = Len(r) + (i - Len(r)))
  BY <1>1
<1> DEFINE w == r \o s
<1> HIDE DEF w
<1>3. ASSUME NEW x \in ToSet(w) PROVE x \in ToSet(r) \cup ToSet(s)
  <2>1. PICK i \in 1 .. Len(r) + Len(s) : x = w[i]
    BY <1>1 DEF ToSet, w
  <2> QED
    BY <1>1, <1>2, <2>1 DEF ToSet, w
<1>4. ToSet(r) \subseteq ToSet(w)
  <2>1. \A i \in 1 .. Len(r) : i \in 1 .. Len(r) + Len(s)
    BY <1>1
  <2> QED
    BY <1>1, <2>1 DEF ToSet, w
<1>5. ToSet(s) \subseteq ToSet(w)
  BY <1>1 DEF ToSet, w
<1>6. r \o s \in Seq(B)
  OBVIOUS
<1> QED
  BY <1>3, <1>4, <1>5, <1>6 DEF w

\* In a concatenation is what is in one of its parts.
LEMMA FlattenHolds ==
    ASSUME NEW B, NEW seqs, NEW n \in Nat, seqs \in [1 .. n -> Seq(B)]
    PROVE  /\ FlattenSeq(seqs) \in Seq(B)
           /\ \A x : x \in ToSet(FlattenSeq(seqs)) <=> \E i \in 1 .. n : x \in ToSet(seqs[i])
<1>1. PICK f : Grows(f, n, seqs, B) /\ f[n] = FlattenSeq(seqs)
  BY FlattenGrows
<1>2. f \in [0 .. n -> Seq(B)] /\ f[0] = <<>> /\ \A i \in 1 .. n : f[i] = f[i - 1] \o seqs[i]
  BY <1>1 DEF Grows
<1>3. \A r, s \in Seq(B) : ToSet(r \o s) = ToSet(r) \cup ToSet(s)
  BY JoinHolds
<1> DEFINE T == {k \in 0 .. n : \A x : x \in ToSet(f[k]) <=> \E i \in 1 .. k : x \in ToSet(seqs[i])}
<1>4. 0 .. n \subseteq T
  <2>1. 0 \in T
    <3>1. ToSet(<<>>) = {}
      BY DEF ToSet
    <3>2. 0 \in 0 .. n /\ 1 .. 0 = {}
      OBVIOUS
    <3> QED
      BY <1>2, <3>1, <3>2
  <2>2. ASSUME NEW k \in 1 .. n, k - 1 \in T PROVE k \in T
    <3>1. k \in 0 .. n /\ k - 1 \in 0 .. n /\ \A i : i \in 1 .. k <=> i = k \/ i \in 1 .. k - 1
      OBVIOUS
    <3>2. ToSet(f[k]) = ToSet(f[k - 1]) \cup ToSet(seqs[k])
      BY <1>2, <1>3, <3>1
    <3> QED
      BY <2>2, <3>1, <3>2
  <2> HIDE DEF T
  <2> QED
    BY <2>1, <2>2, StepByStep
<1>5. n \in 0 .. n
  OBVIOUS
<1> QED
  BY <1>1, <1>2, <1>4, <1>5

-----------------------------------------------------------------------------
(* The two walks.                                                          *)

NoCallAt(t, i) == i \in 1 .. Len(t) /\ t[i].k # "call"

\* What the first walk leaves: declarations and references of nodes that are no calls, one
\* declaration at most of a node.
IsWalked(t, ns, rs) ==
    /\ IsTree(t) /\ GrownRight(t)
    /\ ns \in Seq(ToSet(ns)) /\ rs \in Seq(ToSet(rs))
    /\ \A d \in ToSet(ns) : NoCallAt(t, d.line)
    /\ \A d, e \in ToSet(ns) : d.line = e.line => d = e
    /\ \A r \in ToSet(rs) : NoCallAt(t, r.line)

FunctionsIn(t, ns, i) == {d \in ToSet(ns) : d.kind \in {"function", "method"} /\ d.line \in Around(t, i)}
NearestIn(t, ns, i) == {d \in FunctionsIn(t, ns, i) : \A e \in FunctionsIn(t, ns, i) : e.line <= d.line}
FromLine(rs, i) == {r.from : r \in {s \in ToSet(rs) : s.line = i}}
IdsOf(ds) == {d.id : d \in ds}

ExtractInv == IF walk = "done" THEN CallsAreAttributed ELSE IsWalked(tree, nodes, refs)

\* Of the functions whose spans hold a call, the narrowest is the nearest one around it.
LEMMA NarrowestIsNearest ==
    ASSUME IsWalked(tree, nodes, refs), NEW at \in 1 .. Len(tree), tree[at].k = "call"
    PROVE  /\ ByRange(at) = NearestIn(tree, nodes, at)
           /\ ByRange(at) # {} => \E d \in ToSet(nodes) : ByRange(at) = {d}
<1> DEFINE F == FunctionsIn(tree, nodes, at)
<1>1. /\ IsTree(tree) /\ GrownRight(tree)
      /\ \A d \in ToSet(nodes) : d.line \in 1 .. Len(tree) /\ tree[d.line].k # "call"
      /\ \A d, e \in ToSet(nodes) : d.line = e.line => d = e
  BY DEF IsWalked, NoCallAt
<1>2. Len(tree) \in Nat
  BY <1>1 DEF IsTree
<1>3. Spans(at) = F
  <2>1. ASSUME NEW d \in ToSet(nodes)
        PROVE  d.line <= at /\ at < End(tree, d.line) <=> d.line \in Around(tree, at)
    <3>1. d.line \in 1 .. Len(tree) /\ d.line # at
      BY <1>1
    <3> QED
      BY <1>1, <3>1, SpansAreNesting
  <2> QED
    BY <2>1 DEF Spans, FunctionsIn
<1>4. ASSUME NEW d \in F, NEW e \in F PROVE Length(d) <= Length(e) <=> e.line <= d.line
  <2>1. /\ d \in ToSet(nodes) /\ e \in ToSet(nodes)
        /\ d.line \in 1 .. Len(tree) /\ e.line \in 1 .. Len(tree)
        /\ d.line \in Around(tree, at) /\ e.line \in Around(tree, at)
    BY <1>1 DEF FunctionsIn
  <2>2. d.line \in 1 .. at - 1 /\ e.line \in 1 .. at - 1
    BY <1>1, <2>1, AroundIs
  <2>3. End(tree, d.line) \in Int /\ End(tree, e.line) \in Int
    BY <1>1, <2>1, SpansAreNesting
  <2>4. d.line < e.line => End(tree, e.line) <= End(tree, d.line)
    <3>1. SUFFICES ASSUME d.line < e.line PROVE End(tree, e.line) <= End(tree, d.line)
      OBVIOUS
    <3>2. e.line \in d.line .. at
      BY <2>2, <3>1
    <3>3. d.line \in Around(tree, e.line)
      BY <1>1, <2>1, <2>2, <3>1, <3>2 DEF GrownRight
    <3> QED
      BY <1>1, <2>1, <3>3, SpansAreNesting
  <2>5. e.line < d.line => End(tree, d.line) <= End(tree, e.line)
    <3>1. SUFFICES ASSUME e.line < d.line PROVE End(tree, d.line) <= End(tree, e.line)
      OBVIOUS
    <3>2. d.line \in e.line .. at
      BY <2>2, <3>1
    <3>3. e.line \in Around(tree, d.line)
      BY <1>1, <2>1, <2>2, <3>1, <3>2 DEF GrownRight
    <3> QED
      BY <1>1, <2>1, <3>3, SpansAreNesting
  <2>6. d.line = e.line => d = e
    BY <1>1, <2>1
  <2> QED
    BY <2>2, <2>3, <2>4, <2>5, <2>6 DEF Length
<1>5. ByRange(at) = NearestIn(tree, nodes, at)
  BY <1>3, <1>4 DEF ByRange, NearestIn
<1>6. ASSUME NEW d \in NearestIn(tree, nodes, at) PROVE d \in ToSet(nodes) /\ ByRange(at) = {d}
  <2>1. d \in F /\ \A e \in F : e.line <= d.line
    BY DEF NearestIn
  <2>2. ASSUME NEW e \in NearestIn(tree, nodes, at) PROVE e = d
    <3>1. e \in F /\ \A x \in F : x.line <= e.line
      BY DEF NearestIn
    <3>2. d \in ToSet(nodes) /\ e \in ToSet(nodes) /\ d.line \in Int /\ e.line \in Int
      BY <1>1, <2>1, <3>1 DEF FunctionsIn
    <3>3. d.line = e.line
      BY <2>1, <3>1, <3>2
    <3> QED
      BY <1>1, <3>2, <3>3
  <2> QED
    BY <1>5, <2>1, <2>2 DEF FunctionsIn
<1> QED
  BY <1>5, <1>6

\* The references of a call at a node.
LEMMA CallsAtAre ==
    ASSUME IsWalked(tree, nodes, refs), NEW at \in 1 .. Len(tree)
    PROVE  /\ \E B : CallsAt(at) \in Seq(B)
           /\ \A r \in ToSet(CallsAt(at)) : r.line = at /\ tree[at].k = "call"
           /\ tree[at].k = "call" => {r.from : r \in ToSet(CallsAt(at))} = IdsOf(NearestIn(tree, nodes, at))
<1>0. ToSet(<<>>) = {} /\ <<>> \in Seq({}) /\ \A r : ToSet(<<r>>) = {r} /\ <<r>> \in Seq({r})
  BY DEF ToSet
<1>1. CASE tree[at].k # "call" \/ ByRange(at) = {}
  <2>1. CallsAt(at) = <<>>
    BY <1>1 DEF CallsAt
  <2>2. tree[at].k = "call" => NearestIn(tree, nodes, at) = {}
    BY <1>1, NarrowestIsNearest
  <2> QED
    BY <1>0, <2>1, <2>2 DEF IdsOf
<1>2. CASE tree[at].k = "call" /\ ByRange(at) # {}
  <2>1. PICK d \in ToSet(nodes) : ByRange(at) = {d}
    BY <1>2, NarrowestIsNearest
  <2>2. (CHOOSE e \in ByRange(at) : TRUE) = d
    BY <2>1
  <2> DEFINE r == Ref("calls", tree[at].name, tree[at].recv, d.id, at)
  <2>3. CallsAt(at) = <<r>>
    BY <1>2, <2>2 DEF CallsAt
  <2>4. r.line = at /\ r.from = d.id
    BY DEF Ref
  <2>5. IdsOf(NearestIn(tree, nodes, at)) = {d.id}
    BY <1>2, <2>1, NarrowestIsNearest DEF IdsOf
  <2> HIDE DEF r
  <2> QED
    BY SMTT(40), <1>0, <1>2, <2>3, <2>4, <2>5
<1> QED
  BY <1>1, <1>2

\* An element more, in a set more.
LEMMA AppendHolds ==
    ASSUME NEW s, s \in Seq(ToSet(s)), NEW x
    PROVE  /\ Append(s, x) \in Seq(ToSet(Append(s, x)))
           /\ ToSet(Append(s, x)) = ToSet(s) \cup {x}
<1> DEFINE u == Append(s, x)
           n == Len(s)
<1>1. /\ n \in Nat /\ DOMAIN s = 1 .. n /\ DOMAIN u = 1 .. n + 1
      /\ u[n + 1] = x /\ \A i \in 1 .. n : u[i] = s[i]
  OBVIOUS
<1>2. u \in Seq(ToSet(s) \cup {x})
  <2>1. s \in Seq(ToSet(s) \cup {x})
    OBVIOUS
  <2> QED
    BY <2>1
<1> HIDE DEF u, n
<1>3. u \in Seq(ToSet(u))
  BY <1>2, RangesAreFinite
<1>4. \A i \in 1 .. n + 1 : i \in 1 .. n \/ i = n + 1
  BY <1>1
<1>5. \A i \in 1 .. n : i \in 1 .. n + 1
  BY <1>1
<1>6. n + 1 \in 1 .. n + 1
  BY <1>1
<1>7. ToSet(u) = ToSet(s) \cup {x}
  BY <1>1, <1>4, <1>5, <1>6 DEF ToSet
<1> QED
  BY <1>3, <1>7 DEF u

\* The first walk comes to a node, and records it or does not.
LEMMA GrowingKeeps ==
    ASSUME NEW t, NEW ns, NEW rs, IsWalked(t, ns, rs), NEW x, x.up \in OpenIn(t), NEW ns2, NEW rs2,
           ns2 = ns \/ (x.k # "call" /\ \E d : d.line = Len(t) + 1 /\ ns2 = Append(ns, d)),
           rs2 = rs \/ (x.k # "call" /\ \E r : r.line = Len(t) + 1 /\ rs2 = Append(rs, r))
    PROVE  IsWalked(Append(t, x), ns2, rs2)
<1> DEFINE u == Append(t, x)
           n == Len(t)
<1>1. /\ IsTree(t) /\ GrownRight(t)
      /\ ns \in Seq(ToSet(ns)) /\ rs \in Seq(ToSet(rs))
      /\ \A d \in ToSet(ns) : NoCallAt(t, d.line)
      /\ \A d, e \in ToSet(ns) : d.line = e.line => d = e
      /\ \A r \in ToSet(rs) : NoCallAt(t, r.line)
  BY DEF IsWalked
<1>2. IsTree(u) /\ GrownRight(u)
  BY <1>1, GrowsRight
<1>3. n \in Nat /\ Len(u) = n + 1 /\ u[n + 1] = x /\ \A i \in 1 .. n : u[i] = t[i]
  BY <1>1 DEF IsTree
<1> HIDE DEF u, n
<1>4. \A i : NoCallAt(t, i) => NoCallAt(u, i) /\ i # n + 1
  <2> SUFFICES ASSUME NEW i, NoCallAt(t, i) PROVE NoCallAt(u, i) /\ i # n + 1
    OBVIOUS
  <2>1. i \in 1 .. n /\ t[i].k # "call"
    BY DEF NoCallAt, n
  <2>2. i \in 1 .. n + 1 /\ i # n + 1 /\ u[i] = t[i]
    BY <1>3, <2>1
  <2> QED
    BY <1>3, <2>1, <2>2 DEF NoCallAt
<1>5. x.k # "call" => NoCallAt(u, n + 1)
  <2>1. n + 1 \in 1 .. Len(u)
    BY <1>3
  <2> QED
    BY <1>3, <2>1 DEF NoCallAt
<1>6. /\ ns2 \in Seq(ToSet(ns2)) /\ \A d \in ToSet(ns2) : NoCallAt(u, d.line)
      /\ \A d, e \in ToSet(ns2) : d.line = e.line => d = e
  <2>1. CASE ns2 = ns
    BY <1>1, <1>4, <2>1
  <2>2. CASE x.k # "call" /\ \E d : d.line = n + 1 /\ ns2 = Append(ns, d)
    <3>1. PICK d : d.line = n + 1 /\ ns2 = Append(ns, d)
      BY <2>2
    <3>2. ns2 \in Seq(ToSet(ns2)) /\ ToSet(ns2) = ToSet(ns) \cup {d}
      BY <1>1, <3>1, AppendHolds
    <3>3. NoCallAt(u, d.line) /\ \A e \in ToSet(ns) : e.line # d.line
      BY <1>1, <1>4, <1>5, <2>2, <3>1
    <3> QED
      BY <1>1, <1>4, <3>2, <3>3
  <2> QED
    BY <2>1, <2>2 DEF n
<1>7. rs2 \in Seq(ToSet(rs2)) /\ \A r \in ToSet(rs2) : NoCallAt(u, r.line)
  <2>1. CASE rs2 = rs
    BY <1>1, <1>4, <2>1
  <2>2. CASE x.k # "call" /\ \E r : r.line = n + 1 /\ rs2 = Append(rs, r)
    <3>1. PICK r : r.line = n + 1 /\ rs2 = Append(rs, r)
      BY <2>2
    <3>2. rs2 \in Seq(ToSet(rs2)) /\ ToSet(rs2) = ToSet(rs) \cup {r}
      BY <1>1, <3>1, AppendHolds
    <3>3. NoCallAt(u, r.line)
      BY <1>5, <2>2, <3>1
    <3> QED
      BY <1>1, <1>4, <3>2, <3>3
  <2> QED
    BY <2>1, <2>2 DEF n
<1> QED
  BY <1>2, <1>6, <1>7 DEF IsWalked, u

\* The second walk leaves the references there were, and those of the calls.
LEMMA CallsCollect ==
    ASSUME IsWalked(tree, nodes, refs), Calls
    PROVE  /\ refs' \in Seq(ToSet(refs'))
           /\ \A r : r \in ToSet(refs') <=> r \in ToSet(refs) \/ \E at \in 1 .. Len(tree) : r \in ToSet(CallsAt(at))
<1> DEFINE n == Len(tree)
           seqs == [at \in 1 .. n |-> CallsAt(at)]
           B == UNION {ToSet(CallsAt(at)) : at \in 1 .. n}
           all == refs \o FlattenSeq(seqs)
<1>1. n \in Nat /\ DOMAIN tree = 1 .. n
  BY DEF IsWalked, IsTree
<1>2. refs \in Seq(ToSet(refs)) /\ \A r \in ToSet(refs) : r.line \in 1 .. n
  BY DEF IsWalked, NoCallAt
<1>3. refs' = ByLine(all)
  BY <1>1 DEF Calls
<1>4. seqs \in [1 .. n -> Seq(B)]
  <2>1. ASSUME NEW at \in 1 .. n PROVE CallsAt(at) \in Seq(B)
    <3>1. CallsAt(at) \in Seq(ToSet(CallsAt(at)))
      BY CallsAtAre, RangesAreFinite
    <3>2. ToSet(CallsAt(at)) \subseteq B
      OBVIOUS
    <3> HIDE DEF B
    <3> QED
      BY <3>1, <3>2
  <2> QED
    BY <2>1
<1>5. /\ FlattenSeq(seqs) \in Seq(B)
      /\ \A x : x \in ToSet(FlattenSeq(seqs)) <=> \E at \in 1 .. n : x \in ToSet(CallsAt(at))
  <2>1. \A at \in 1 .. n : seqs[at] = CallsAt(at)
    OBVIOUS
  <2> HIDE DEF seqs, B, n
  <2>2. /\ FlattenSeq(seqs) \in Seq(B)
        /\ \A x : x \in ToSet(FlattenSeq(seqs)) <=> \E at \in 1 .. n : x \in ToSet(seqs[at])
    BY <1>1, <1>4, FlattenHolds
  <2> QED
    BY <2>1, <2>2
<1> DEFINE C == ToSet(refs) \cup B
<1>6. ToSet(all) = ToSet(refs) \cup ToSet(FlattenSeq(seqs)) /\ all \in Seq(C)
  <2> DEFINE g == FlattenSeq(seqs)
  <2>1. g \in Seq(B)
    BY <1>5
  <2> HIDE DEF g, B, n
  <2>2. refs \in Seq(C) /\ g \in Seq(C)
    BY <1>2, <2>1
  <2> HIDE DEF C, all, seqs
  <2>3. refs \o g \in Seq(C) /\ ToSet(refs \o g) = ToSet(refs) \cup ToSet(g)
    BY <2>2, JoinHolds
  <2> QED
    BY <2>3 DEF g, all
<1>7. \A r : r \in ToSet(all) <=> r \in ToSet(refs) \/ \E at \in 1 .. n : r \in ToSet(CallsAt(at))
  BY <1>5, <1>6
<1>8. ASSUME NEW r \in ToSet(all) PROVE r.line \in Int
  <2>1. ASSUME NEW at \in 1 .. Len(tree), r \in ToSet(CallsAt(at)) PROVE r.line \in Int
    <3>1. r.line = at
      BY <2>1, CallsAtAre
    <3> QED
      BY <1>1, <3>1
  <2>2. r \in ToSet(refs) => r.line \in Int
    BY <1>1, <1>2
  <2> HIDE DEF all
  <2> QED
    BY <1>7, <2>1, <2>2
<1> HIDE DEF all, C
<1>9. refs' \in Seq(ToSet(all)) /\ ToSet(refs') = ToSet(all)
  <2>1. \A i \in 1 .. Len(all) : all[i] \in ToSet(all)
    BY <1>6 DEF ToSet
  <2> QED
    BY <1>3, <1>6, <1>8, <2>1, ByLineKeeps
<1> QED
  BY <1>7, <1>9

\* The second walk attributes the calls.
LEMMA CallsAttribute ==
    ASSUME IsWalked(tree, nodes, refs), Calls
    PROVE  CallsAreAttributed'
<1> DEFINE n == Len(tree)
<1>1. n \in Nat /\ DOMAIN tree = 1 .. n /\ tree' = tree /\ nodes' = nodes
  BY DEF IsWalked, IsTree, Calls
<1>2. \A r \in ToSet(refs) : r.line \in 1 .. n /\ tree[r.line].k # "call"
  BY DEF IsWalked, NoCallAt
<1>3. ASSUME NEW i \in 1 .. n, tree[i].k = "call"
      PROVE  FromLine(refs', i) = IdsOf(NearestIn(tree, nodes, i))
  <2>1. ASSUME NEW r PROVE r \in ToSet(refs') /\ r.line = i <=> r \in ToSet(CallsAt(i))
    <3>1. ASSUME r \in ToSet(CallsAt(i)) PROVE r \in ToSet(refs') /\ r.line = i
      BY <3>1, CallsCollect, CallsAtAre
    <3>2. ASSUME r \in ToSet(refs'), r.line = i PROVE r \in ToSet(CallsAt(i))
      <4>1. r \notin ToSet(refs)
        BY <1>2, <1>3, <3>2
      <4>2. PICK at \in 1 .. n : r \in ToSet(CallsAt(at))
        BY <3>2, <4>1, CallsCollect
      <4>3. r.line = at
        BY <4>2, CallsAtAre
      <4> QED
        BY <3>2, <4>2, <4>3
    <3> QED
      BY <3>1, <3>2
  <2>2. {s \in ToSet(refs') : s.line = i} = ToSet(CallsAt(i))
    BY <2>1
  <2>3. FromLine(refs', i) = {r.from : r \in ToSet(CallsAt(i))}
    BY <2>2, Zenon DEF FromLine
  <2> QED
    BY <1>3, <2>3, CallsAtAre
<1>4. \A i \in {j \in DOMAIN tree' : tree'[j].k = "call"} : FromLine(refs', i) = IdsOf(NearestIn(tree', nodes', i))
  BY <1>1, <1>3
<1> QED
  BY <1>4, Zenon DEF CallsAreAttributed, FromLine, IdsOf, NearestIn, FunctionsIn, FunctionsAround

IsTaken(seqs, els, i) == seqs[i] = <<els[i]>>

\* Of each element of a list, there is a list of it or an empty one.
IsSelection(seqs, els, n, B) ==
    /\ n \in Nat /\ els \in [1 .. n -> B] /\ seqs \in [1 .. n -> Seq(B)]
    /\ \A i \in 1 .. n : IsTaken(seqs, els, i) \/ seqs[i] = <<>>

\* A list of what a choice from a list leaves.
LEMMA SelectionHolds ==
    ASSUME NEW B, NEW n, NEW seqs, NEW els, IsSelection(seqs, els, n, B)
    PROVE  /\ FlattenSeq(seqs) \in Seq(ToSet(FlattenSeq(seqs)))
           /\ \A x : x \in ToSet(FlattenSeq(seqs)) <=> \E i \in 1 .. n : x = els[i] /\ IsTaken(seqs, els, i)
<1>0. /\ n \in Nat /\ els \in [1 .. n -> B] /\ seqs \in [1 .. n -> Seq(B)]
      /\ \A i \in 1 .. n : seqs[i] = <<els[i]>> \/ seqs[i] = <<>>
  BY DEF IsSelection, IsTaken
<1>1. ToSet(<<>>) = {} /\ \A x : ToSet(<<x>>) = {x} /\ <<x>> # <<>>
  BY DEF ToSet
<1>3. /\ FlattenSeq(seqs) \in Seq(B)
      /\ \A x : x \in ToSet(FlattenSeq(seqs)) <=> \E i \in 1 .. n : x \in ToSet(seqs[i])
  BY <1>0, FlattenHolds
<1>4. FlattenSeq(seqs) \in Seq(ToSet(FlattenSeq(seqs)))
  BY <1>3, RangesAreFinite
<1>5. \A i \in 1 .. n : \A x : x \in ToSet(seqs[i]) <=> x = els[i] /\ seqs[i] = <<els[i]>>
  <2> SUFFICES ASSUME NEW i \in 1 .. n, NEW x
               PROVE  x \in ToSet(seqs[i]) <=> x = els[i] /\ seqs[i] = <<els[i]>>
    OBVIOUS
  <2>1. CASE seqs[i] = <<els[i]>>
    BY <1>1, <2>1
  <2>2. CASE seqs[i] = <<>>
    BY <1>1, <2>2
  <2> QED
    BY <1>0, <2>1, <2>2
<1> QED
  BY <1>3, <1>4, <1>5 DEF IsTaken

\* An empty file.
LEMMA NothingWalked == ASSUME ExtractionInit PROVE ExtractInv
<1>1. tree = <<>> /\ nodes = <<>> /\ refs = <<>> /\ walk = "declare"
  BY Zenon DEF ExtractionInit
<1>2. ToSet(<<>>) = {} /\ <<>> \in Seq({}) /\ Len(<<>>) = 0 /\ 1 .. 0 = {}
  BY DEF ToSet
<1>3. IsWalked(<<>>, <<>>, <<>>)
  BY <1>2 DEF IsWalked, IsTree, GrownRight
<1> QED
  BY <1>1, <1>3 DEF ExtractInv

\* Where the next node may be.
LEMMA ParentsAre == ASSUME IsTree(tree) PROVE Parents = OpenIn(tree)
<1>1. tree = <<>> <=> Len(tree) = 0
  BY DEF IsTree
<1> QED
  BY <1>1 DEF Parents, OpenIn

\* A step that leaves the walks where they are.
LEMMA NothingHappens == ASSUME ExtractInv, UNCHANGED treeVars PROVE ExtractInv'
<1>1. tree' = tree /\ nodes' = nodes /\ refs' = refs /\ walk' = walk
  BY DEF treeVars
<1>2. CallsAreAttributed' <=> CallsAreAttributed
  BY <1>1 DEF CallsAreAttributed, FunctionsAround
<1> QED
  BY <1>1, <1>2 DEF ExtractInv

\* The end of the second walk.
LEMMA CallsEnd == ASSUME ExtractInv, Calls PROVE ExtractInv'
<1>1. IsWalked(tree, nodes, refs) /\ walk' = "done"
  BY DEF Calls, ExtractInv
<1> QED
  BY <1>1, CallsAttribute DEF ExtractInv

\* A step of the generic walks.
LEMMA ExtractionStep == ASSUME ExtractInv, [ExtractionNext]_treeVars PROVE ExtractInv'
<1>1. CASE UNCHANGED treeVars
  BY <1>1, NothingHappens
<1>2. ASSUME Visit PROVE ExtractInv'
  <2>1. walk = "declare" /\ walk' = "declare" /\ IsWalked(tree, nodes, refs)
    BY <1>2 DEF Visit, ExtractInv
  <2> DEFINE n(s, up) == [k |-> s.k, name |-> s.name, of |-> s.of, recv |-> s.recv, up |-> up]
             at == Len(tree) + 1
  <2>2. PICK s \in Syntax, up \in Parents :
           /\ tree' = Append(tree, n(s, up))
           /\ DeclareType(n(s, up), at) \/ DeclareFunction(n(s, up), at) \/ DeclareImpl(n(s, up), at) \/ PassCall(n(s, up))
    BY <1>2, Zenon DEF Visit
  <2> DEFINE x == n(s, up)
  <2>3. x.up \in OpenIn(tree)
    BY <2>1, ParentsAre DEF IsWalked
  <2> HIDE DEF x, at
  <2>4. \A kind, name, q : Decl(kind, name, q, at).line = at
    BY DEF Decl
  <2>5. \A kind, name, recv, from : Ref(kind, name, recv, from, at).line = at
    BY DEF Ref
  <2>6. /\ nodes' = nodes \/ (x.k # "call" /\ \E d : d.line = at /\ nodes' = Append(nodes, d))
        /\ refs' = refs \/ (x.k # "call" /\ \E r : r.line = at /\ refs' = Append(refs, r))
    <3>1. CASE DeclareType(x, at)
      BY <2>4, <2>5, <3>1 DEF DeclareType
    <3>2. CASE DeclareFunction(x, at)
      BY <2>4, <3>2 DEF DeclareFunction
    <3>3. CASE DeclareImpl(x, at)
      BY <2>5, <3>3 DEF DeclareImpl
    <3>4. CASE PassCall(x)
      BY <3>4 DEF PassCall
    <3> QED
      BY <2>2, <3>1, <3>2, <3>3, <3>4 DEF x, at
  <2>7. IsWalked(Append(tree, x), nodes', refs')
    BY <2>1, <2>3, <2>6, GrowingKeeps DEF at
  <2>8. IsWalked(tree', nodes', refs')
    BY <2>2, <2>7, Zenon DEF x, at
  <2> QED
    BY <2>1, <2>8 DEF ExtractInv
<1>3. ASSUME EndOfFile PROVE ExtractInv'
  BY <1>3 DEF EndOfFile, ExtractInv
<1>4. ASSUME DropOrphanRefs PROVE ExtractInv'
  <2>1. IsWalked(tree, nodes, refs) /\ walk' = "calls" /\ tree' = tree /\ nodes' = nodes
    BY <1>4 DEF DropOrphanRefs, ExtractInv
  <2>2. refs \in Seq(ToSet(refs)) /\ Len(refs) \in Nat /\ DOMAIN refs = 1 .. Len(refs)
    BY <2>1 DEF IsWalked
  <2> DEFINE kept(k) == \E i \in DOMAIN nodes : nodes[i].id = refs[k].from
             seqs == [k \in DOMAIN refs |-> IF kept(k) THEN <<refs[k]>> ELSE <<>>]
  <2>3. refs' = FlattenSeq(seqs)
    BY <1>4 DEF DropOrphanRefs
  <2>4. /\ seqs \in [1 .. Len(refs) -> Seq(ToSet(refs))]
        /\ \A i \in 1 .. Len(refs) : IsTaken(seqs, refs, i) \/ seqs[i] = <<>>
    <3>1. \A i \in 1 .. Len(refs) : <<refs[i]>> \in Seq(ToSet(refs))
      BY <2>2
    <3>2. <<>> \in Seq(ToSet(refs))
      OBVIOUS
    <3> HIDE DEF kept
    <3> QED
      BY <2>2, <3>1, <3>2 DEF IsTaken
  <2>5. refs \in [1 .. Len(refs) -> ToSet(refs)]
    BY <2>2
  <2> HIDE DEF seqs
  <2> DEFINE m == Len(refs)
             P == ToSet(refs)
             g == FlattenSeq(seqs)
  <2>6. /\ refs' \in Seq(ToSet(refs'))
        /\ \A x \in ToSet(refs') : \E i \in 1 .. Len(refs) : x = refs[i]
    <3>1. m \in Nat /\ refs \in [1 .. m -> P]
      BY <2>2, <2>5
    <3>2. IsSelection(seqs, refs, m, P)
      BY <2>4, <3>1 DEF IsSelection
    <3> HIDE DEF m, P
    <3>3. /\ g \in Seq(ToSet(g))
          /\ \A x : x \in ToSet(g) <=> \E i \in 1 .. m : x = refs[i] /\ IsTaken(seqs, refs, i)
      BY <3>2, SelectionHolds
    <3>4. refs' = g
      BY <2>3
    <3> HIDE DEF g
    <3> QED
      BY <3>3, <3>4 DEF m
  <2>7. \A x \in ToSet(refs') : x \in ToSet(refs)
    BY <2>2, <2>6 DEF ToSet
  <2>8. IsWalked(tree', nodes', refs')
    BY <2>1, <2>6, <2>7 DEF IsWalked
  <2> QED
    BY <2>1, <2>8 DEF ExtractInv
<1> QED
  BY <1>1, <1>2, <1>3, <1>4, CallsEnd DEF ExtractionNext

\* Whatever a file holds, the generic plugins attribute each call to the nearest function
\* around it that has a name, as its byte ranges tell, and to none if there is none.
THEOREM CallsAttributed == ExtractionSpec => []CallsAreAttributed
<1>1. ExtractInv => CallsAreAttributed
  BY DEF ExtractInv, CallsAreAttributed
<1> QED
  BY <1>1, NothingWalked, ExtractionStep, PTL DEF ExtractionSpec

\* A step of the Go plugin's walks.
LEMMA GoStep == ASSUME ExtractInv, [GoNext]_<<treeVars, typedVars>> PROVE ExtractInv'
<1>1. ASSUME VisitGo PROVE ExtractInv'
  <2>1. walk = "declare" /\ walk' = "declare" /\ IsWalked(tree, nodes, refs) /\ refs' = refs
    BY <1>1, Zenon DEF VisitGo, ExtractInv
  <2> DEFINE n(s, up) == [k |-> s.k, name |-> s.name, of |-> s.of, recv |-> s.recv, up |-> up]
             at == Len(tree) + 1
  <2>2. PICK s \in GoSyntax, up \in Parents :
           /\ tree' = Append(tree, n(s, up))
           /\ \/ ImportSpec(n(s, up)) \/ TypeSpec(n(s, up), at) \/ FieldDeclaration(n(s, up)) \/ MethodElem(n(s, up))
              \/ TypeIdentifier(n(s, up)) \/ GoFuncDecl(n(s, up), at) \/ MethodDecl(n(s, up), at) \/ Variable(n(s, up))
              \/ PassGo(n(s, up))
    BY <1>1, ZenonT(60) DEF VisitGo
  <2> DEFINE x == n(s, up)
  <2>3. x.up \in OpenIn(tree)
    BY <2>1, ParentsAre DEF IsWalked
  <2> HIDE DEF x, at
  <2>4. \A kind, name, q : PlainDecl(kind, name, q, at).line = at
    BY DEF PlainDecl
  <2>5. nodes' = nodes \/ (x.k # "call" /\ \E d : d.line = at /\ nodes' = Append(nodes, d))
    <3>1. CASE ImportSpec(x) \/ FieldDeclaration(x) \/ MethodElem(x) \/ TypeIdentifier(x) \/ Variable(x) \/ PassGo(x)
      <4>1. UNCHANGED nodes
        BY <3>1, Zenon DEF ImportSpec, FieldDeclaration, MethodElem, TypeIdentifier, Variable, PassGo
      <4> QED
        BY <4>1
    <3>2. CASE TypeSpec(x, at)
      BY <2>4, <3>2 DEF TypeSpec
    <3>3. CASE GoFuncDecl(x, at)
      BY <2>4, <3>3 DEF GoFuncDecl
    <3>4. CASE MethodDecl(x, at)
      BY <2>4, <3>4 DEF MethodDecl
    <3> QED
      BY <2>2, <3>1, <3>2, <3>3, <3>4 DEF x, at
  <2>6. IsWalked(Append(tree, x), nodes', refs)
    BY <2>1, <2>3, <2>5, GrowingKeeps DEF at
  <2>7. IsWalked(tree', nodes', refs')
    BY <2>1, <2>2, <2>6, Zenon DEF x, at
  <2> QED
    BY <2>1, <2>7 DEF ExtractInv
<1>2. ASSUME EndOfGoFile PROVE ExtractInv'
  BY <1>2 DEF EndOfGoFile, ExtractInv
<1>3. CASE UNCHANGED <<treeVars, typedVars>>
  BY <1>3, NothingHappens
<1> QED
  BY <1>1, <1>2, <1>3, CallsEnd DEF GoNext

\* Whatever a Go file holds, its plugin attributes each call to the nearest function
\* declaration around it, closures aside, and to none if there is none.
THEOREM GoCallsAttributed == GoSpec => []CallsAreAttributed
<1>1. ExtractInv => CallsAreAttributed
  BY DEF ExtractInv, CallsAreAttributed
<1> QED
  BY <1>1, NothingWalked, GoStep, PTL DEF GoSpec

\* Nodes in source order.
LEMMA InOrderHolds ==
    ASSUME IsTree(tree), NEW is
    PROVE  /\ InOrder(is) \in Seq(1 .. Len(tree)) /\ DOMAIN InOrder(is) = 1 .. Len(InOrder(is))
           /\ \A k \in DOMAIN InOrder(is) : InOrder(is)[k] \in is
           /\ \A i \in 1 .. Len(tree) : i \in is => \E k \in DOMAIN InOrder(is) : InOrder(is)[k] = i
<1> DEFINE n == Len(tree)
           P == 1 .. n
           els == [i \in P |-> i]
           seqs == [i \in P |-> IF i \in is THEN <<i>> ELSE <<>>]
           g == FlattenSeq(seqs)
<1>1. n \in Nat /\ DOMAIN tree = P /\ els \in [P -> P]
  BY DEF IsTree
<1>2. InOrder(is) = FlattenSeq(seqs)
  BY <1>1 DEF InOrder
<1>3. IsSelection(seqs, els, n, P)
  <2>1. \A i \in P : seqs[i] = <<i>> \/ seqs[i] = <<>>
    OBVIOUS
  <2>2. \A i \in P : <<i>> \in Seq(P)
    OBVIOUS
  <2>3. <<>> \in Seq(P)
    OBVIOUS
  <2>4. seqs \in [P -> Seq(P)]
    BY <2>2, <2>3
  <2>5. \A i \in P : els[i] = i
    OBVIOUS
  <2> HIDE DEF seqs, els
  <2> QED
    BY <1>1, <2>1, <2>4, <2>5 DEF IsSelection, IsTaken
<1>4. \A i \in P : els[i] = i /\ (seqs[i] = <<i>> <=> i \in is)
  <2>1. \A i : <<i>> # <<>>
    OBVIOUS
  <2> QED
    BY <2>1
<1> HIDE DEF seqs, els, n
<1>5. /\ g \in Seq(ToSet(g))
      /\ \A x : x \in ToSet(g) <=> \E i \in 1 .. n : x = els[i] /\ IsTaken(seqs, els, i)
  BY <1>3, SelectionHolds
<1>6. \A x : x \in ToSet(g) <=> x \in P /\ x \in is
  <2>1. \A i \in P : IsTaken(seqs, els, i) <=> i \in is
    BY <1>4 DEF IsTaken
  <2> HIDE DEF g
  <2> QED
    BY <1>4, <1>5, <2>1
<1> HIDE DEF g, P
<1>7. g \in Seq(P) /\ DOMAIN g = 1 .. Len(g)
  BY <1>5, <1>6
<1>8. \A x : x \in ToSet(g) <=> \E k \in DOMAIN g : g[k] = x
  BY DEF ToSet
<1> QED
  BY <1>2, <1>6, <1>7, <1>8 DEF g, P, n

\* A list of references, none of a call, and all from what has one of some ids.
OnNoCalls(t, ids, rs) == rs \in Seq(ToSet(rs)) /\ \A r \in ToSet(rs) : NoCallAt(t, r.line) /\ r.from \in ids

\* Two such lists joined are one.
LEMMA NoCallsJoined ==
    ASSUME NEW t, NEW ids, NEW r, NEW s, OnNoCalls(t, ids, r), OnNoCalls(t, ids, s)
    PROVE  OnNoCalls(t, ids, r \o s)
<1> DEFINE B == ToSet(r) \cup ToSet(s)
           w == r \o s
<1>1. /\ r \in Seq(ToSet(r)) /\ s \in Seq(ToSet(s))
      /\ \A x \in B : NoCallAt(t, x.line) /\ x.from \in ids
  BY DEF OnNoCalls
<1>2. r \in Seq(B) /\ s \in Seq(B)
  BY <1>1
<1>3. w \in Seq(B) /\ ToSet(w) = B
  <2> HIDE DEF B
  <2>1. r \o s \in Seq(B) /\ ToSet(r \o s) = ToSet(r) \cup ToSet(s)
    BY <1>2, JoinHolds
  <2> QED
    BY <2>1 DEF B
<1> HIDE DEF w, B
<1> QED
  BY <1>1, <1>3 DEF OnNoCalls, w

\* Any number of such lists are one.
LEMMA NoCallsFlat ==
    ASSUME NEW t, NEW ids, NEW m \in Nat, NEW seqs, DOMAIN seqs = 1 .. m, seqs = [k \in DOMAIN seqs |-> seqs[k]],
           \A k \in 1 .. m : OnNoCalls(t, ids, seqs[k])
    PROVE  OnNoCalls(t, ids, FlattenSeq(seqs))
<1> DEFINE B == UNION {ToSet(seqs[k]) : k \in 1 .. m}
           g == FlattenSeq(seqs)
<1>1. \A k \in 1 .. m : seqs[k] \in Seq(ToSet(seqs[k])) /\ \A x \in ToSet(seqs[k]) : NoCallAt(t, x.line) /\ x.from \in ids
  BY DEF OnNoCalls
<1>2. \A k \in 1 .. m : ToSet(seqs[k]) \subseteq B
  OBVIOUS
<1> HIDE DEF B
<1>3. \A k \in 1 .. m : seqs[k] \in Seq(B)
  BY <1>1, <1>2
<1>4. seqs \in [1 .. m -> Seq(B)]
  BY <1>3
<1>5. /\ FlattenSeq(seqs) \in Seq(B)
      /\ \A x : x \in ToSet(FlattenSeq(seqs)) <=> \E k \in 1 .. m : x \in ToSet(seqs[k])
  BY <1>4, FlattenHolds
<1>6. g \in Seq(ToSet(g))
  BY <1>5, RangesAreFinite
<1>7. \A x \in ToSet(g) : NoCallAt(t, x.line) /\ x.from \in ids
  BY <1>1, <1>5
<1> HIDE DEF g
<1> QED
  BY <1>6, <1>7 DEF OnNoCalls, g

\* A tree walked when it is complete: decl is what each node declares.
LEMMA ParsedHolds ==
    ASSUME NEW t, IsTree(t), GrownRight(t), NEW decls \in Seq(1 .. Len(t)), NEW decl,
           \A k \in DOMAIN decls : decl[decls[k]].line = decls[k] /\ t[decls[k]].k # "call",
           NEW ids, NEW rs, OnNoCalls(t, ids, rs)
    PROVE  IsWalked(t, [k \in DOMAIN decls |-> decl[decls[k]]], rs)
<1> DEFINE ns == [k \in DOMAIN decls |-> decl[decls[k]]]
           B == {decl[decls[k]] : k \in DOMAIN decls}
<1>1. DOMAIN decls = 1 .. Len(decls) /\ Len(decls) \in Nat /\ \A k \in DOMAIN decls : decls[k] \in 1 .. Len(t)
  OBVIOUS
<1>2. ns \in Seq(B)
  BY <1>1
<1>3. ns \in Seq(ToSet(ns))
  <2> HIDE DEF ns, B
  <2> QED
    BY <1>2, RangesAreFinite
<1>4. \A d \in ToSet(ns) : \E k \in DOMAIN decls : d = decl[decls[k]]
  BY DEF ToSet
<1> HIDE DEF ns
<1>5. \A d \in ToSet(ns) : NoCallAt(t, d.line)
  BY <1>1, <1>4 DEF NoCallAt
<1>6. \A d, e \in ToSet(ns) : d.line = e.line => d = e
  BY <1>4
<1>7. IsWalked(t, ns, rs)
  BY <1>3, <1>5, <1>6 DEF IsWalked, OnNoCalls
<1> QED
  BY <1>7 DEF ns

\* Each node has a list of names: bases of a class, parts of a receiver.
HasNames(t) == \A i \in 1 .. Len(t) : t[i].recv \in Seq(STRING)

\* One node more.
LEMMA NamesGrow ==
    ASSUME NEW t, IsTree(t), HasNames(t), NEW x, x.recv \in Seq(STRING)
    PROVE  HasNames(Append(t, x))
<1> DEFINE u == Append(t, x)
           n == Len(t)
<1>1. n \in Nat /\ Len(u) = n + 1 /\ u[n + 1] = x /\ \A i \in 1 .. n : u[i] = t[i]
  BY DEF IsTree
<1>2. \A i \in 1 .. n : t[i].recv \in Seq(STRING)
  BY DEF HasNames
<1> HIDE DEF u, n
<1>3. \A i \in 1 .. n + 1 : i \in 1 .. n \/ i = n + 1
  BY <1>1
<1>4. HasNames(u)
  BY <1>1, <1>2, <1>3 DEF HasNames
<1> QED
  BY <1>4 DEF u

\* No node yet.
LEMMA NoNamesYet == ExtractionInit => HasNames(tree)
<1>1. ExtractionInit => tree = <<>>
  BY Zenon DEF ExtractionInit
<1>2. Len(<<>>) = 0 /\ 1 .. 0 = {}
  OBVIOUS
<1> QED
  BY <1>1, <1>2 DEF HasNames

\* Classes and functions of Python.
LEMMA PyDefsAre ==
    ASSUME IsTree(tree), NEW names, names \in {NodesOf({"class"}), FuncDefs}
    PROVE  /\ names \in Seq(1 .. Len(tree)) /\ DOMAIN names = 1 .. Len(names)
           /\ \A k \in DOMAIN names : tree[names[k]].k \in {"class", "function"}
<1> DEFINE n == Len(tree)
           P == 1 .. n
           seqs == [i \in P |-> CASE tree[i].k = "class" -> MethodsOf(i)
                                  [] tree[i].k = "function" /\ ~ InClass(i) -> <<i>>
                                  [] OTHER -> <<>>]
<1>1. n \in Nat /\ DOMAIN tree = P
  BY DEF IsTree
<1>2. CASE names = NodesOf({"class"})
  BY <1>1, <1>2, InOrderHolds DEF NodesOf
<1>3. CASE names = FuncDefs
  <2>1. FuncDefs = FlattenSeq(seqs)
    BY <1>1 DEF FuncDefs
  <2>2. ASSUME NEW i \in P
        PROVE  seqs[i] \in Seq(P) /\ \A j \in ToSet(seqs[i]) : tree[j].k = "function"
    <3>1. ToSet(<<>>) = {} /\ <<>> \in Seq(P) /\ ToSet(<<i>>) = {i} /\ <<i>> \in Seq(P)
      BY DEF ToSet
    <3>2. /\ MethodsOf(i) \in Seq(P)
          /\ \A k \in DOMAIN MethodsOf(i) : tree[MethodsOf(i)[k]].k = "function"
      BY <1>1, InOrderHolds DEF MethodsOf
    <3>3. \A j \in ToSet(MethodsOf(i)) : tree[j].k = "function"
      BY <3>2 DEF ToSet
    <3>4. \/ seqs[i] = MethodsOf(i)
          \/ seqs[i] = <<i>> /\ tree[i].k = "function"
          \/ seqs[i] = <<>>
      BY Zenon
    <3> HIDE DEF seqs, P
    <3> QED
      BY <3>1, <3>2, <3>3, <3>4
  <2>3. seqs \in [P -> Seq(P)]
    <3> DEFINE v(i) == seqs[i]
    <3>1. seqs = [i \in P |-> v(i)]
      OBVIOUS
    <3> HIDE DEF v, seqs
    <3> QED
      BY <2>2, <3>1
  <2> HIDE DEF seqs, n
  <2>4. /\ FlattenSeq(seqs) \in Seq(P)
        /\ \A x : x \in ToSet(FlattenSeq(seqs)) <=> \E i \in 1 .. n : x \in ToSet(seqs[i])
    BY <1>1, <2>3, FlattenHolds
  <2>5. names \in Seq(P) /\ \A j \in ToSet(names) : tree[j].k = "function"
    BY <1>3, <2>1, <2>2, <2>4
  <2>6. DOMAIN names = 1 .. Len(names)
    BY <2>5
  <2>7. \A k \in DOMAIN names : names[k] \in ToSet(names)
    BY DEF ToSet
  <2> QED
    BY <2>5, <2>6, <2>7 DEF n
<1> QED
  BY <1>2, <1>3

\* A list of one reference for each of a list of names.
LEMMA OneForEach ==
    ASSUME NEW t, NEW ids, NEW i, NoCallAt(t, i), NEW ss \in Seq(STRING), NEW rs,
           DOMAIN rs = DOMAIN ss, rs = [b \in DOMAIN rs |-> rs[b]], \A b \in DOMAIN rs : rs[b].line = i /\ rs[b].from \in ids
    PROVE  OnNoCalls(t, ids, rs)
<1> DEFINE B == {rs[b] : b \in DOMAIN rs}
<1>1. DOMAIN rs = 1 .. Len(ss) /\ Len(ss) \in Nat
  OBVIOUS
<1>2. rs \in Seq(B)
  BY <1>1
<1>3. rs \in Seq(ToSet(rs))
  <2> HIDE DEF B
  <2> QED
    BY <1>2, RangesAreFinite
<1>4. \A r \in ToSet(rs) : r.line = i /\ r.from \in ids
  BY DEF ToSet
<1> QED
  BY <1>3, <1>4 DEF OnNoCalls

\* A list of one reference, or of none.
LEMMA OneOrNone ==
    ASSUME NEW t, NEW ids
    PROVE  OnNoCalls(t, ids, <<>>) /\ \A r : NoCallAt(t, r.line) /\ r.from \in ids => OnNoCalls(t, ids, <<r>>)
<1>1. ToSet(<<>>) = {} /\ <<>> \in Seq({}) /\ \A r : ToSet(<<r>>) = {r} /\ <<r>> \in Seq({r})
  BY DEF ToSet
<1> QED
  BY <1>1 DEF OnNoCalls

\* What a Python file is parsed to.
LEMMA PyParsed ==
    ASSUME IsTree(tree), GrownRight(tree), HasNames(tree), ParsePy
    PROVE  /\ IsWalked(tree, nodes', refs')
           /\ \A r \in ToSet(refs') : r.from \in IdsOf(ToSet(nodes'))
<1> DEFINE n == Len(tree)
           P == 1 .. n
           classes == NodesOf({"class"})
           defs == FuncDefs
           decls == InOrder(ToSet(classes \o defs))
           brefs == [k \in DOMAIN classes |-> BaseRefs(classes[k])]
           drefs == [k \in DOMAIN defs |-> DecoratorRefs(defs[k])]
           decl == [i \in P |-> PyDecl(i)]
           ids == IdsOf(ToSet(nodes'))
<1>0. n \in Nat /\ DOMAIN tree = P
  BY DEF IsTree
<1>1. /\ nodes' = [k \in DOMAIN decls |-> PyDecl(decls[k])]
      /\ refs' = FlattenSeq(brefs) \o FlattenSeq(drefs)
  BY Zenon DEF ParsePy
<1>2. /\ classes \in Seq(P) /\ DOMAIN classes = 1 .. Len(classes)
      /\ \A k \in DOMAIN classes : tree[classes[k]].k \in {"class", "function"}
      /\ defs \in Seq(P) /\ DOMAIN defs = 1 .. Len(defs)
      /\ \A k \in DOMAIN defs : tree[defs[k]].k \in {"class", "function"}
  BY PyDefsAre
<1>3. /\ decls \in Seq(P) /\ DOMAIN decls = 1 .. Len(decls)
      /\ \A k \in DOMAIN decls : decls[k] \in ToSet(classes \o defs)
      /\ \A i \in P : i \in ToSet(classes \o defs) => \E k \in DOMAIN decls : decls[k] = i
  BY InOrderHolds
<1> HIDE DEF classes, defs, decls, ids
<1>4. /\ \A i \in ToSet(classes \o defs) : tree[i].k \in {"class", "function"}
      /\ \A k \in DOMAIN classes : classes[k] \in P /\ classes[k] \in ToSet(classes \o defs)
      /\ \A k \in DOMAIN defs : defs[k] \in P /\ defs[k] \in ToSet(classes \o defs)
  <2>1. ToSet(classes \o defs) = ToSet(classes) \cup ToSet(defs)
    BY <1>2, JoinHolds
  <2>2. \A k \in DOMAIN classes : classes[k] \in P /\ classes[k] \in ToSet(classes)
    BY <1>2 DEF ToSet
  <2>3. \A k \in DOMAIN defs : defs[k] \in P /\ defs[k] \in ToSet(defs)
    BY <1>2 DEF ToSet
  <2>4. \A i \in ToSet(classes) \cup ToSet(defs) : tree[i].k \in {"class", "function"}
    BY <1>2 DEF ToSet
  <2> QED
    BY <2>1, <2>2, <2>3, <2>4
<1>5. \A i : PyDecl(i).line = i
  BY DEF PyDecl, PlainDecl
<1>6. nodes' = [k \in DOMAIN decls |-> decl[decls[k]]]
  BY <1>1, <1>3
<1>13. \A i \in P : i \in ToSet(classes \o defs) => PyDecl(i).id \in ids
  <2> SUFFICES ASSUME NEW i \in P, i \in ToSet(classes \o defs) PROVE PyDecl(i).id \in ids
    OBVIOUS
  <2>1. PICK k \in DOMAIN decls : decls[k] = i
    BY <1>3
  <2>2. k \in DOMAIN nodes' /\ nodes'[k] = PyDecl(i)
    BY <1>1, <2>1
  <2>3. PyDecl(i) \in ToSet(nodes')
    BY <2>2, Zenon DEF ToSet
  <2> QED
    BY <2>3, Zenon DEF ids, IdsOf
<1>7. \A k \in DOMAIN decls : decl[decls[k]].line = decls[k] /\ tree[decls[k]].k # "call"
  BY <1>3, <1>4, <1>5
<1> HIDE DEF decl
<1>8. \A i \in P : tree[i].k \in {"class", "function"} => NoCallAt(tree, i)
  BY DEF NoCallAt
<1>9. OnNoCalls(tree, ids, FlattenSeq(brefs))
  <2>1. ASSUME NEW k \in DOMAIN classes PROVE OnNoCalls(tree, ids, BaseRefs(classes[k]))
    <3> DEFINE i == classes[k]
               rs == BaseRefs(i)
    <3>0. i \in P /\ NoCallAt(tree, i)
      <4>1. i \in P
        BY <1>2
      <4>2. tree[i].k \in {"class", "function"}
        BY <1>2
      <4> HIDE DEF i, P
      <4> QED
        BY <1>8, <4>1, <4>2
    <3>1. i \in P /\ NoCallAt(tree, i) /\ tree[i].recv \in Seq(STRING)
      <4>1. \A j \in P : tree[j].recv \in Seq(STRING)
        BY Zenon DEF HasNames
      <4> HIDE DEF i, P
      <4> QED
        BY <3>0, <4>1
    <3>2. /\ DOMAIN rs = DOMAIN tree[i].recv /\ rs = [b \in DOMAIN rs |-> rs[b]]
          /\ \A b \in DOMAIN rs : rs[b].line = i /\ rs[b].from = PyDecl(i).id
      BY DEF BaseRefs, Ref
    <3>4. PyDecl(i).id \in ids
      BY <1>4, <1>13
    <3> HIDE DEF rs, i
    <3>3. OnNoCalls(tree, ids, rs)
      BY <3>1, <3>2, <3>4, OneForEach
    <3> QED
      BY <3>3 DEF rs, i
  <2>2. DOMAIN brefs = 1 .. Len(classes) /\ brefs = [k \in DOMAIN brefs |-> brefs[k]]
        /\ \A k \in 1 .. Len(classes) : OnNoCalls(tree, ids, brefs[k])
    BY <1>2, <2>1
  <2>3. Len(classes) \in Nat
    BY <1>2
  <2> HIDE DEF brefs
  <2> QED
    BY <2>2, <2>3, NoCallsFlat
<1>10. OnNoCalls(tree, ids, FlattenSeq(drefs))
  <2>1. ASSUME NEW k \in DOMAIN defs PROVE OnNoCalls(tree, ids, DecoratorRefs(defs[k]))
    <3> DEFINE i == defs[k]
               r == Ref("decorates", tree[i].of, <<>>, PyDecl(i).id, i)
    <3>1. i \in P /\ NoCallAt(tree, i)
      BY SMTT(40), <1>2, <1>8
    <3>2. r.line = i /\ r.from = PyDecl(i).id
      BY DEF Ref
    <3>5. PyDecl(i).id \in ids
      BY <1>4, <1>13
    <3>3. DecoratorRefs(i) = <<>> \/ DecoratorRefs(i) = <<r>>
      BY DEF DecoratorRefs
    <3> HIDE DEF r, i
    <3>4. OnNoCalls(tree, ids, DecoratorRefs(i))
      BY <3>1, <3>2, <3>3, <3>5, OneOrNone
    <3> QED
      BY <3>4 DEF i
  <2>2. DOMAIN drefs = 1 .. Len(defs) /\ drefs = [k \in DOMAIN drefs |-> drefs[k]]
        /\ \A k \in 1 .. Len(defs) : OnNoCalls(tree, ids, drefs[k])
    BY <1>2, <2>1
  <2>3. Len(defs) \in Nat
    BY <1>2
  <2> HIDE DEF drefs
  <2> QED
    BY <2>2, <2>3, NoCallsFlat
<1> HIDE DEF brefs, drefs
<1>11. OnNoCalls(tree, ids, refs')
  BY <1>1, <1>9, <1>10, NoCallsJoined
<1>12. IsWalked(tree, [k \in DOMAIN decls |-> decl[decls[k]]], refs')
  BY <1>3, <1>7, <1>11, ParsedHolds
<1> QED
  BY <1>6, <1>11, <1>12 DEF OnNoCalls, ids

\* What the plugins that parse a complete tree need of it until then.
ParseInv == ExtractInv /\ (walk = "declare" => HasNames(tree))

\* A step of the Python plugin's walks.
LEMMA PyStep == ASSUME ParseInv, [PyNext]_<<treeVars, typedVars>> PROVE ParseInv'
<1>1. ASSUME VisitPy PROVE ParseInv'
  <2>1. /\ walk = "declare" /\ walk' = "declare" /\ IsWalked(tree, nodes, refs) /\ HasNames(tree)
        /\ nodes' = nodes /\ refs' = refs
    BY <1>1, Zenon DEF VisitPy, ExtractInv, ParseInv
  <2> DEFINE n(s, up) == [k |-> s.k, name |-> s.name, of |-> s.of, recv |-> s.recv, up |-> up]
  <2>2. PICK s \in PySyntax, up \in Parents : tree' = Append(tree, n(s, up))
    BY <1>1, Zenon DEF VisitPy
  <2> DEFINE x == n(s, up)
  <2>3. x.up \in OpenIn(tree) /\ x.recv \in Seq(STRING)
    BY <2>1, ParentsAre, PythonPluginAssumption DEF IsWalked
  <2> HIDE DEF x
  <2>4. IsWalked(Append(tree, x), nodes, refs)
    BY <2>1, <2>3, GrowingKeeps
  <2>5. HasNames(Append(tree, x))
    BY <2>1, <2>3, NamesGrow DEF IsWalked
  <2>6. IsWalked(tree', nodes', refs') /\ HasNames(tree')
    BY <2>1, <2>2, <2>4, <2>5, Zenon DEF x
  <2> QED
    BY <2>1, <2>6 DEF ExtractInv, ParseInv
<1>2. ASSUME ParsePy PROVE ParseInv'
  <2>1. walk = "declare" /\ walk' = "calls" /\ tree' = tree
    BY <1>2, Zenon DEF ParsePy
  <2>2. IsWalked(tree, nodes', refs')
    BY <1>2, <2>1, PyParsed DEF ParseInv, ExtractInv, IsWalked
  <2> QED
    BY <2>1, <2>2 DEF ParseInv, ExtractInv
<1>3. ASSUME Calls PROVE ParseInv'
  <2>1. walk' = "done"
    BY <1>3 DEF Calls
  <2> QED
    BY <1>3, <2>1, CallsEnd DEF ParseInv
<1>4. CASE UNCHANGED <<treeVars, typedVars>>
  BY <1>4, NothingHappens DEF ParseInv, treeVars
<1> QED
  BY <1>1, <1>2, <1>3, <1>4 DEF PyNext

\* Whatever a Python file holds, its plugin attributes each call to the nearest declared
\* function around it, which is the method for a function that a method defines, and to
\* none if there is none.
THEOREM PyCallsAttributed == PySpec => []CallsAreAttributed
<1>1. ParseInv => CallsAreAttributed
  BY DEF ParseInv, ExtractInv, CallsAreAttributed
<1>2. ExtractionInit => ParseInv
  BY NothingWalked, NoNamesYet DEF ParseInv
<1> QED
  BY <1>1, <1>2, PyStep, PTL DEF PySpec

\* What a TypeScript file is parsed to.
LEMMA TsParsed ==
    ASSUME IsTree(tree), GrownRight(tree), HasNames(tree), ParseTs
    PROVE  /\ IsWalked(tree, nodes', refs')
           /\ \A r \in ToSet(refs') : r.from \in IdsOf(ToSet(nodes'))
<1> DEFINE n == Len(tree)
           P == 1 .. n
           classes == NodesOf({"class"})
           decls == InOrder({i \in DOMAIN tree : IsDeclared(i)})
           hrefs == [k \in DOMAIN classes |-> HeritageRefs(classes[k])]
           decl == [i \in P |-> TsDecl(i)]
           ids == IdsOf(ToSet(nodes'))
<1>0. n \in Nat /\ DOMAIN tree = P
  BY DEF IsTree
<1>1. /\ nodes' = [k \in DOMAIN decls |-> TsDecl(decls[k])]
      /\ refs' = FlattenSeq(hrefs)
  BY Zenon DEF ParseTs
<1>2. /\ classes \in Seq(P) /\ DOMAIN classes = 1 .. Len(classes)
      /\ \A k \in DOMAIN classes : tree[classes[k]].k = "class"
  BY <1>0, InOrderHolds DEF NodesOf
<1>3. /\ decls \in Seq(P) /\ DOMAIN decls = 1 .. Len(decls)
      /\ \A k \in DOMAIN decls : decls[k] \in {i \in DOMAIN tree : IsDeclared(i)}
      /\ \A i \in P : i \in {j \in DOMAIN tree : IsDeclared(j)} => \E k \in DOMAIN decls : decls[k] = i
  BY InOrderHolds
<1> HIDE DEF classes, decls, ids
<1>4. \A i \in P : IsDeclared(i) => /\ tree[i].k \in {"class", "interface", "alias", "method", "arrow", "function"}
                                   /\ TsDecl(i).line = i
  BY DEF IsDeclared, TsDecl, PlainDecl
<1>5. \A k \in DOMAIN decls : decls[k] \in P /\ IsDeclared(decls[k])
  BY <1>0, <1>3
<1>6. nodes' = [k \in DOMAIN decls |-> decl[decls[k]]]
  BY <1>1, <1>5
<1>10. \A i \in P : IsDeclared(i) => TsDecl(i).id \in ids
  <2> SUFFICES ASSUME NEW i \in P, IsDeclared(i) PROVE TsDecl(i).id \in ids
    OBVIOUS
  <2>1. PICK k \in DOMAIN decls : decls[k] = i
    BY <1>0, <1>3
  <2>2. k \in DOMAIN nodes' /\ nodes'[k] = TsDecl(i)
    BY <1>1, <2>1
  <2>3. TsDecl(i) \in ToSet(nodes')
    BY <2>2, Zenon DEF ToSet
  <2> QED
    BY <2>3, Zenon DEF ids, IdsOf
<1>7. \A k \in DOMAIN decls : decl[decls[k]].line = decls[k] /\ tree[decls[k]].k # "call"
  BY <1>4, <1>5
<1> HIDE DEF decl
<1>8. OnNoCalls(tree, ids, FlattenSeq(hrefs))
  <2>1. ASSUME NEW k \in DOMAIN classes PROVE OnNoCalls(tree, ids, HeritageRefs(classes[k]))
    <3> DEFINE i == classes[k]
               rs == [b \in DOMAIN tree[i].recv |-> Ref("inherits", tree[i].recv[b], <<>>, TsDecl(i).id, i)]
               r == Ref("implements", tree[i].of, <<>>, TsDecl(i).id, i)
               one == IF tree[i].of = None THEN <<>> ELSE <<r>>
    <3>0. i \in P /\ tree[i].k = "class"
      BY <1>2
    <3>1. NoCallAt(tree, i) /\ tree[i].recv \in Seq(STRING)
      <4>1. \A j \in P : tree[j].recv \in Seq(STRING)
        BY Zenon DEF HasNames
      <4>2. NoCallAt(tree, i)
        BY <3>0 DEF NoCallAt
      <4> HIDE DEF i, P
      <4> QED
        BY <3>0, <4>1, <4>2
    <3>2. /\ DOMAIN rs = DOMAIN tree[i].recv /\ rs = [b \in DOMAIN rs |-> rs[b]]
          /\ \A b \in DOMAIN rs : rs[b].line = i /\ rs[b].from = TsDecl(i).id
      BY DEF Ref
    <3>3. r.line = i /\ r.from = TsDecl(i).id
      BY DEF Ref
    <3>9. TsDecl(i).id \in ids
      BY <1>10, <3>0 DEF IsDeclared
    <3>4. HeritageRefs(i) = rs \o one
      BY Zenon DEF HeritageRefs
    <3>5. one = <<>> \/ one = <<r>>
      OBVIOUS
    <3> HIDE DEF rs, i, r, one
    <3>6. OnNoCalls(tree, ids, rs)
      BY <3>1, <3>2, <3>9, OneForEach
    <3>7. OnNoCalls(tree, ids, one)
      BY <3>1, <3>3, <3>5, <3>9, OneOrNone
    <3>8. OnNoCalls(tree, ids, HeritageRefs(i))
      BY <3>4, <3>6, <3>7, NoCallsJoined
    <3> QED
      BY <3>8 DEF i
  <2>2. DOMAIN hrefs = 1 .. Len(classes) /\ hrefs = [k \in DOMAIN hrefs |-> hrefs[k]]
        /\ \A k \in 1 .. Len(classes) : OnNoCalls(tree, ids, hrefs[k])
    BY <1>2, <2>1
  <2>3. Len(classes) \in Nat
    BY <1>2
  <2> HIDE DEF hrefs
  <2> QED
    BY <2>2, <2>3, NoCallsFlat
<1>11. OnNoCalls(tree, ids, refs')
  BY <1>1, <1>8
<1>9. IsWalked(tree, [k \in DOMAIN decls |-> decl[decls[k]]], refs')
  BY <1>3, <1>7, <1>11, ParsedHolds
<1> QED
  BY <1>6, <1>9, <1>11 DEF OnNoCalls, ids

\* A step of the TypeScript plugin's walks.
LEMMA TsStep == ASSUME ParseInv, [TsNext]_<<treeVars, typedVars>> PROVE ParseInv'
<1>1. ASSUME VisitTs PROVE ParseInv'
  <2>1. /\ walk = "declare" /\ walk' = "declare" /\ IsWalked(tree, nodes, refs) /\ HasNames(tree)
        /\ nodes' = nodes /\ refs' = refs
    BY <1>1, Zenon DEF VisitTs, ExtractInv, ParseInv
  <2> DEFINE n(s, up) == [k |-> s.k, name |-> s.name, of |-> s.of, recv |-> s.recv, up |-> up]
  <2>2. PICK s \in TsSyntax, up \in Parents : tree' = Append(tree, n(s, up))
    BY <1>1, Zenon DEF VisitTs
  <2> DEFINE x == n(s, up)
  <2>3. x.up \in OpenIn(tree) /\ x.recv \in Seq(STRING)
    BY <2>1, ParentsAre, TypeScriptPluginAssumption DEF IsWalked
  <2> HIDE DEF x
  <2>4. IsWalked(Append(tree, x), nodes, refs)
    BY <2>1, <2>3, GrowingKeeps
  <2>5. HasNames(Append(tree, x))
    BY <2>1, <2>3, NamesGrow DEF IsWalked
  <2>6. IsWalked(tree', nodes', refs') /\ HasNames(tree')
    BY <2>1, <2>2, <2>4, <2>5, Zenon DEF x
  <2> QED
    BY <2>1, <2>6 DEF ExtractInv, ParseInv
<1>2. ASSUME ParseTs PROVE ParseInv'
  <2>1. walk = "declare" /\ walk' = "calls" /\ tree' = tree
    BY <1>2, Zenon DEF ParseTs
  <2>2. IsWalked(tree, nodes', refs')
    BY <1>2, <2>1, TsParsed DEF ParseInv, ExtractInv, IsWalked
  <2> QED
    BY <2>1, <2>2 DEF ParseInv, ExtractInv
<1>3. ASSUME Calls PROVE ParseInv'
  <2>1. walk' = "done"
    BY <1>3 DEF Calls
  <2> QED
    BY <1>3, <2>1, CallsEnd DEF ParseInv
<1>4. CASE UNCHANGED <<treeVars, typedVars>>
  BY <1>4, NothingHappens DEF ParseInv, treeVars
<1> QED
  BY <1>1, <1>2, <1>3, <1>4 DEF TsNext

\* Whatever a TypeScript file holds, its plugin attributes each call to the nearest function
\* around it that is declared, arrow functions bound to a name included, and to none if
\* there is none.
THEOREM TsCallsAttributed == TsSpec => []CallsAreAttributed
<1>1. ParseInv => CallsAreAttributed
  BY DEF ParseInv, ExtractInv, CallsAreAttributed
<1>2. ExtractionInit => ParseInv
  BY NothingWalked, NoNamesYet DEF ParseInv
<1> QED
  BY <1>1, <1>2, TsStep, PTL DEF TsSpec

-----------------------------------------------------------------------------
(* What is above a type.  A map of bases gives a list of bases for a type. *)

IsBases(up) == /\ up \in [DOMAIN up -> Seq(AllBases(up))]
               /\ IsFiniteSet(AllBases(up))

\* A list of bases holds bases only.
LEMMA BasesAreBases ==
    ASSUME NEW up, IsBases(up), NEW t
    PROVE  BasesIn(up, t) \in Seq(AllBases(up)) /\ ToSet(BasesIn(up, t)) \subseteq AllBases(up)
<1>1. BasesIn(up, t) \in Seq(AllBases(up))
  BY DEF BasesIn, IsBases
<1> HIDE DEF IsBases
<1>2. \A s \in Seq(AllBases(up)) : ToSet(s) \subseteq AllBases(up)
  BY DEF ToSet
<1> QED
  BY <1>1, <1>2

\* The types of S and their bases.
OneUp(up, S) == S \cup UNION {ToSet(BasesIn(up, t)) : t \in S}

Climbs(up, type, k, f) == /\ f[0] = {type}
                          /\ \A j \in 1 .. k : f[j] = OneUp(up, f[j - 1])

\* Above is defined.
LEMMA AboveClimbs ==
    ASSUME NEW up, IsBases(up), NEW type, NEW k \in Nat
    PROVE  \E f : Climbs(up, type, k, f) /\ Above(up, type, k) = f[k]
<1> DEFINE St == SUBSET ({type} \cup AllBases(up))
           move == [p \in (1 .. k) \X St |-> OneUp(up, p[2])]
           Body(f) == [j \in 0 .. k |-> IF j = 0 THEN {type} ELSE OneUp(up, f[j - 1])]
<1>1. {type} \in St /\ \A S \in St : OneUp(up, S) \in St
  BY BasesAreBases DEF OneUp
<1>2. move \in [(1 .. k) \X St -> St] /\ \A j \in 1 .. k, S \in St : move[<<j, S>>] = OneUp(up, S)
  BY <1>1
<1> HIDE DEF St, move
<1>3. PICK f \in [0 .. k -> St] : f[0] = {type} /\ \A j \in 1 .. k : f[j] = move[<<j, f[j - 1]>>]
  <2>1. Moves(k, St, move)
    BY <1>2 DEF Moves
  <2>2. \E f : Walks(k, St, {type}, move, f)
    BY <1>1, <2>1, Recursion
  <2> QED
    BY <2>2 DEF Walks
<1>4. ASSUME NEW j \in 1 .. k PROVE f[j] = OneUp(up, f[j - 1])
  <2>1. j - 1 \in 0 .. k
    OBVIOUS
  <2> QED
    BY <1>2, <1>3, <2>1
<1>5. f = Body(f)
  <2>1. DOMAIN f = 0 .. k /\ DOMAIN Body(f) = 0 .. k
    OBVIOUS
  <2>2. \A j \in 0 .. k : f[j] = Body(f)[j]
    BY <1>3, <1>4
  <2> QED
    BY <1>3, <2>1, <2>2
<1>6. \A g : g = Body(g) => Climbs(up, type, k, g)
  <2> SUFFICES ASSUME NEW g, g = Body(g) PROVE Climbs(up, type, k, g)
    OBVIOUS
  <2>1. Body(g)[0] = {type} /\ \A j \in 1 .. k : Body(g)[j] = OneUp(up, g[j - 1])
    OBVIOUS
  <2> HIDE DEF Body
  <2>2. g[0] = Body(g)[0] /\ \A j \in 1 .. k : g[j] = Body(g)[j]
    OBVIOUS
  <2> QED
    BY <2>1, <2>2 DEF Climbs
<1> HIDE DEF Body
<1> DEFINE h == CHOOSE g : g = Body(g)
<1>7. h = Body(h)
  BY <1>5, Zenon
<1>8. Above(up, type, k) = h[k]
  BY Zenon DEF Above, Body, OneUp
<1> QED
  BY <1>6, <1>7, <1>8, Zenon

\* Two climbs agree as far as both go.
LEMMA ClimbsAgree ==
    ASSUME NEW up, NEW type, NEW k \in Nat, NEW l \in Nat, k <= l, NEW f, Climbs(up, type, k, f),
           NEW g, Climbs(up, type, l, g), NEW j \in 0 .. k
    PROVE  f[j] = g[j]
<1> DEFINE T == {i \in 0 .. k : f[i] # g[i]}
<1> SUFFICES ASSUME T # {} PROVE FALSE
  OBVIOUS
<1>1. PICK i \in T : \A h \in T : i <= h
  <2>1. T \in SUBSET Nat
    OBVIOUS
  <2> HIDE DEF T
  <2> QED
    BY <2>1, LeastNumber
<1>2. i # 0
  BY DEF Climbs
<1>3. i \in 1 .. k /\ i \in 1 .. l /\ i - 1 \in 0 .. k /\ i - 1 \notin T
  <2>1. i \in 1 .. k /\ i - 1 \in 0 .. k /\ i - 1 < i
    BY <1>2
  <2>2. i - 1 \notin T
    BY <1>1, <2>1
  <2> QED
    BY <2>1, <2>2
<1>4. f[i - 1] = g[i - 1]
  BY <1>3
<1>5. f[i] = OneUp(up, f[i - 1]) /\ g[i] = OneUp(up, g[i - 1])
  BY <1>3 DEF Climbs
<1> QED
  BY <1>4, <1>5

\* No base above a type but the type itself, and one more step with each number.
LEMMA AboveIs ==
    ASSUME NEW up, IsBases(up), NEW type
    PROVE  /\ Above(up, type, 0) = {type}
           /\ \A k \in Nat : Above(up, type, k + 1) = OneUp(up, Above(up, type, k))
<1>1. Above(up, type, 0) = {type}
  <2>1. PICK f : Climbs(up, type, 0, f) /\ Above(up, type, 0) = f[0]
    BY AboveClimbs
  <2> QED
    BY <2>1 DEF Climbs
<1>2. ASSUME NEW k \in Nat PROVE Above(up, type, k + 1) = OneUp(up, Above(up, type, k))
  <2>1. k + 1 \in Nat /\ k <= k + 1 /\ k \in 0 .. k /\ k + 1 \in 1 .. k + 1 /\ (k + 1) - 1 = k
    OBVIOUS
  <2>2. PICK f : Climbs(up, type, k, f) /\ Above(up, type, k) = f[k]
    BY AboveClimbs
  <2>3. PICK g : Climbs(up, type, k + 1, g) /\ Above(up, type, k + 1) = g[k + 1]
    BY <2>1, AboveClimbs
  <2>4. f[k] = g[k]
    BY <2>1, <2>2, <2>3, ClimbsAgree
  <2>5. g[k + 1] = OneUp(up, g[k])
    BY <2>1, <2>3 DEF Climbs
  <2> QED
    BY <2>2, <2>3, <2>4, <2>5
<1> QED
  BY <1>1, <1>2

\* What is above grows with the number, and holds the type and bases only.
LEMMA AboveGrows ==
    ASSUME NEW up, IsBases(up), NEW type, NEW l \in Nat
    PROVE  \A k \in 0 .. l : Above(up, type, k) \subseteq Above(up, type, l)
<1> DEFINE A(k) == Above(up, type, k)
           T == {k \in 0 .. l : ~ (A(k) \subseteq A(l))}
<1> SUFFICES ASSUME T # {} PROVE FALSE
  OBVIOUS
<1>1. PICK k \in T : \A h \in T : h <= k
  <2>1. T \in SUBSET (0 .. l)
    OBVIOUS
  <2> HIDE DEF T
  <2> QED
    BY <2>1, GreatestNumber
<1>2. k \in 0 .. l /\ k # l /\ ~ (A(k) \subseteq A(l))
  OBVIOUS
<1>3. k + 1 \in 0 .. l /\ k \in Nat /\ k + 1 > k
  BY <1>2
<1>4. A(k + 1) \subseteq A(l)
  BY <1>1, <1>3
<1>5. A(k) \subseteq A(k + 1)
  BY <1>3, AboveIs DEF OneUp
<1> QED
  BY <1>2, <1>4, <1>5

\* What is above a type is the type or a base.
LEMMA AboveAreBases ==
    ASSUME NEW up, IsBases(up), NEW type, NEW k \in Nat
    PROVE  Above(up, type, k) \subseteq {type} \cup AllBases(up)
<1> DEFINE A(j) == Above(up, type, j)
           B == {type} \cup AllBases(up)
           T == {j \in Nat : ~ (A(j) \subseteq B)}
<1> SUFFICES ASSUME T # {} PROVE FALSE
  OBVIOUS
<1>1. PICK j \in T : \A h \in T : j <= h
  <2>1. T \in SUBSET Nat
    OBVIOUS
  <2> HIDE DEF T
  <2> QED
    BY <2>1, LeastNumber
<1>2. j # 0
  BY AboveIs
<1>3. j - 1 \in Nat /\ (j - 1) + 1 = j /\ j - 1 \notin T
  <2>1. j - 1 \in Nat /\ (j - 1) + 1 = j /\ j - 1 < j
    BY <1>2
  <2>2. j - 1 \notin T
    BY <1>1, <2>1
  <2> QED
    BY <2>1, <2>2
<1>4. A(j - 1) \subseteq B
  BY <1>3
<1>5. A(j) = OneUp(up, A(j - 1))
  BY <1>3, AboveIs
<1>6. OneUp(up, A(j - 1)) \subseteq B
  BY <1>4, BasesAreBases DEF OneUp
<1> QED
  BY <1>5, <1>6

\* As long as a step finds more, each brings one type at least.
LEMMA AboveIsLarge ==
    ASSUME NEW up, IsBases(up), NEW type, NEW d \in Nat, Above(up, type, d) # Above(up, type, d + 1)
    PROVE  d + 1 <= Cardinality(AllBases(up))
<1> DEFINE A(j) == Above(up, type, j)
           B == {type} \cup AllBases(up)
           Small == {j \in 0 .. d + 1 : ~ (j + 1 <= Cardinality(A(j)))}
           Flat == {j \in 0 .. d : A(j) = A(j + 1)}
<1>1. IsFiniteSet(B) /\ Cardinality(B) <= Cardinality(AllBases(up)) + 1 /\ Cardinality(AllBases(up)) \in Nat
  <2>1. IsFiniteSet(AllBases(up)) /\ B = AllBases(up) \cup {type}
    BY DEF IsBases
  <2>2. Cardinality(AllBases(up)) \in Nat
    BY <2>1, FS_CardinalityType
  <2>3. IsFiniteSet(B) /\ (Cardinality(B) = Cardinality(AllBases(up)) \/ Cardinality(B) = Cardinality(AllBases(up)) + 1)
    BY <2>1, FS_AddElement
  <2> HIDE DEF B
  <2> QED
    BY <2>2, <2>3
<1>2. \A j \in Nat : IsFiniteSet(A(j)) /\ Cardinality(A(j)) \in Nat /\ Cardinality(A(j)) <= Cardinality(B)
  <2>1. \A j \in Nat : A(j) \subseteq B
    BY AboveAreBases
  <2> HIDE DEF A, B
  <2> QED
    BY <1>1, <2>1, FS_Subset, FS_CardinalityType
\* Once a step finds nothing, none after it does.
<1>3. Flat = {}
  <2> SUFFICES ASSUME Flat # {} PROVE FALSE
    OBVIOUS
  <2>1. PICK j \in Flat : \A h \in Flat : h <= j
    <3>1. Flat \in SUBSET (0 .. d)
      OBVIOUS
    <3> HIDE DEF Flat
    <3> QED
      BY <3>1, GreatestNumber
  <2>2. j \in 0 .. d /\ A(j) = A(j + 1)
    OBVIOUS
  <2>3. j # d
    BY <2>2
  <2>4. j + 1 \in 0 .. d /\ j + 1 > j /\ j \in Nat /\ j + 1 \in Nat
    BY <2>2, <2>3
  <2>5. A(j + 1) = OneUp(up, A(j)) /\ A((j + 1) + 1) = OneUp(up, A(j + 1))
    <3>1. \A k \in Nat : A(k + 1) = OneUp(up, A(k))
      BY AboveIs
    <3> HIDE DEF A
    <3> QED
      BY <2>4, <3>1
  <2>6. j + 1 \in Flat
    BY <2>2, <2>4, <2>5
  <2> QED
    BY <2>1, <2>4, <2>6
<1>4. Small = {}
  <2> SUFFICES ASSUME Small # {} PROVE FALSE
    OBVIOUS
  <2>1. PICK j \in Small : \A h \in Small : j <= h
    <3>1. Small \in SUBSET Nat
      OBVIOUS
    <3> HIDE DEF Small
    <3> QED
      BY <3>1, LeastNumber
  <2>2. j \in 0 .. d + 1 /\ ~ (j + 1 <= Cardinality(A(j)))
    OBVIOUS
  <2>3. j # 0
    <3>1. A(0) = {type}
      BY AboveIs
    <3>2. Cardinality(A(0)) = 1
      BY <3>1, FS_Singleton
    <3> QED
      BY <2>2, <3>2
  <2>4. j - 1 \in 0 .. d /\ j - 1 \in Nat /\ (j - 1) + 1 = j /\ j - 1 \notin Small /\ j \in Nat
    <3>1. j - 1 \in 0 .. d /\ j - 1 \in Nat /\ (j - 1) + 1 = j /\ j - 1 < j /\ j \in Nat
      BY <2>2, <2>3
    <3>2. j - 1 \notin Small
      BY <2>1, <3>1
    <3> QED
      BY <3>1, <3>2
  <2>5. (j - 1) + 1 <= Cardinality(A(j - 1))
    BY <2>4
  <2>6. A(j - 1) # A((j - 1) + 1)
    BY <1>3, <2>4
  <2>7. A(j - 1) \subseteq A(j) /\ A(j - 1) # A(j)
    <3>1. A((j - 1) + 1) = OneUp(up, A(j - 1))
      BY SMTT(40), <2>4, AboveIs
    <3> QED
      BY <2>4, <2>6, <3>1 DEF OneUp
  <2> HIDE DEF A
  <2>8. Cardinality(A(j - 1)) < Cardinality(A(j))
    BY SMTT(40), <1>2, <2>4, <2>7, FS_Subset
  <2>9. Cardinality(A(j)) \in Nat /\ Cardinality(A(j - 1)) \in Nat
    BY <1>2, <2>4
  <2> QED
    BY <2>2, <2>4, <2>5, <2>8, <2>9
<1>5. (d + 1) + 1 <= Cardinality(A(d + 1))
  BY <1>4
<1>6. Cardinality(A(d + 1)) \in Nat /\ Cardinality(A(d + 1)) <= Cardinality(B) /\ Cardinality(B) \in Nat
  <2>1. IsFiniteSet(B) /\ d + 1 \in Nat
    BY <1>1
  <2> HIDE DEF A, B
  <2> QED
    BY <1>2, <2>1, FS_CardinalityType
<1> HIDE DEF A, B
<1> QED
  BY <1>1, <1>5, <1>6

-----------------------------------------------------------------------------
(* The search through the bases (UpTheBases).                              *)

\* A list without repetitions.
Once(s) == IsFiniteSet(ToSet(s)) /\ Cardinality(ToSet(s)) = Len(s)

\* A list with one more element, and whether it still repeats none.
LEMMA OneMore ==
    ASSUME NEW B, NEW s \in Seq(B), NEW b \in B
    PROVE  /\ Append(s, b) \in Seq(B) /\ ToSet(Append(s, b)) = ToSet(s) \cup {b}
           /\ Once(s) /\ ~ Contains(s, b) => Once(Append(s, b))
<1>1. Append(s, b) \in Seq(B) /\ Len(Append(s, b)) = Len(s) + 1 /\ Len(s) \in Nat
  OBVIOUS
<1>2. DOMAIN Append(s, b) = 1 .. Len(s) + 1 /\ Append(s, b)[Len(s) + 1] = b /\ DOMAIN s = 1 .. Len(s)
      /\ \A i \in 1 .. Len(s) : Append(s, b)[i] = s[i]
  OBVIOUS
<1>3. ToSet(Append(s, b)) = ToSet(s) \cup {b}
  <2>1. 1 .. Len(s) + 1 = (1 .. Len(s)) \cup {Len(s) + 1}
    BY <1>1
  <2>2. ASSUME NEW x \in ToSet(Append(s, b)) PROVE x \in ToSet(s) \cup {b}
    BY <1>2, <2>1 DEF ToSet
  <2>3. ASSUME NEW x \in ToSet(s) \cup {b} PROVE x \in ToSet(Append(s, b))
    <3>1. CASE x = b
      <4>1. Len(s) + 1 \in DOMAIN Append(s, b)
        BY <1>1, <1>2
      <4> QED
        BY <1>2, <3>1, <4>1 DEF ToSet
    <3>2. CASE x \in ToSet(s)
      <4>1. PICK i \in 1 .. Len(s) : x = s[i]
        BY <1>2, <3>2 DEF ToSet
      <4>2. i \in DOMAIN Append(s, b) /\ Append(s, b)[i] = x
        BY <1>2, <2>1, <4>1
      <4> QED
        BY <4>2 DEF ToSet
    <3> QED
      BY <3>1, <3>2
  <2> QED
    BY <2>2, <2>3
<1>4. ASSUME Once(s), ~ Contains(s, b) PROVE Once(Append(s, b))
  <2>1. b \notin ToSet(s)
    BY <1>2, <1>4 DEF Contains, ToSet
  <2>2. IsFiniteSet(ToSet(s) \cup {b}) /\ Cardinality(ToSet(s) \cup {b}) = Cardinality(ToSet(s)) + 1
    BY <1>4, <2>1, FS_AddElement DEF Once
  <2> QED
    BY <1>1, <1>3, <1>4, <2>2 DEF Once
<1> QED
  BY <1>1, <1>3, <1>4

\* One base more, unless it was seen or is there already.
Another(bs, seen, i, s) == IF bs[i] \in seen \/ Contains(s, bs[i]) THEN s ELSE Append(s, bs[i])

Collects(bs, seen, f) == /\ f[0] = <<>>
                         /\ \A i \in 1 .. Len(bs) : f[i] = Another(bs, seen, i, f[i - 1])

\* Unseen is defined.
LEMMA UnseenCollects ==
    ASSUME NEW B, NEW bs \in Seq(B), NEW seen
    PROVE  \E f : Collects(bs, seen, f) /\ Unseen(bs, seen) = f[Len(bs)]
<1> DEFINE n == Len(bs)
           St == Seq(B)
           move == [p \in (1 .. n) \X St |-> Another(bs, seen, p[1], p[2])]
           Body(f) == [i \in 0 .. n |-> IF i = 0 THEN <<>> ELSE Another(bs, seen, i, f[i - 1])]
<1>1. n \in Nat /\ <<>> \in St /\ \A i \in 1 .. n, s \in St : Another(bs, seen, i, s) \in St
  BY DEF Another
<1>2. move \in [(1 .. n) \X St -> St] /\ \A i \in 1 .. n, s \in St : move[<<i, s>>] = Another(bs, seen, i, s)
  BY <1>1
<1> HIDE DEF St, move, n
<1>3. PICK f \in [0 .. n -> St] : f[0] = <<>> /\ \A i \in 1 .. n : f[i] = move[<<i, f[i - 1]>>]
  <2>1. Moves(n, St, move)
    BY <1>2 DEF Moves
  <2>2. \E f : Walks(n, St, <<>>, move, f)
    BY <1>1, <2>1, Recursion
  <2> QED
    BY <2>2 DEF Walks
<1>4. ASSUME NEW i \in 1 .. n PROVE f[i] = Another(bs, seen, i, f[i - 1])
  <2>1. i - 1 \in 0 .. n
    BY <1>1
  <2> QED
    BY <1>2, <1>3, <2>1
<1>5. f = Body(f)
  <2>1. DOMAIN f = 0 .. n /\ DOMAIN Body(f) = 0 .. n
    OBVIOUS
  <2>2. ASSUME NEW i \in 0 .. n PROVE f[i] = Body(f)[i]
    <3>1. CASE i = 0
      BY <1>3, <3>1
    <3>2. CASE i # 0
      <4>1. i \in 1 .. n
        BY <1>1, <3>2
      <4> QED
        BY <1>4, <3>2, <4>1
    <3> QED
      BY <3>1, <3>2
  <2> QED
    BY <1>3, <2>1, <2>2
<1>6. \A g : g = Body(g) => Collects(bs, seen, g)
  <2> SUFFICES ASSUME NEW g, g = Body(g) PROVE Collects(bs, seen, g)
    OBVIOUS
  <2>1. Body(g)[0] = <<>> /\ \A i \in 1 .. n : Body(g)[i] = Another(bs, seen, i, g[i - 1])
    BY <1>1
  <2> HIDE DEF Body
  <2>2. g[0] = Body(g)[0] /\ \A i \in 1 .. n : g[i] = Body(g)[i]
    OBVIOUS
  <2> QED
    BY <2>1, <2>2 DEF Collects, n
<1> HIDE DEF Body
<1> DEFINE h == CHOOSE g : g = Body(g)
<1>7. h = Body(h)
  BY <1>5, Zenon
<1>8. Unseen(bs, seen) = h[n]
  BY Zenon DEF Unseen, Body, Another, n
<1> QED
  BY <1>6, <1>7, <1>8, Zenon DEF n

\* What is left of a list without those seen: each once.
LEMMA UnseenIs ==
    ASSUME NEW B, NEW bs \in Seq(B), NEW seen
    PROVE  /\ Unseen(bs, seen) \in Seq(B)
           /\ ToSet(Unseen(bs, seen)) = ToSet(bs) \ seen
           /\ Once(Unseen(bs, seen))
<1>1. PICK f : Collects(bs, seen, f) /\ Unseen(bs, seen) = f[Len(bs)]
  BY UnseenCollects
<1> DEFINE n == Len(bs)
           First(i) == {bs[h] : h \in 1 .. i}
           Right(i) == f[i] \in Seq(B) /\ ToSet(f[i]) = First(i) \ seen /\ Once(f[i])
           T == {i \in 0 .. n : ~ Right(i)}
<1>2. n \in Nat
  OBVIOUS
<1>3. T = {}
  <2> SUFFICES ASSUME T # {} PROVE FALSE
    OBVIOUS
  <2>1. PICK i \in T : \A h \in T : i <= h
    <3>1. T \in SUBSET Nat
      BY <1>2
    <3> HIDE DEF T
    <3> QED
      BY <3>1, LeastNumber
  <2>2. i \in 0 .. n /\ ~ Right(i)
    OBVIOUS
  <2>3. i # 0
    <3>1. f[0] = <<>>
      BY <1>1 DEF Collects
    <3>2. ToSet(<<>>) = {} /\ Len(<<>>) = 0 /\ <<>> \in Seq(B) /\ First(0) = {}
      BY DEF ToSet
    <3>3. Once(<<>>)
      BY <3>2, FS_EmptySet DEF Once
    <3> QED
      BY <2>2, <3>1, <3>2, <3>3
  <2>4. i - 1 \in 0 .. n /\ i \in 1 .. n /\ i - 1 \notin T
    <3>1. i - 1 \in 0 .. n /\ i \in 1 .. n /\ i - 1 < i
      BY <1>2, <2>2, <2>3
    <3>2. i - 1 \notin T
      <4> HIDE DEF T
      <4>1. i \in Nat /\ ~ (i <= i - 1)
        BY <2>2
      <4> QED
        BY <2>1, <4>1
    <3> QED
      BY <3>1, <3>2
  <2>5. Right(i - 1)
    BY <2>4
  <2>6. f[i] = Another(bs, seen, i, f[i - 1])
    BY <1>1, <2>4 DEF Collects
  <2>7. First(i) = First(i - 1) \cup {bs[i]} /\ bs[i] \in B
    <3>1. 1 .. i = (1 .. i - 1) \cup {i}
      BY <2>4
    <3> QED
      BY <2>4, <3>1
  <2> HIDE DEF First
  <2>8. Contains(f[i - 1], bs[i]) => bs[i] \in ToSet(f[i - 1])
    BY <2>5 DEF Contains, ToSet
  <2>9. CASE bs[i] \in seen \/ Contains(f[i - 1], bs[i])
    <3>1. f[i] = f[i - 1]
      BY <2>6, <2>9 DEF Another
    <3>2. First(i) \ seen = First(i - 1) \ seen
      BY <2>5, <2>7, <2>8, <2>9
    <3> QED
      BY <2>2, <2>5, <3>1, <3>2
  <2>10. CASE bs[i] \notin seen /\ ~ Contains(f[i - 1], bs[i])
    <3>1. f[i] = Append(f[i - 1], bs[i])
      BY <2>6, <2>10 DEF Another
    <3>2. Right(i)
      BY <2>5, <2>7, <2>10, <3>1, OneMore
    <3> QED
      BY <2>2, <3>2
  <2> QED
    BY <2>9, <2>10
<1>4. Right(n)
  <2>1. n \in 0 .. n
    BY <1>2
  <2> HIDE DEF Right
  <2> QED
    BY <1>3, <2>1
<1>5. First(n) = ToSet(bs)
  BY DEF ToSet
<1> QED
  BY <1>1, <1>4, <1>5

Types(up, type) == {type} \cup AllBases(up)
Walkers(up, type) == [queue : Seq(Types(up, type)), seen : SUBSET Types(up, type), last : Seq(Types(up, type))]
Start(type) == [queue |-> <<type>>, seen |-> {type}, last |-> <<>>]
Go(up, having, s) == IF s.queue = <<>> \/ ToSet(s.last) \cap having # {} THEN s ELSE VisitBases(up, s)

\* What a visit to the first type of the queue does.
LEMMA AVisit ==
    ASSUME NEW up, IsBases(up), NEW type, NEW s \in Walkers(up, type), s.queue # <<>>
    PROVE  \E new \in Seq(Types(up, type)) :
              /\ VisitBases(up, s) = [queue |-> Tail(s.queue) \o new, seen |-> s.seen \cup ToSet(new), last |-> new]
              /\ ToSet(new) = ToSet(BasesIn(up, Head(s.queue))) \ s.seen
              /\ Once(new)
<1> DEFINE bs == BasesIn(up, Head(s.queue))
           new == Unseen(bs, s.seen)
<1>1. bs \in Seq(AllBases(up))
  BY BasesAreBases
<1>2. new \in Seq(AllBases(up)) /\ ToSet(new) = ToSet(bs) \ s.seen /\ Once(new)
  <2> HIDE DEF bs
  <2> QED
    BY <1>1, UnseenIs
<1>3. new \in Seq(Types(up, type))
  <2> HIDE DEF new
  <2> QED
    BY <1>2 DEF Types
<1>4. VisitBases(up, s) = [queue |-> Tail(s.queue) \o new, seen |-> s.seen \cup ToSet(new), last |-> new]
  BY DEF VisitBases
<1> QED
  BY <1>2, <1>3, <1>4

\* A step of the walk keeps to the types there are.
LEMMA GoStays ==
    ASSUME NEW up, IsBases(up), NEW type, NEW having, NEW s \in Walkers(up, type)
    PROVE  Go(up, having, s) \in Walkers(up, type)
<1>1. CASE s.queue = <<>> \/ ToSet(s.last) \cap having # {}
  BY <1>1 DEF Go
<1>2. CASE s.queue # <<>> /\ ~ (ToSet(s.last) \cap having # {})
  <2>1. PICK new \in Seq(Types(up, type)) :
           /\ VisitBases(up, s) = [queue |-> Tail(s.queue) \o new, seen |-> s.seen \cup ToSet(new), last |-> new]
           /\ ToSet(new) = ToSet(BasesIn(up, Head(s.queue))) \ s.seen
    BY <1>2, AVisit
  <2>2. Tail(s.queue) \o new \in Seq(Types(up, type))
    BY <1>2 DEF Walkers
  <2>3. s.seen \cup ToSet(new) \in SUBSET Types(up, type)
    BY <2>1, BasesAreBases DEF Walkers, Types
  <2> QED
    BY <1>2, <2>1, <2>2, <2>3 DEF Go, Walkers
<1> QED
  BY <1>1, <1>2

Goes(up, type, having, n, w) == /\ w[0] = Start(type)
                                /\ \A k \in 1 .. n : w[k] = Go(up, having, w[k - 1])

\* The walk is defined.
LEMMA WalkGoes ==
    ASSUME NEW up, IsBases(up), NEW type, NEW having
    PROVE  /\ 1 + Cardinality(AllBases(up)) \in Nat
           /\ \E w : /\ Goes(up, type, having, 1 + Cardinality(AllBases(up)), w)
                     /\ UpTheBases(up, type, having) = w[1 + Cardinality(AllBases(up))].last
<1> DEFINE n == 1 + Cardinality(AllBases(up))
           St == Walkers(up, type)
           start == Start(type)
           move == [p \in (1 .. n) \X St |-> Go(up, having, p[2])]
           Body(w) == [k \in 0 .. n |-> IF k = 0 THEN start ELSE Go(up, having, w[k - 1])]
<1>1. n \in Nat
  BY FS_CardinalityType DEF IsBases
<1>2. start \in St /\ \A s \in St : Go(up, having, s) \in St
  <2>1. <<type>> \in Seq(Types(up, type)) /\ {type} \in SUBSET Types(up, type) /\ <<>> \in Seq(Types(up, type))
    BY DEF Types
  <2>2. start \in St
    BY <2>1 DEF Walkers, Start
  <2> QED
    BY <2>2, GoStays
<1>3. move \in [(1 .. n) \X St -> St] /\ \A k \in 1 .. n, s \in St : move[<<k, s>>] = Go(up, having, s)
  BY <1>2
<1> HIDE DEF St, move, n, start
<1>4. PICK f \in [0 .. n -> St] : f[0] = start /\ \A k \in 1 .. n : f[k] = move[<<k, f[k - 1]>>]
  <2>1. Moves(n, St, move)
    BY <1>3 DEF Moves
  <2>2. \E f : Walks(n, St, start, move, f)
    BY <1>1, <1>2, <2>1, Recursion
  <2> QED
    BY <2>2 DEF Walks
<1>5. ASSUME NEW k \in 1 .. n PROVE f[k] = Go(up, having, f[k - 1])
  <2>1. k - 1 \in 0 .. n
    BY <1>1
  <2> QED
    BY <1>3, <1>4, <2>1
<1>6. f = Body(f)
  <2>1. DOMAIN f = 0 .. n /\ DOMAIN Body(f) = 0 .. n
    OBVIOUS
  <2>2. \A k \in 0 .. n : f[k] = Body(f)[k]
    BY <1>1, <1>4, <1>5
  <2> QED
    BY <1>4, <2>1, <2>2
<1>7. \A w : w = Body(w) => Goes(up, type, having, n, w)
  <2> SUFFICES ASSUME NEW w, w = Body(w) PROVE Goes(up, type, having, n, w)
    OBVIOUS
  <2>1. Body(w)[0] = start /\ \A k \in 1 .. n : Body(w)[k] = Go(up, having, w[k - 1])
    BY <1>1
  <2> HIDE DEF Body
  <2>2. w[0] = Body(w)[0] /\ \A k \in 1 .. n : w[k] = Body(w)[k]
    OBVIOUS
  <2> QED
    BY <2>1, <2>2 DEF Goes, start
<1> HIDE DEF Body
<1> DEFINE h == CHOOSE w : w = Body(w)
<1>8. h = Body(h)
  BY <1>6, Zenon
<1>9. UpTheBases(up, type, having) = h[n].last
  BY Zenon DEF UpTheBases, Body, Go, start, Start, n
<1>10. Goes(up, type, having, n, h)
  BY <1>7, <1>8, Zenon
<1> HIDE DEF h
<1> QED
  BY <1>1, <1>9, <1>10 DEF n

\* The d-th level is seen, the queue is of it, in front, and of the next.
Level(up, type, d, s) ==
    /\ Above(up, type, d) \subseteq s.seen /\ ToSet(s.queue) \subseteq Above(up, type, d + 1)
    /\ \A i, j \in DOMAIN s.queue : i <= j /\ s.queue[j] \in Above(up, type, d) => s.queue[i] \in Above(up, type, d)

\* A walk that goes on: what was seen has none of the types looked for, and what was seen
\* and left the queue has its bases seen.
Searching(up, type, having, k, s) ==
    /\ ToSet(s.last) \cap having = {} /\ s.seen \cap having = {}
    /\ type \in s.seen /\ ToSet(s.queue) \subseteq s.seen
    /\ \A t \in s.seen \ ToSet(s.queue) : ToSet(BasesIn(up, t)) \subseteq s.seen
    /\ s.queue = <<>> \/ k + Len(s.queue) = Cardinality(s.seen)
    /\ \E d \in Nat : Level(up, type, d, s)

\* A walk that found one: no level before has any.
Ended(up, type, having, s) ==
    /\ ToSet(s.last) \cap having # {}
    /\ \E d \in Nat : Above(up, type, d) \cap having = {} /\ ToSet(s.last) \subseteq Above(up, type, d + 1)

\* Where the front of the queue is of the level.
LEMMA TheLevel ==
    ASSUME NEW up, IsBases(up), NEW type, NEW having, NEW k \in Nat, NEW s \in Walkers(up, type),
           Searching(up, type, having, k, s), s.queue # <<>>
    PROVE  \E d \in Nat : Level(up, type, d, s) /\ Head(s.queue) \in Above(up, type, d)
<1>1. PICK d \in Nat : Level(up, type, d, s)
  BY DEF Searching
<1>2. s.queue \in Seq(Types(up, type)) /\ DOMAIN s.queue = 1 .. Len(s.queue) /\ 1 \in DOMAIN s.queue
      /\ Head(s.queue) = s.queue[1]
  BY DEF Walkers
<1>3. CASE Head(s.queue) \in Above(up, type, d)
  BY <1>1, <1>3
<1>4. CASE Head(s.queue) \notin Above(up, type, d)
  <2> DEFINE A(e) == Above(up, type, e)
  <2>1. ASSUME NEW t \in A(d) PROVE t \in s.seen \ ToSet(s.queue)
    <3>1. t \in s.seen
      BY <1>1 DEF Level
    <3>2. ASSUME t \in ToSet(s.queue) PROVE FALSE
      <4>1. PICK j \in DOMAIN s.queue : s.queue[j] = t
        BY <3>2 DEF ToSet
      <4>2. 1 <= j
        BY <1>2
      <4>3. s.queue[1] \in A(d)
        BY <1>1, <1>2, <4>1, <4>2 DEF Level
      <4> QED
        BY <1>2, <1>4, <4>3
    <3> QED
      BY <3>1, <3>2
  <2>2. d + 1 \in Nat /\ A(d + 1) = OneUp(up, A(d)) /\ A((d + 1) + 1) = OneUp(up, A(d + 1))
    <3>1. \A e \in Nat : A(e + 1) = OneUp(up, A(e))
      BY AboveIs
    <3>2. d \in Nat /\ d + 1 \in Nat
      OBVIOUS
    <3> HIDE DEF A
    <3> QED
      BY <3>1, <3>2
  <2>3. A(d + 1) \subseteq s.seen
    BY <2>1, <2>2 DEF OneUp, Searching
  <2>4. ToSet(s.queue) \subseteq A(d + 1) /\ A(d + 1) \subseteq A((d + 1) + 1)
    BY <1>1, <2>2 DEF Level, OneUp
  <2>5. \A i \in DOMAIN s.queue : s.queue[i] \in A(d + 1)
    BY <2>4 DEF ToSet
  <2>6. Level(up, type, d + 1, s) /\ Head(s.queue) \in A(d + 1)
    BY <1>2, <2>3, <2>4, <2>5 DEF Level
  <2> QED
    BY <2>2, <2>6
<1> QED
  BY <1>3, <1>4

\* No set of types is larger than all bases and the type itself.
LEMMA TypesAreFinite ==
    ASSUME NEW up, IsBases(up), NEW type, NEW S \in SUBSET Types(up, type)
    PROVE  /\ Cardinality(AllBases(up)) \in Nat /\ IsFiniteSet(S)
           /\ Cardinality(S) \in Nat /\ Cardinality(S) <= 1 + Cardinality(AllBases(up))
<1>1. IsFiniteSet(AllBases(up)) /\ Types(up, type) = AllBases(up) \cup {type}
  BY DEF IsBases, Types
<1>2. Cardinality(AllBases(up)) \in Nat
  BY <1>1, FS_CardinalityType
<1>3. IsFiniteSet(Types(up, type)) /\ Cardinality(Types(up, type)) \in Nat
      /\ Cardinality(Types(up, type)) <= 1 + Cardinality(AllBases(up))
  <2>1. IsFiniteSet(Types(up, type)) /\ (\/ Cardinality(Types(up, type)) = Cardinality(AllBases(up))
                                         \/ Cardinality(Types(up, type)) = Cardinality(AllBases(up)) + 1)
    BY <1>1, FS_AddElement
  <2> QED
    BY <1>2, <2>1
<1>4. IsFiniteSet(S) /\ Cardinality(S) \in Nat /\ Cardinality(S) <= Cardinality(Types(up, type))
  BY <1>3, FS_Subset, FS_CardinalityType
<1> QED
  BY <1>2, <1>3, <1>4

\* The queue after a visit.
LEMMA NewQueue ==
    ASSUME NEW T, NEW q \in Seq(T), q # <<>>, NEW new \in Seq(T)
    PROVE  LET r == Tail(q) \o new
           IN /\ Len(r) = Len(q) - 1 + Len(new) /\ DOMAIN r = 1 .. Len(q) - 1 + Len(new)
              /\ \A i \in DOMAIN r : r[i] = IF i <= Len(q) - 1 THEN q[i + 1] ELSE new[i - (Len(q) - 1)]
              /\ ToSet(r) = ToSet(Tail(q)) \cup ToSet(new)
              /\ ToSet(q) = {Head(q)} \cup ToSet(Tail(q))
<1> DEFINE r == Tail(q) \o new
           m == Len(q) - 1
<1>1. Len(q) \in Nat /\ Len(q) >= 1 /\ Len(new) \in Nat /\ Tail(q) \in Seq(T) /\ Len(Tail(q)) = m
      /\ \A i \in 1 .. m : Tail(q)[i] = q[i + 1]
  OBVIOUS
<1>2. Len(r) = m + Len(new) /\ DOMAIN r = 1 .. m + Len(new) /\ r \in Seq(T)
      /\ \A i \in 1 .. m + Len(new) : r[i] = IF i <= m THEN Tail(q)[i] ELSE new[i - m]
  BY <1>1
<1>3. DOMAIN q = 1 .. m + 1 /\ DOMAIN Tail(q) = 1 .. m /\ DOMAIN new = 1 .. Len(new) /\ Head(q) = q[1] /\ m \in Nat
  BY <1>1
<1> HIDE DEF r, m
<1>4. ToSet(r) = ToSet(Tail(q)) \cup ToSet(new)
  <2>1. ASSUME NEW i \in DOMAIN Tail(q) PROVE i \in DOMAIN r /\ r[i] = Tail(q)[i]
    BY <1>1, <1>2, <1>3
  <2>2. ASSUME NEW i \in DOMAIN new PROVE m + i \in DOMAIN r /\ r[m + i] = new[i]
    BY <1>1, <1>2, <1>3
  <2>3. ASSUME NEW i \in DOMAIN r
        PROVE  (i \in DOMAIN Tail(q) /\ r[i] = Tail(q)[i]) \/ (i - m \in DOMAIN new /\ r[i] = new[i - m])
    BY SMTT(40), <1>1, <1>2, <1>3
  <2> QED
    BY <2>1, <2>2, <2>3 DEF ToSet
<1>5. ToSet(q) = {Head(q)} \cup ToSet(Tail(q))
  <2>1. ASSUME NEW i \in DOMAIN q PROVE q[i] = q[1] \/ (i - 1 \in DOMAIN Tail(q) /\ q[i] = Tail(q)[i - 1])
    BY <1>1, <1>3
  <2>2. ASSUME NEW i \in DOMAIN Tail(q) PROVE i + 1 \in DOMAIN q /\ Tail(q)[i] = q[i + 1]
    BY <1>1, <1>3
  <2>3. 1 \in DOMAIN q
    BY <1>3
  <2> QED
    BY SMTT(40), <1>3, <2>1, <2>2, <2>3 DEF ToSet
<1>6. \A i \in DOMAIN r : r[i] = IF i <= m THEN q[i + 1] ELSE new[i - m]
  BY <1>1, <1>2, <1>3
<1> QED
  BY <1>2, <1>4, <1>5, <1>6 DEF r, m

\* A step of a search goes on with it, or ends it at the nearest types.
LEMMA SearchGoesOn ==
    ASSUME NEW up, IsBases(up), NEW type, NEW having, NEW k \in Nat, NEW s \in Walkers(up, type),
           Searching(up, type, having, k, s)
    PROVE  \/ Searching(up, type, having, k + 1, Go(up, having, s))
           \/ Ended(up, type, having, Go(up, having, s))
<1> DEFINE A(e) == Above(up, type, e)
<1>1. CASE s.queue = <<>>
  <2>1. Go(up, having, s) = s
    BY <1>1 DEF Go
  <2> QED
    BY <1>1, <2>1 DEF Searching
<1>2. CASE s.queue # <<>>
  <2>1. PICK d \in Nat : Level(up, type, d, s) /\ Head(s.queue) \in A(d)
    BY <1>2, TheLevel
  <2>2. PICK new \in Seq(Types(up, type)) :
           /\ VisitBases(up, s) = [queue |-> Tail(s.queue) \o new, seen |-> s.seen \cup ToSet(new), last |-> new]
           /\ ToSet(new) = ToSet(BasesIn(up, Head(s.queue))) \ s.seen
           /\ Once(new)
    BY <1>2, AVisit
  <2> DEFINE r == Tail(s.queue) \o new
             z == Go(up, having, s)
  <2>3. z.queue = r /\ z.seen = s.seen \cup ToSet(new) /\ z.last = new
    BY SMTT(40), <1>2, <2>2 DEF Go, Searching
  <2>4. A(d) \subseteq s.seen /\ ToSet(s.queue) \subseteq A(d + 1) /\ ToSet(new) \subseteq A(d + 1)
        /\ ToSet(new) \cap A(d) = {}
    <3>1. A(d) \subseteq s.seen /\ ToSet(s.queue) \subseteq A(d + 1)
      BY <2>1 DEF Level
    <3>2. A(d + 1) = OneUp(up, A(d))
      <4>1. \A e \in Nat : A(e + 1) = OneUp(up, A(e))
        BY AboveIs
      <4> HIDE DEF A
      <4> QED
        BY <4>1
    <3>3. ToSet(BasesIn(up, Head(s.queue))) \subseteq A(d + 1)
      BY <2>1, <3>2 DEF OneUp
    <3> QED
      BY <2>2, <3>1, <3>3
  <2>5. s.queue \in Seq(Types(up, type)) /\ s.seen \in SUBSET Types(up, type)
    BY DEF Walkers
  <2>6. /\ Len(r) = Len(s.queue) - 1 + Len(new) /\ DOMAIN r = 1 .. Len(s.queue) - 1 + Len(new)
        /\ \A i \in DOMAIN r : r[i] = IF i <= Len(s.queue) - 1 THEN s.queue[i + 1] ELSE new[i - (Len(s.queue) - 1)]
        /\ ToSet(r) = ToSet(Tail(s.queue)) \cup ToSet(new)
        /\ ToSet(s.queue) = {Head(s.queue)} \cup ToSet(Tail(s.queue))
    BY <1>2, <2>5, NewQueue
  <2> HIDE DEF r, z, A
  <2>7. CASE ToSet(new) \cap having # {}
    <3>1. A(d) \cap having = {}
      BY <2>4 DEF Searching
    <3> QED
      BY <2>3, <2>4, <2>7, <3>1 DEF Ended, A, z
  <2>8. CASE ToSet(new) \cap having = {}
    <3>1. z.seen \cap having = {} /\ type \in z.seen /\ ToSet(z.queue) \subseteq z.seen
      BY <2>3, <2>6, <2>8 DEF Searching
    <3>2. ASSUME NEW t \in z.seen \ ToSet(z.queue) PROVE ToSet(BasesIn(up, t)) \subseteq z.seen
      <4>1. t \in s.seen /\ t \notin ToSet(Tail(s.queue))
        BY <2>3, <2>6
      <4>2. CASE t = Head(s.queue)
        BY <2>2, <2>3, <4>2
      <4>3. CASE t # Head(s.queue)
        <5>1. t \in s.seen \ ToSet(s.queue)
          BY <2>6, <4>1, <4>3
        <5> QED
          BY <2>3, <5>1 DEF Searching
      <4> QED
        BY <4>2, <4>3
    <3>3. (k + 1) + Len(z.queue) = Cardinality(z.seen)
      <4>1. IsFiniteSet(s.seen) /\ Cardinality(s.seen) \in Nat
        BY <2>5, TypesAreFinite
      <4>2. IsFiniteSet(ToSet(new)) /\ Cardinality(ToSet(new)) = Len(new) /\ Len(new) \in Nat /\ Len(s.queue) \in Nat
        BY <2>2, <2>5 DEF Once
      <4>3. s.seen \cap ToSet(new) = {}
        BY <2>2
      <4>4. Cardinality(s.seen \cup ToSet(new)) = Cardinality(s.seen) + Cardinality(ToSet(new)) - Cardinality(s.seen \cap ToSet(new))
        BY <4>1, <4>2, FS_Union
      <4>5. Cardinality(s.seen \cap ToSet(new)) = 0
        BY <4>3, FS_EmptySet
      <4>6. k + Len(s.queue) = Cardinality(s.seen)
        BY <1>2 DEF Searching
      <4>7. Cardinality(z.seen) = Cardinality(s.seen) + Len(new)
        BY <2>3, <4>1, <4>2, <4>4, <4>5
      <4>8. Len(z.queue) = Len(s.queue) - 1 + Len(new)
        BY <2>3, <2>6
      <4> DEFINE l == Len(s.queue)
                 m == Len(new)
                 c == Cardinality(s.seen)
      <4>9. l \in Nat /\ m \in Nat /\ c \in Nat /\ k + l = c /\ Len(z.queue) = l - 1 + m /\ Cardinality(z.seen) = c + m
        BY <4>1, <4>2, <4>6, <4>7, <4>8
      <4> HIDE DEF l, m, c
      <4> QED
        BY <4>9
    <3>4. Level(up, type, d, z)
      <4>1. A(d) \subseteq z.seen /\ ToSet(z.queue) \subseteq A(d + 1)
        BY <2>3, <2>4, <2>6
      <4>2. ASSUME NEW i \in DOMAIN r, NEW j \in DOMAIN r, i <= j, r[j] \in A(d) PROVE r[i] \in A(d)
        <5> DEFINE m == Len(s.queue) - 1
        <5>1. m \in Nat /\ Len(new) \in Nat /\ DOMAIN s.queue = 1 .. m + 1 /\ DOMAIN new = 1 .. Len(new)
          BY <1>2, <2>5
        <5>2. DOMAIN r = 1 .. m + Len(new) /\ \A h \in DOMAIN r : r[h] = IF h <= m THEN s.queue[h + 1] ELSE new[h - m]
          BY <2>6
        <5> HIDE DEF m
        <5>3. i \in 1 .. m + Len(new) /\ j \in 1 .. m + Len(new)
          BY <5>2
        <5>4. j <= m
          <6> SUFFICES ASSUME ~ (j <= m) PROVE FALSE
            OBVIOUS
          <6>1. j - m \in 1 .. Len(new)
            BY <5>1, <5>3
          <6>2. r[j] = new[j - m]
            BY <5>2
          <6>3. r[j] \in ToSet(new)
            BY <5>1, <6>1, <6>2 DEF ToSet
          <6> QED
            BY <2>4, <4>2, <6>3
        <5>5. i <= m /\ i + 1 \in 1 .. m + 1 /\ j + 1 \in 1 .. m + 1 /\ i + 1 <= j + 1
          BY <4>2, <5>1, <5>3, <5>4
        <5>6. r[i] = s.queue[i + 1] /\ r[j] = s.queue[j + 1]
          BY <5>2, <5>4, <5>5
        <5>7. \A a, b \in DOMAIN s.queue : a <= b /\ s.queue[b] \in A(d) => s.queue[a] \in A(d)
          BY <2>1 DEF Level, A
        <5> QED
          BY <4>2, <5>1, <5>5, <5>6, <5>7
      <4> QED
        BY <2>3, <4>1, <4>2 DEF Level, A
    <3>5. ToSet(z.last) \cap having = {}
      BY <2>3, <2>8
    <3>6. Searching(up, type, having, k + 1, z)
      BY <3>1, <3>2, <3>3, <3>4, <3>5 DEF Searching
    <3> QED
      BY <3>6 DEF z
  <2> QED
    BY <2>7, <2>8
<1> QED
  BY <1>1, <1>2

\* A search for what the type itself does not have starts well.
LEMMA SearchStarts ==
    ASSUME NEW up, IsBases(up), NEW type, NEW having, type \notin having
    PROVE  Searching(up, type, having, 0, Start(type)) /\ Start(type) \in Walkers(up, type)
<1> DEFINE s == Start(type)
<1>1. s.queue = <<type>> /\ s.seen = {type} /\ s.last = <<>>
  BY DEF Start
<1>2. ToSet(s.queue) = {type} /\ ToSet(s.last) = {} /\ Len(s.queue) = 1 /\ Cardinality(s.seen) = 1
  <2>1. Cardinality({type}) = 1
    BY FS_Singleton
  <2>2. ToSet(<<type>>) = {type} /\ ToSet(<<>>) = {} /\ Len(<<type>>) = 1
    BY DEF ToSet
  <2> QED
    BY <1>1, <2>1, <2>2
<1>3. s \in Walkers(up, type)
  <2>1. <<type>> \in Seq(Types(up, type)) /\ {type} \in SUBSET Types(up, type) /\ <<>> \in Seq(Types(up, type))
    BY DEF Types
  <2> QED
    BY <2>1 DEF Walkers, Start
<1>4. Above(up, type, 0) = {type} /\ Above(up, type, 0 + 1) = OneUp(up, {type})
  BY AboveIs
<1>5. Level(up, type, 0, s)
  <2>1. Above(up, type, 0) \subseteq s.seen /\ ToSet(s.queue) \subseteq Above(up, type, 0 + 1)
    BY <1>1, <1>2, <1>4 DEF OneUp
  <2>2. \A i \in DOMAIN s.queue : s.queue[i] \in Above(up, type, 0)
    BY <1>2, <1>4 DEF ToSet
  <2> HIDE DEF s
  <2> QED
    BY <2>1, <2>2 DEF Level
<1> HIDE DEF s
<1> QED
  BY <1>1, <1>2, <1>3, <1>5 DEF Searching, s

\* A walk is a search that goes on, or has ended.
LEMMA AWalkSearches ==
    ASSUME NEW up, IsBases(up), NEW type, NEW having, type \notin having, NEW n \in Nat,
           NEW w, Goes(up, type, having, n, w)
    PROVE  w[n] \in Walkers(up, type) /\ (Searching(up, type, having, n, w[n]) \/ Ended(up, type, having, w[n]))
<1> DEFINE Right(k) == w[k] \in Walkers(up, type)
                       /\ (Searching(up, type, having, k, w[k]) \/ Ended(up, type, having, w[k]))
           T == {k \in 0 .. n : ~ Right(k)}
<1>1. T = {}
  <2> SUFFICES ASSUME T # {} PROVE FALSE
    OBVIOUS
  <2>1. PICK k \in T : \A h \in T : k <= h
    <3>1. T \in SUBSET Nat
      OBVIOUS
    <3> HIDE DEF T
    <3> QED
      BY <3>1, LeastNumber
  <2>2. k \in 0 .. n /\ ~ Right(k)
    OBVIOUS
  <2>3. k # 0
    BY <2>2, SearchStarts DEF Goes
  <2>4. k - 1 \in 0 .. n /\ k \in 1 .. n /\ k - 1 \notin T /\ k - 1 \in Nat /\ (k - 1) + 1 = k
    <3>1. k - 1 \in 0 .. n /\ k \in 1 .. n /\ k - 1 \in Nat /\ (k - 1) + 1 = k
      BY <2>2, <2>3
    <3>2. k - 1 \notin T
      <4> HIDE DEF T
      <4>1. k \in Nat /\ ~ (k <= k - 1)
        BY <2>2
      <4> QED
        BY <2>1, <4>1
    <3> QED
      BY <3>1, <3>2
  <2>5. Right(k - 1)
    BY <2>4
  <2>6. w[k] = Go(up, having, w[k - 1])
    BY <2>4 DEF Goes
  <2>7. w[k] \in Walkers(up, type)
    BY <2>5, <2>6, GoStays
  <2>8. CASE Searching(up, type, having, k - 1, w[k - 1])
    <3>1. \/ Searching(up, type, having, (k - 1) + 1, w[k])
          \/ Ended(up, type, having, w[k])
      BY <2>4, <2>5, <2>6, <2>8, SearchGoesOn
    <3> QED
      BY <2>2, <2>4, <2>7, <3>1
  <2>9. CASE Ended(up, type, having, w[k - 1])
    <3>1. w[k] = w[k - 1]
      BY <2>6, <2>9 DEF Go, Ended
    <3> QED
      BY <2>2, <2>7, <2>9, <3>1
  <2> QED
    BY <2>5, <2>8, <2>9
<1>2. n \in 0 .. n
  OBVIOUS
<1> HIDE DEF Right
<1>3. Right(n)
  BY <1>1, <1>2
<1> QED
  BY <1>3 DEF Right

\* The search stops at the nearest types there are, and finds some if there are any.
LEMMA UpTheBasesIs ==
    ASSUME NEW up, IsBases(up), NEW type, NEW having, type \notin having
    PROVE  LET last == ToSet(UpTheBases(up, type, having))
           IN /\ last \subseteq Types(up, type)
              /\ last \cap having # {} =>
                    \E d \in Nat : /\ d + 1 <= Cardinality(AllBases(up)) /\ last \subseteq Above(up, type, d + 1)
                                   /\ Above(up, type, d) \cap having = {}
              /\ (\E k \in Nat : Above(up, type, k) \cap having # {}) => last \cap having # {}
<1> DEFINE n == 1 + Cardinality(AllBases(up))
           last == ToSet(UpTheBases(up, type, having))
<1>1. n \in Nat /\ \E w : Goes(up, type, having, n, w) /\ UpTheBases(up, type, having) = w[n].last
  BY WalkGoes
<1>2. PICK w : Goes(up, type, having, n, w) /\ UpTheBases(up, type, having) = w[n].last
  BY <1>1
<1> HIDE DEF n
<1>3. w[n] \in Walkers(up, type) /\ (Searching(up, type, having, n, w[n]) \/ Ended(up, type, having, w[n]))
  BY <1>1, <1>2, AWalkSearches
<1>4. last \subseteq Types(up, type)
  BY <1>2, <1>3 DEF Walkers, ToSet
<1>5. CASE Searching(up, type, having, n, w[n])
  <2>1. w[n].queue = <<>>
    <3>1. w[n].seen \in SUBSET Types(up, type) /\ w[n].queue \in Seq(Types(up, type))
      BY <1>3 DEF Walkers
    <3>2. Cardinality(w[n].seen) \in Nat /\ Cardinality(w[n].seen) <= n
      BY <3>1, TypesAreFinite DEF n
    <3>3. ASSUME w[n].queue # <<>> PROVE FALSE
      <4>1. n + Len(w[n].queue) = Cardinality(w[n].seen)
        BY <1>5, <3>3 DEF Searching
      <4>2. Len(w[n].queue) \in Nat /\ Len(w[n].queue) >= 1
        BY <3>1, <3>3
      <4> QED
        BY <1>1, <3>2, <4>1, <4>2
    <3> QED
      BY <3>3
  <2>2. ToSet(w[n].queue) = {}
    BY <2>1 DEF ToSet
  <2>3. type \in w[n].seen /\ \A t \in w[n].seen : ToSet(BasesIn(up, t)) \subseteq w[n].seen
    BY <1>5, <2>2 DEF Searching
  <2>4. \A k \in Nat : Above(up, type, k) \subseteq w[n].seen
    <3> DEFINE T == {k \in Nat : ~ (Above(up, type, k) \subseteq w[n].seen)}
    <3> SUFFICES ASSUME T # {} PROVE FALSE
      OBVIOUS
    <3>1. PICK k \in T : \A h \in T : k <= h
      <4>1. T \in SUBSET Nat
        OBVIOUS
      <4> HIDE DEF T
      <4> QED
        BY <4>1, LeastNumber
    <3>2. k \in Nat /\ ~ (Above(up, type, k) \subseteq w[n].seen)
      OBVIOUS
    <3>3. k # 0
      <4>1. Above(up, type, 0) = {type}
        BY AboveIs
      <4> QED
        BY <2>3, <3>2, <4>1
    <3>4. k - 1 \in Nat /\ (k - 1) + 1 = k
      BY <3>2, <3>3
    <3>5. k - 1 \notin T
      <4> HIDE DEF T
      <4>1. k \in Nat /\ ~ (k <= k - 1)
        BY <3>2
      <4> QED
        BY <3>1, <4>1
    <3>6. Above(up, type, k - 1) \subseteq w[n].seen
      BY <3>4, <3>5
    <3>7. Above(up, type, (k - 1) + 1) = OneUp(up, Above(up, type, k - 1))
      <4>1. \A e \in Nat : Above(up, type, e + 1) = OneUp(up, Above(up, type, e))
        BY AboveIs
      <4> DEFINE j == k - 1
      <4>2. j \in Nat
        BY <3>4
      <4> HIDE DEF j
      <4>3. Above(up, type, j + 1) = OneUp(up, Above(up, type, j))
        BY <4>1, <4>2
      <4> QED
        BY <4>3 DEF j
    <3>8. OneUp(up, Above(up, type, k - 1)) \subseteq w[n].seen
      BY <2>3, <3>6 DEF OneUp
    <3> QED
      BY <3>2, <3>4, <3>7, <3>8
  <2>5. \A k \in Nat : Above(up, type, k) \cap having = {}
    BY <1>5, <2>4 DEF Searching
  <2>6. last \cap having = {}
    BY <1>2, <1>5 DEF Searching
  <2> QED
    BY <1>4, <2>5, <2>6
<1>6. CASE Ended(up, type, having, w[n])
  <2>1. last \cap having # {}
    BY <1>2, <1>6 DEF Ended
  <2>2. PICK d \in Nat : Above(up, type, d) \cap having = {} /\ last \subseteq Above(up, type, d + 1)
    BY <1>2, <1>6 DEF Ended
  <2>3. Above(up, type, d) # Above(up, type, d + 1)
    BY <2>1, <2>2
  <2>4. d + 1 <= Cardinality(AllBases(up))
    BY <2>3, AboveIsLarge
  <2> QED
    BY <1>4, <2>1, <2>2, <2>4
<1> QED
  BY <1>3, <1>5, <1>6

-----------------------------------------------------------------------------
(* The bases that the files of a family tell (TypeBases).                  *)

\* A run reads the files of a repository in some order.
Reads == Sound(repo) /\ \E n \in Nat : files \in [1 .. n -> repo] /\ \A f \in repo : \E i \in DOMAIN files : files[i] = f

\* The bases that the files of a family give its types are lists of types, finitely many.
LEMMA TypeBasesAreBases ==
    ASSUME Reads, NEW fam
    PROVE  IsBases(TypeBases(fam))
<1> DEFINE up == TypeBases(fam)
           lists(type) == [j \in DOMAIN files |-> IF j \in InFamily(fam) THEN BasesIn(files[j].bases, type) ELSE <<>>]
           U == UNION {DOMAIN f.bases : f \in FilesOf(fam)}
<1>1. PICK n \in Nat : files \in [1 .. n -> repo]
  BY DEF Reads
<1>2. FilesOf(fam) \subseteq repo /\ IsFiniteSet(FilesOf(fam))
  <2>1. FilesOf(fam) \subseteq repo
    BY <1>1 DEF FilesOf, InFamily
  <2> QED
    BY <2>1, FS_Subset DEF Reads, Sound
<1>3. IsFiniteSet(U)
  <2> DEFINE doms == [f \in FilesOf(fam) |-> DOMAIN f.bases]
  <2>1. IsFiniteSet({doms[f] : f \in FilesOf(fam)})
    <3>1. DOMAIN doms = FilesOf(fam) /\ doms = [f \in FilesOf(fam) |-> doms[f]]
      OBVIOUS
    <3> HIDE DEF doms
    <3> QED
      BY <1>2, <3>1, ImagesAreFinite
  <2>2. {doms[f] : f \in FilesOf(fam)} = {DOMAIN f.bases : f \in FilesOf(fam)}
    OBVIOUS
  <2>3. \A D1 \in {DOMAIN f.bases : f \in FilesOf(fam)} : IsFiniteSet(D1)
    BY <1>2 DEF Reads, Sound
  <2> QED
    BY <2>1, <2>2, <2>3, FS_UNION
<1>4. ASSUME NEW type
      PROVE  \E B : lists(type) \in [1 .. n -> Seq(B)]
  <2> DEFINE B == UNION {ToSet(BasesIn(files[j].bases, type)) : j \in DOMAIN files}
  <2>1. ASSUME NEW j \in 1 .. n PROVE lists(type)[j] \in Seq(B)
    <3>1. BasesIn(files[j].bases, type) \in Seq(ToSet(BasesIn(files[j].bases, type)))
      <4>1. files[j] \in repo
        BY <1>1
      <4>2. \A t \in DOMAIN files[j].bases : files[j].bases[t] \in Seq(ToSet(files[j].bases[t]))
        BY <4>1 DEF Reads, Sound
      <4>3. <<>> \in Seq(ToSet(<<>>))
        OBVIOUS
      <4> QED
        BY <4>2, <4>3 DEF BasesIn
    <3>2. ToSet(BasesIn(files[j].bases, type)) \subseteq B
      BY <1>1
    <3> HIDE DEF B
    <3>3. BasesIn(files[j].bases, type) \in Seq(B)
      BY <3>1, <3>2
    <3>4. lists(type)[j] = BasesIn(files[j].bases, type) \/ lists(type)[j] = <<>>
      BY <1>1
    <3>5. <<>> \in Seq(B)
      OBVIOUS
    <3> QED
      BY <3>3, <3>4, <3>5
  <2>2. lists(type) = [j \in 1 .. n |-> lists(type)[j]]
    BY <1>1
  <2> HIDE DEF lists, B
  <2>3. lists(type) \in [1 .. n -> Seq(B)]
    BY <2>1, <2>2
  <2> QED
    BY <2>3
<1>5. up = [type \in U |-> FlattenSeq(lists(type))]
  BY DEF TypeBases
<1> HIDE DEF lists, U
<1>6. ASSUME NEW t \in U PROVE up[t] \in Seq(ToSet(up[t])) /\ IsFiniteSet(ToSet(up[t]))
  <2>1. PICK B : lists(t) \in [1 .. n -> Seq(B)]
    BY <1>4
  <2>2. FlattenSeq(lists(t)) \in Seq(B)
    BY <2>1, FlattenIs
  <2>3. up[t] \in Seq(B)
    BY <1>5, <2>2
  <2> QED
    BY <2>3, RangesAreFinite
<1>7. DOMAIN up = U /\ up = [t \in U |-> up[t]]
  BY <1>5
<1> HIDE DEF up
<1>8. ASSUME NEW t \in U PROVE up[t] \in Seq(AllBases(up))
  <2>1. ToSet(up[t]) \subseteq AllBases(up)
    BY <1>7 DEF AllBases
  <2> QED
    BY <1>6, <2>1
<1>9. up \in [DOMAIN up -> Seq(AllBases(up))]
  BY <1>7, <1>8
<1>10. IsFiniteSet(AllBases(up))
  <2> DEFINE sets == [t \in U |-> ToSet(up[t])]
  <2>1. IsFiniteSet({sets[t] : t \in U})
    <3>1. DOMAIN sets = U /\ sets = [t \in U |-> sets[t]]
      OBVIOUS
    <3> HIDE DEF sets
    <3> QED
      BY <1>3, <3>1, ImagesAreFinite
  <2>2. {sets[t] : t \in U} = {ToSet(up[t]) : t \in DOMAIN up}
    BY <1>7
  <2>3. \A S \in {ToSet(up[t]) : t \in DOMAIN up} : IsFiniteSet(S)
    BY <1>6, <1>7
  <2> QED
    BY <2>1, <2>2, <2>3, FS_UNION DEF AllBases
<1> QED
  BY <1>9, <1>10 DEF IsBases, up

-----------------------------------------------------------------------------
(* The method found for a type (MethodInHierarchy).                        *)

\* Of places, if there are any, one is the last.
LEMMA SomeIsLast ==
    ASSUME Reads, NEW S \in SUBSET Places, S # {}
    PROVE  LastOf(S) # {} /\ LastOf(S) \subseteq S
<1>1. PICK n \in Nat : files \in [1 .. n -> repo]
  BY DEF Reads
<1>2. \A p \in S : /\ p = <<p[1], p[2]>> /\ p[1] \in 1 .. n
                   /\ Len(files[p[1]].nodes) \in Nat /\ p[2] \in 1 .. Len(files[p[1]].nodes)
  <2> SUFFICES ASSUME NEW p \in S
               PROVE  /\ p = <<p[1], p[2]>> /\ p[1] \in 1 .. n
                      /\ Len(files[p[1]].nodes) \in Nat /\ p[2] \in 1 .. Len(files[p[1]].nodes)
    OBVIOUS
  <2>1. p = <<p[1], p[2]>> /\ p[1] \in 1 .. n /\ p[2] \in DOMAIN files[p[1]].nodes
    BY <1>1 DEF Places
  <2>2. files[p[1]] \in repo
    BY <1>1, <2>1
  <2>3. files[p[1]].nodes \in Seq(ToSet(files[p[1]].nodes))
    BY <2>2 DEF Reads, Sound
  <2>4. Len(files[p[1]].nodes) \in Nat /\ DOMAIN files[p[1]].nodes = 1 .. Len(files[p[1]].nodes)
    BY <2>3
  <2> QED
    BY <2>1, <2>4
<1> DEFINE I == {p[1] : p \in S}
<1>3. PICK i \in I : \A h \in I : h <= i
  <2>1. I \in SUBSET (0 .. n) /\ I # {}
    BY <1>2
  <2> HIDE DEF I
  <2> QED
    BY <2>1, GreatestNumber
<1>4. \A p \in S : p[1] \in I
  OBVIOUS
<1> DEFINE J == {p[2] : p \in {x \in S : x[1] = i}}
           l == Len(files[i].nodes)
<1>5. J # {} /\ J \in SUBSET (0 .. l) /\ l \in Nat /\ i \in Nat
  <2>1. PICK p \in S : p[1] = i
    OBVIOUS
  <2>2. p[2] \in J
    BY <2>1
  <2>3. \A j \in J : j \in 0 .. l
    BY <1>2
  <2>4. l \in Nat /\ i \in Nat
    BY <1>2, <2>1
  <2> QED
    BY <2>2, <2>3, <2>4
<1>6. PICK j \in J : \A h \in J : h <= j
  <2> HIDE DEF J, l
  <2> QED
    BY <1>5, GreatestNumber
<1>7. \A p \in S : p[1] = i => p[2] \in J
  OBVIOUS
<1>8. PICK p \in S : p[1] = i /\ p[2] = j
  OBVIOUS
<1> HIDE DEF I, J, l
<1>9. ASSUME NEW q \in S \ {p} PROVE Before(q, p)
  <2>1. q = <<q[1], q[2]>> /\ p = <<i, j>> /\ q # p /\ q[1] \in Nat /\ q[2] \in Nat /\ i \in Nat /\ j \in Nat
    BY <1>2, <1>8
  <2>2. q[1] <= i
    BY <1>3, <1>4
  <2>3. CASE q[1] = i
    <3>1. q[2] <= j /\ q[2] # j
      BY <1>6, <1>7, <2>1, <2>3
    <3> QED
      BY <1>8, <2>1, <2>3, <3>1 DEF Before
  <2>4. CASE q[1] # i
    BY <1>8, <2>1, <2>2, <2>4 DEF Before
  <2> QED
    BY <2>3, <2>4
<1>10. p \in LastOf(S)
  BY <1>9 DEF LastOf
<1> QED
  BY <1>10 DEF LastOf

\* The declarations of method m of a type.
Declared(fam, type, m) ==
    {p \in PlacesOf(fam) : /\ D(p).kind = "method" /\ Len(D(p).id.q) >= 2
                           /\ Head(D(p).id.q) = type /\ Tail(D(p).id.q) = m}

\* A method is found for a type just if the type declares it.
LEMMA MethodIs ==
    ASSUME Reads, NEW fam, NEW type, NEW m
    PROVE  Method(fam, type, m) # {} <=> Declared(fam, type, m) # {}
<1> DEFINE S == Declared(fam, type, m)
<1>1. Method(fam, type, m) = LastOf(S)
  BY DEF Method, Declared
<1>2. S \in SUBSET Places
  BY DEF Declared, PlacesOf
<1> HIDE DEF S
<1>3. S # {} => LastOf(S) # {}
  BY <1>2, SomeIsLast
<1>4. LastOf(S) \subseteq S
  BY DEF LastOf
<1> QED
  BY <1>1, <1>3, <1>4 DEF S

\* The levels above a type that declare a method.
LevelsWith(fam, type, m) ==
    {k \in 0 .. Cardinality(AllBases(TypeBases(fam))) :
       \E t \in Above(TypeBases(fam), type, k) : Method(fam, t, m) # {}}

\* The least number of a set is its minimum.
LEMMA LeastIsMin ==
    ASSUME NEW S \in SUBSET Nat, NEW k \in S, \A l \in S : k <= l
    PROVE  Min(S) = k
<1>1. \A x \in S : (\A l \in S : x <= l) => x = k
  BY SMT
<1> QED
  BY <1>1, Zenon DEF Min

\* The method found for a type is one of the nearest declarations, and one is found if the
\* type or any above it declares it.
LEMMA HierarchyIsNearest ==
    ASSUME Reads, NEW fam, NEW type, NEW m
    PROVE  /\ MethodInHierarchy(fam, type, m) \subseteq NearestTo(fam, type, m)
           /\ MethodInHierarchy(fam, type, m) # {} <=> LevelsWith(fam, type, m) # {}
           /\ NearestTo(fam, type, m) # {} => MethodInHierarchy(fam, type, m) # {}
<1> DEFINE up == TypeBases(fam)
           c == Cardinality(AllBases(up))
           M(t) == Method(fam, t, m)
           A(k) == Above(up, type, k)
           declared(k) == UNION {M(t) : t \in A(k)}
           at == {k \in 0 .. c : declared(k) # {}}
           having == {b \in AllBases(up) : M(b) # {}}
           last == ToSet(UpTheBases(up, type, having))
           found == MethodInHierarchy(fam, type, m)
<1>1. IsBases(up)
  BY TypeBasesAreBases
<1>2. c \in Nat
  BY <1>1, FS_CardinalityType DEF IsBases
<1>3. NearestTo(fam, type, m) = IF at = {} THEN {} ELSE declared(Min(at))
  BY Zenon DEF NearestTo
<1>4. found = IF M(type) # {} THEN M(type) ELSE UNION {M(t) : t \in last}
  BY Zenon DEF MethodInHierarchy
<1>5. at = LevelsWith(fam, type, m)
  BY DEF LevelsWith
<1>6. A(0) = {type} /\ \A k \in Nat : A(k) \subseteq {type} \cup AllBases(up)
  BY <1>1, AboveIs, AboveAreBases
<1>7. CASE M(type) # {}
  <2>1. declared(0) = M(type)
    BY <1>6
  <2>2. 0 \in at /\ at \in SUBSET Nat /\ \A l \in at : 0 <= l
    BY <1>2, <1>7, <2>1
  <2> HIDE DEF at
  <2>3. Min(at) = 0
    BY <2>2, LeastIsMin
  <2> QED
    BY <1>3, <1>4, <1>5, <1>7, <2>1, <2>2, <2>3
<1>8. CASE M(type) = {}
  <2>1. type \notin having
    BY <1>8
  <2>2. /\ last \subseteq Types(up, type)
        /\ last \cap having # {} =>
              \E d \in Nat : /\ d + 1 <= c /\ last \subseteq A(d + 1)
                             /\ A(d) \cap having = {}
        /\ (\E k \in Nat : A(k) \cap having # {}) => last \cap having # {}
    <3> HIDE DEF having, up
    <3> QED
      BY <1>1, <2>1, UpTheBasesIs
  <2>3. \A k \in Nat : declared(k) # {} <=> A(k) \cap having # {}
    BY <1>6, <1>8
  <2>4. last \cap having # {} <=> found # {}
    BY ZenonT(40), <1>4, <1>8, <2>2 DEF Types
  <2> HIDE DEF having
  <2>5. CASE at = {}
    <3>1. last \cap having = {}
      <4> SUFFICES ASSUME last \cap having # {} PROVE FALSE
        OBVIOUS
      <4>1. PICK d \in Nat : d + 1 <= c /\ last \subseteq A(d + 1)
        BY <2>2
      <4>2. d + 1 \in Nat /\ d + 1 \in 0 .. c
        BY <1>2, <4>1
      <4>3. A(d + 1) \cap having # {}
        BY <4>1
      <4>4. declared(d + 1) # {}
        BY <2>3, <4>2, <4>3
      <4> QED
        BY <2>5, <4>2, <4>4
    <3> QED
      BY <1>3, <1>5, <2>4, <2>5, <3>1
  <2>6. CASE at # {}
    <3>1. last \cap having # {}
      <4>1. PICK k \in 0 .. c : declared(k) # {}
        BY <2>6
      <4>2. k \in Nat
        OBVIOUS
      <4>3. A(k) \cap having # {}
        BY <2>3, <4>1, <4>2
      <4> QED
        BY <2>2, <4>2, <4>3
    <3>2. PICK d \in Nat : d + 1 <= c /\ last \subseteq A(d + 1) /\ A(d) \cap having = {}
      BY <2>2, <3>1
    <3> DEFINE e == d + 1
    <3>3. e \in Nat /\ e \in 0 .. c /\ d \in Nat
      BY <1>2, <3>2
    <3>4. declared(e) # {}
      <4>1. A(e) \cap having # {}
        BY <3>1, <3>2
      <4> HIDE DEF e, declared, A
      <4> QED
        BY <2>3, <3>3, <4>1
    <3>5. ASSUME NEW l \in at PROVE e <= l
      <4>1. l \in 0 .. c /\ declared(l) # {} /\ l \in Nat
        BY <1>2
      <4>2. A(l) \cap having # {}
        BY <2>3, <4>1
      <4>3. ~ (l \in 0 .. d)
        <5> SUFFICES ASSUME l \in 0 .. d PROVE FALSE
          OBVIOUS
        <5>1. A(l) \subseteq A(d)
          BY <1>1, <3>3, AboveGrows
        <5> QED
          BY <3>2, <4>2, <5>1
      <4> QED
        BY <3>3, <4>1, <4>3
    <3>6. at \in SUBSET Nat /\ e \in at
      BY <1>2, <3>3, <3>4
    <3> HIDE DEF at, e
    <3>7. Min(at) = e
      BY <3>5, <3>6, LeastIsMin
    <3>8. found \subseteq declared(e)
      BY <1>4, <1>8, <3>2 DEF e
    <3> HIDE DEF found, declared
    <3>9. NearestTo(fam, type, m) = declared(e)
      BY <1>3, <2>6, <3>7
    <3>10. found # {} /\ LevelsWith(fam, type, m) # {}
      BY <1>5, <2>4, <2>6, <3>1
    <3> QED
      BY <3>8, <3>9, <3>10 DEF found
  <2> QED
    BY <2>5, <2>6
<1> QED
  BY <1>7, <1>8

-----------------------------------------------------------------------------
(* What a run does not change.                                             *)

\* What the rules find stays as it is while the files and the choice of modules do.
SameIndex == files' = files /\ pick' = pick

\* The declarations, families and bases.
LEMMA PlacesStay ==
    ASSUME SameIndex
    PROVE  /\ Places' = Places
           /\ \A p : D(p)' = D(p) /\ Node(p)' = Node(p)
           /\ \A fam : /\ PlacesOf(fam)' = PlacesOf(fam) /\ InFamily(fam)' = InFamily(fam)
                       /\ FilesOf(fam)' = FilesOf(fam) /\ TypeBases(fam)' = TypeBases(fam)
           /\ \A path : File(path)' = File(path) /\ FamilyOf(path)' = FamilyOf(path)
<1>1. Places' = Places
  BY DEF SameIndex, Places
<1>2. \A p : D(p)' = D(p) /\ Node(p)' = Node(p)
  BY DEF SameIndex, D, Node
<1>3. ASSUME NEW fam PROVE PlacesOf(fam)' = PlacesOf(fam)
  BY DEF SameIndex, PlacesOf, Places
<1>4. ASSUME NEW fam PROVE InFamily(fam)' = InFamily(fam)
  BY DEF SameIndex, InFamily
<1>5. ASSUME NEW fam PROVE FilesOf(fam)' = FilesOf(fam)
  BY <1>4 DEF SameIndex, FilesOf
<1>6. ASSUME NEW fam PROVE TypeBases(fam)' = TypeBases(fam)
  BY <1>4, <1>5 DEF SameIndex, TypeBases
<1>7. ASSUME NEW path PROVE File(path)' = File(path)
  BY DEF SameIndex, File
<1>8. ASSUME NEW path PROVE FamilyOf(path)' = FamilyOf(path)
  BY <1>7 DEF FamilyOf
<1> QED
  BY <1>1, <1>2, <1>3, <1>4, <1>5, <1>6, <1>7, <1>8

\* The declarations of a name.
LEMMA NamesStay ==
    ASSUME SameIndex
    PROVE  /\ \A path, name : InFile(path, name)' = InFile(path, name)
           /\ \A fam, name : ByName(fam, name)' = ByName(fam, name)
           /\ \A fam, name : MethodsNamed(fam, name)' = MethodsNamed(fam, name)
<1>1. ASSUME NEW path, NEW name PROVE InFile(path, name)' = InFile(path, name)
  BY DEF SameIndex, InFile, LastOf, Places, D, Before
<1>2. ASSUME NEW fam, NEW name PROVE ByName(fam, name)' = ByName(fam, name)
  BY DEF SameIndex, ByName, PlacesOf, Places, D
<1>3. ASSUME NEW fam, NEW name PROVE MethodsNamed(fam, name)' = MethodsNamed(fam, name)
  BY <1>2 DEF SameIndex, MethodsNamed, D
<1> QED
  BY <1>1, <1>2, <1>3

\* The files an import is taken to.
LEMMA TargetsStay ==
    ASSUME SameIndex, NEW path, NEW i
    PROVE  Targets(path, i)' = Targets(path, i)
<1>1. \A fam : Modules(fam)' = Modules(fam)
  BY PlacesStay DEF Modules
<1>2. \A imp : Known(path, imp)' = Known(path, imp)
  BY <1>1, PlacesStay DEF Known
<1>3. \A fam, module : ByModule(fam, module)' = ByModule(fam, module)
  BY PlacesStay DEF ByModule, SameIndex
<1> QED
  BY <1>2, <1>3, PlacesStay DEF Targets, SameIndex

\* What imports and aliases bind.
LEMMA ImportsStay ==
    ASSUME SameIndex
    PROVE  /\ \A path, name : Bound(path, name)' = Bound(path, name)
           /\ \A path, recv, name : ByAlias(path, recv, name)' = ByAlias(path, recv, name)
<1> USE DEF SameIndex
<1>4. /\ \A path : File(path)' = File(path)
      /\ \A p : D(p)' = D(p)
      /\ \A path, name : InFile(path, name)' = InFile(path, name)
      /\ \A path, i : Targets(path, i)' = Targets(path, i)
  BY PlacesStay, NamesStay, TargetsStay
<1>1. ASSUME NEW path, NEW i, NEW name PROVE Binds(path, i, name)' = Binds(path, i, name)
  <2> DEFINE imp == File(path).imports[i]
             found == {j \in Targets(path, i) :
                         /\ InFile(files[j].path, name) # {}
                         /\ imp.wildcard => \A p \in InFile(files[j].path, name) : D(p).exported}
  <2>1. imp' = imp
    BY <1>4
  <2>2. found' = found
    BY <1>4
  <2>3. (UNION {InFile(files[j].path, name) : j \in Latest(found)})' = UNION {InFile(files[j].path, name) : j \in Latest(found)}
    <3> HIDE DEF found
    <3> QED
      BY <1>4, <2>2 DEF Latest
  <2>4. (UNION {InFile(files[j].path, name) : j \in Earliest(found)})' = UNION {InFile(files[j].path, name) : j \in Earliest(found)}
    <3> HIDE DEF found
    <3> QED
      BY <1>4, <2>2 DEF Earliest
  <2>5. Binds(path, i, name) = IF imp.wildcard THEN UNION {InFile(files[j].path, name) : j \in Latest(found)}
                               ELSE IF name \in imp.names THEN UNION {InFile(files[j].path, name) : j \in Earliest(found)}
                               ELSE {}
    BY Zenon DEF Binds
  <2>6. (Binds(path, i, name) = IF imp.wildcard THEN UNION {InFile(files[j].path, name) : j \in Latest(found)}
                                ELSE IF name \in imp.names THEN UNION {InFile(files[j].path, name) : j \in Earliest(found)}
                                ELSE {})'
    BY Zenon DEF Binds
  <2> HIDE DEF imp, found
  <2> QED
    BY <2>1, <2>3, <2>4, <2>5, <2>6
<1>2. ASSUME NEW path, NEW name PROVE Bound(path, name)' = Bound(path, name)
  BY <1>1, PlacesStay DEF Bound, Latest
<1>3. ASSUME NEW path, NEW recv, NEW name PROVE ByAlias(path, recv, name)' = ByAlias(path, recv, name)
  <2> DEFINE imps == File(path).imports
             having == {i \in DOMAIN imps : ~ imps[i].wildcard /\ AliasOf(imps[i]) = recv /\ Targets(path, i) # {}}
             first(i) == UNION {InFile(files[j].path, name) : j \in Earliest(Targets(path, i))}
  <2>1. having' = having
    BY <1>4 DEF AliasOf
  <2>2. \A i : first(i)' = first(i)
    BY <1>4 DEF Earliest
  <2>3. ByAlias(path, recv, name) = UNION {first(i) : i \in Latest(having)}
    BY Zenon DEF ByAlias
  <2>4. (ByAlias(path, recv, name) = UNION {first(i) : i \in Latest(having)})'
    BY Zenon DEF ByAlias
  <2> HIDE DEF having, first
  <2>5. Latest(having)' = Latest(having)
    BY <2>1 DEF Latest
  <2> QED
    BY <2>2, <2>3, <2>4, <2>5
<1> QED
  BY <1>2, <1>3

\* The methods of types.
LEMMA MethodsStay ==
    ASSUME SameIndex
    PROVE  /\ \A fam, type, m : Method(fam, type, m)' = Method(fam, type, m)
           /\ \A fam, type, m : MethodInHierarchy(fam, type, m)' = MethodInHierarchy(fam, type, m)
           /\ \A fam, type, m : NearestTo(fam, type, m)' = NearestTo(fam, type, m)
           /\ \A fam, type : HasMethods(fam, type)' = HasMethods(fam, type)
<1>1. ASSUME NEW fam, NEW type, NEW m PROVE Method(fam, type, m)' = Method(fam, type, m)
  BY DEF SameIndex, Method, LastOf, PlacesOf, Places, D, Before
<1>2. ASSUME NEW fam, NEW type, NEW m PROVE MethodInHierarchy(fam, type, m)' = MethodInHierarchy(fam, type, m)
  <2>1. TypeBases(fam)' = TypeBases(fam)
    BY PlacesStay
  <2> QED
    BY <1>1, <2>1, Zenon DEF MethodInHierarchy
<1>3. ASSUME NEW fam, NEW type, NEW m PROVE NearestTo(fam, type, m)' = NearestTo(fam, type, m)
  <2>1. TypeBases(fam)' = TypeBases(fam)
    BY PlacesStay
  <2> QED
    <3> DEFINE up == TypeBases(fam)
               declared(k) == UNION {Method(fam, t, m) : t \in Above(up, type, k)}
               at == {k \in 0 .. Cardinality(AllBases(up)) : declared(k) # {}}
    <3>1. up' = up /\ \A k : declared(k)' = declared(k)
      BY <1>1, <2>1
    <3>2. NearestTo(fam, type, m) = IF at = {} THEN {} ELSE declared(Min(at))
      BY Zenon DEF NearestTo
    <3>3. (NearestTo(fam, type, m) = IF at = {} THEN {} ELSE declared(Min(at)))'
      BY Zenon DEF NearestTo
    <3> HIDE DEF declared, up
    <3>4. at' = at
      BY <3>1
    <3> HIDE DEF at
    <3> QED
      BY <3>1, <3>2, <3>3, <3>4
<1>4. ASSUME NEW fam, NEW type PROVE HasMethods(fam, type)' = HasMethods(fam, type)
  <2>1. PlacesOf(fam)' = PlacesOf(fam) /\ \A p : D(p)' = D(p)
    BY PlacesStay
  <2> QED
    BY <2>1 DEF HasMethods
<1> QED
  BY <1>1, <1>2, <1>3, <1>4

\* A receiver's type depends on types, fields and files, and on which types have methods.
LEMMA ReceiversFollow ==
    ASSUME \A fam, type, field : Field(fam, type, field)' = Field(fam, type, field),
           \A fam : TypeBases(fam)' = TypeBases(fam),
           \A path : File(path)' = File(path),
           \A fam, type : HasMethods(fam, type)' <=> HasMethods(fam, type)
    PROVE  \A from, recv : ReceiverType(from, recv)' = ReceiverType(from, recv)
<1>0. \A path : FamilyOf(path)' = FamilyOf(path)
  BY DEF FamilyOf
<1>2. ASSUME NEW fam, NEW type, NEW field PROVE FieldInHierarchy(fam, type, field)' = FieldInHierarchy(fam, type, field)
  BY DEF FieldInHierarchy
<1>3. ASSUME NEW scope, NEW name PROVE VarIn(scope, name)' = VarIn(scope, name)
  BY DEF VarIn
<1>4. ASSUME NEW from, NEW first PROVE FirstType(from, first)' = FirstType(from, first)
  <2> DEFINE here == VarIn(from, first)
             above == BasesIn(TypeBases(FamilyOf(from.file)), EnclosingClass(from))
             there == VarIn(FileScope(from.file), first)
             known == HasMethods(FamilyOf(from.file), first)
             self == IF here # {} THEN CHOOSE t \in here : TRUE ELSE EnclosingClass(from)
             super == IF above # <<>> THEN Head(above) ELSE NoType
             seen == IF here # {} THEN here ELSE there
             other == IF seen # {} THEN CHOOSE t \in seen : TRUE ELSE IF known THEN first ELSE NoType
  <2>1. here' = here /\ above' = above /\ there' = there /\ (known' <=> known)
    BY <1>0, <1>3
  <2>2. FirstType(from, first) = CASE first \in {"this", "self"} -> self [] first = "super" -> super [] OTHER -> other
    BY Zenon DEF FirstType
  <2>3. (FirstType(from, first) = CASE first \in {"this", "self"} -> self [] first = "super" -> super [] OTHER -> other)'
    BY Zenon DEF FirstType
  <2> HIDE DEF here, above, there, known
  <2>4. self' = self /\ super' = super /\ other' = other
    BY <2>1
  <2> QED
    BY <2>2, <2>3, <2>4, Zenon
<1>5. ASSUME NEW from, NEW recv PROVE ReceiverType(from, recv)' = ReceiverType(from, recv)
  BY <1>0, <1>2, <1>4, Zenon DEF ReceiverType
<1> QED
  BY <1>5

\* The types of receivers.
LEMMA TypesStay ==
    ASSUME SameIndex
    PROVE  \A from, recv : ReceiverType(from, recv)' = ReceiverType(from, recv)
<1>1. ASSUME NEW fam, NEW type, NEW field PROVE Field(fam, type, field)' = Field(fam, type, field)
  <2>1. InFamily(fam)' = InFamily(fam) /\ files' = files
    BY PlacesStay DEF SameIndex
  <2> QED
    BY <2>1 DEF Field
<1>2. \A fam, type : HasMethods(fam, type)' <=> HasMethods(fam, type)
  BY MethodsStay
<1> QED
  BY <1>1, <1>2, PlacesStay, ReceiversFollow

\* The rules, and which of them decides.
LEMMA RulesStay ==
    ASSUME SameIndex, NEW path, NEW ref
    PROVE  RulesFor(path, ref)' = RulesFor(path, ref) /\ Decide(RulesFor(path, ref))' = Decide(RulesFor(path, ref))
<1>1. /\ \A p : Node(p)' = Node(p)
      /\ FamilyOf(path)' = FamilyOf(path)
      /\ Bound(path, ref.name)' = Bound(path, ref.name)
      /\ InFile(path, ref.name)' = InFile(path, ref.name)
      /\ ByAlias(path, ref.recv, ref.name)' = ByAlias(path, ref.recv, ref.name)
      /\ \A fam : ByName(fam, ref.name)' = ByName(fam, ref.name)
      /\ \A fam : MethodsNamed(fam, ref.name)' = MethodsNamed(fam, ref.name)
      /\ \A fam, type : MethodInHierarchy(fam, type, <<ref.name>>)' = MethodInHierarchy(fam, type, <<ref.name>>)
      /\ ReceiverType(ref.from, ref.recv)' = ReceiverType(ref.from, ref.recv)
  BY PlacesStay, NamesStay, ImportsStay, MethodsStay, TypesStay
<1>2. BaseRules(path, ref)' = BaseRules(path, ref)
  BY <1>1 DEF BaseRules, Found, Rule, Single, Unknown, External
<1>3. BareRules(path, ref)' = BareRules(path, ref)
  BY <1>1 DEF BareRules, Found, Candidates, Rule, Unknown, External
<1>4. ReceiverRules(path, ref)' = ReceiverRules(path, ref)
  BY <1>1 DEF ReceiverRules, Found, Candidates, Rule, Unknown, External
<1>5. RulesFor(path, ref)' = RulesFor(path, ref)
  BY <1>2, <1>3, <1>4 DEF RulesFor
<1> QED
  BY <1>5 DEF Decide

-----------------------------------------------------------------------------
(* What the rules find.                                                    *)

\* The family of a path is that of the file which has it.
LEMMA FamilyOfAFile ==
    ASSUME Reads, NEW j \in DOMAIN files
    PROVE  File(files[j].path) = files[j] /\ FamilyOf(files[j].path) = files[j].family /\ files[j] \in repo
<1>1. files[j] \in ToSet(files) /\ \A g \in ToSet(files) : g \in repo
  BY DEF Reads, ToSet
<1>2. \A g \in ToSet(files) : g.path = files[j].path => g = files[j]
  BY <1>1 DEF Reads, Sound
<1> QED
  BY <1>1, <1>2 DEF File, FamilyOf

\* A name of a file is declared in that file.
LEMMA InFileIsHere ==
    ASSUME Reads, NEW j \in DOMAIN files, NEW name
    PROVE  InFile(files[j].path, name) \subseteq PlacesOf(files[j].family)
<1>1. ASSUME NEW p \in Places, files[p[1]].path = files[j].path PROVE p \in PlacesOf(files[j].family)
  <2>1. p[1] \in DOMAIN files
    BY DEF Places
  <2>2. files[p[1]] = files[j]
    BY <1>1, <2>1 DEF Reads, Sound
  <2> QED
    BY <2>2 DEF PlacesOf
<1> QED
  BY <1>1 DEF InFile, LastOf

\* The files an import is taken to are of the family of the file that has it.
LEMMA TargetsAreOfTheFamily ==
    ASSUME NEW path, NEW i
    PROVE  Targets(path, i) \subseteq InFamily(FamilyOf(path))
BY DEF Targets, ByModule

\* What an import binds is declared in the family.
LEMMA BoundIsDeclared ==
    ASSUME Reads, NEW path, NEW name
    PROVE  Bound(path, name) \subseteq PlacesOf(FamilyOf(path))
<1>1. ASSUME NEW i PROVE Binds(path, i, name) \subseteq PlacesOf(FamilyOf(path))
  <2>1. ASSUME NEW j \in Targets(path, i) PROVE InFile(files[j].path, name) \subseteq PlacesOf(FamilyOf(path))
    <3>1. j \in DOMAIN files /\ files[j].family = FamilyOf(path)
      BY TargetsAreOfTheFamily DEF InFamily
    <3> QED
      BY <3>1, InFileIsHere
  <2> QED
    BY <2>1 DEF Binds, Latest, Earliest
<1> QED
  BY <1>1 DEF Bound

\* What an alias leads to is declared in the family.
LEMMA ByAliasIsDeclared ==
    ASSUME Reads, NEW path, NEW recv, NEW name
    PROVE  ByAlias(path, recv, name) \subseteq PlacesOf(FamilyOf(path))
<1>1. ASSUME NEW i, NEW j \in Targets(path, i) PROVE InFile(files[j].path, name) \subseteq PlacesOf(FamilyOf(path))
  <2>1. j \in DOMAIN files /\ files[j].family = FamilyOf(path)
    BY TargetsAreOfTheFamily DEF InFamily
  <2> QED
    BY <2>1, InFileIsHere
<1> QED
  BY <1>1 DEF ByAlias, Latest, Earliest

\* Methods of types and their bases are declared in the family.
LEMMA MethodIsDeclared ==
    ASSUME NEW fam, NEW type, NEW m
    PROVE  MethodInHierarchy(fam, type, m) \subseteq PlacesOf(fam)
<1>1. \A t : Method(fam, t, m) \subseteq PlacesOf(fam)
  BY DEF Method, LastOf
<1> QED
  BY <1>1 DEF MethodInHierarchy

-----------------------------------------------------------------------------
(* What a rule may decide: declarations of the family, and it is sure or   *)
(* not; or one external symbol, and it knows nothing.                      *)

Internal(rule, fam) == /\ \A t \in rule.to : \E p \in PlacesOf(fam) : t = Node(p)
                       /\ rule.conf \in {"exact", "name_match", "ambiguous"}
Outside(rule) == (\A t \in rule.to : t.file = "external") /\ rule.to # {} /\ rule.conf = "unknown"

\* Declarations of the family, found by a rule, stay in it.
LEMMA FoundIsInternal ==
    ASSUME NEW fam, NEW places, places \subseteq PlacesOf(fam), NEW conf \in {"exact", "name_match"}
    PROVE  Internal(Found(places, conf), fam) /\ Internal(Candidates(places, conf), fam)
BY DEF Internal, Found, Candidates, Rule

\* The last rule leads to an external symbol.
LEMMA UnknownIsOutside ==
    ASSUME NEW parts
    PROVE  Outside(Unknown(parts))
<1>1. External(parts).file = "external"
  BY DEF External
<1>2. Unknown(parts).to = {External(parts)} /\ Unknown(parts).conf = "unknown"
  BY DEF Unknown, Rule
<1> QED
  BY <1>1, <1>2 DEF Outside

\* The last of a list of rules always finds something, so one of them decides.
LEMMA OneRuleDecides ==
    ASSUME NEW rules, NEW n \in 3 .. 4, DOMAIN rules = 1 .. n, rules[n].to # {}
    PROVE  \E i \in 1 .. n : Decide(rules) = rules[i]
<1> DEFINE finds == {i \in DOMAIN rules : rules[i].to # {}}
<1>1. finds \subseteq 1 .. 4 /\ n \in finds
  OBVIOUS
<1>2. \E x \in finds : \A y \in finds : x <= y
  <2>1. CASE 1 \in finds
    BY <1>1, <2>1
  <2>2. CASE 1 \notin finds /\ 2 \in finds
    BY <1>1, <2>2
  <2>3. CASE 1 \notin finds /\ 2 \notin finds /\ 3 \in finds
    BY <1>1, <2>3
  <2>4. CASE 1 \notin finds /\ 2 \notin finds /\ 3 \notin finds
    BY <1>1, <2>4
  <2> QED
    BY <2>1, <2>2, <2>3, <2>4
<1>3. Min(finds) \in finds
  BY <1>2 DEF Min
<1> QED
  BY <1>3 DEF Decide

\* Each reference of a file is decided within its family, or left unknown.
LEMMA RulesKeepToTheFamily ==
    ASSUME Reads, NEW j \in DOMAIN files, NEW ref
    PROVE  LET rule == Decide(RulesFor(files[j].path, ref))
           IN Internal(rule, files[j].family) \/ Outside(rule)
<1> DEFINE path == files[j].path
           fam == files[j].family
           here(rule) == Internal(rule, fam) \/ Outside(rule)
<1>1. FamilyOf(path) = fam /\ InFile(path, ref.name) \subseteq PlacesOf(fam)
      /\ Bound(path, ref.name) \subseteq PlacesOf(fam) /\ ByAlias(path, ref.recv, ref.name) \subseteq PlacesOf(fam)
  BY FamilyOfAFile, InFileIsHere, BoundIsDeclared, ByAliasIsDeclared
<1>2. ByName(fam, ref.name) \subseteq PlacesOf(fam) /\ MethodsNamed(fam, ref.name) \subseteq PlacesOf(fam)
      /\ Single(ByName(fam, ref.name)) \subseteq PlacesOf(fam)
  BY DEF ByName, MethodsNamed, Single
<1>3. CASE RulesFor(path, ref) = BaseRules(path, ref)
  <2> DEFINE rules == BaseRules(path, ref)
  <2>1. DOMAIN rules = 1 .. 4 /\ rules[4] = Unknown(<<ref.name>>)
    BY DEF BaseRules
  <2>2. \A i \in 1 .. 4 : here(rules[i])
    <3>1. here(rules[1]) /\ here(rules[2]) /\ here(rules[3])
      BY <1>1, <1>2, FoundIsInternal DEF BaseRules
    <3> QED
      BY <3>1, <2>1, UnknownIsOutside
  <2>3. \E i \in 1 .. 4 : Decide(rules) = rules[i]
    BY <2>1, OneRuleDecides, UnknownIsOutside DEF Outside
  <2> QED
    BY <1>3, <2>2, <2>3
<1>4. CASE RulesFor(path, ref) = BareRules(path, ref)
  <2> DEFINE rules == BareRules(path, ref)
  <2>1. DOMAIN rules = 1 .. 4 /\ rules[4] = Unknown(<<ref.name>>)
    BY DEF BareRules
  <2>2. \A i \in 1 .. 4 : here(rules[i])
    <3>1. here(rules[1]) /\ here(rules[2]) /\ here(rules[3])
      BY <1>1, <1>2, FoundIsInternal DEF BareRules
    <3> QED
      BY <3>1, <2>1, UnknownIsOutside
  <2>3. \E i \in 1 .. 4 : Decide(rules) = rules[i]
    BY <2>1, OneRuleDecides, UnknownIsOutside DEF Outside
  <2> QED
    BY <1>4, <2>2, <2>3
<1>5. CASE RulesFor(path, ref) = ReceiverRules(path, ref)
  <2> DEFINE rules == ReceiverRules(path, ref)
             type == ReceiverType(ref.from, ref.recv)
             methods == IF type = NoType THEN {} ELSE MethodInHierarchy(fam, type, <<ref.name>>)
  <2>1. DOMAIN rules = 1 .. 4 /\ rules[4] = Unknown(Append(ref.recv, ref.name))
    BY DEF ReceiverRules
  <2>2. \A i \in 1 .. 4 : here(rules[i])
    <3>1. methods \subseteq PlacesOf(fam)
      BY MethodIsDeclared
    <3>2. /\ rules[1] = Candidates(methods, "exact")
          /\ rules[2] = Found(ByAlias(path, ref.recv, ref.name), "exact")
          /\ rules[3] = Candidates(MethodsNamed(fam, ref.name), "name_match")
      BY <1>1 DEF ReceiverRules
    <3>3. here(rules[1]) /\ here(rules[2]) /\ here(rules[3])
      BY <1>1, <1>2, <3>1, <3>2, FoundIsInternal
    <3> QED
      BY <3>3, <2>1, UnknownIsOutside
  <2>3. \E i \in 1 .. 4 : Decide(rules) = rules[i]
    BY <2>1, OneRuleDecides, UnknownIsOutside DEF Outside
  <2> QED
    BY <1>5, <2>2, <2>3
<1> QED
  BY <1>3, <1>4, <1>5 DEF RulesFor

-----------------------------------------------------------------------------
(* The invariant.                                                          *)

SameFamily(m, n) == \A f, g \in repo : f.path = m.file /\ g.path = n.file => f.family = g.family

IsThere(n) == \E f \in repo : \E i \in DOMAIN f.nodes : n = f.nodes[i].id

\* A map of edges leads from declarations to declarations of their family, or to externals.
Linked(es, outside) ==
    /\ \A e \in DOMAIN es :
          /\ IsThere(e[1])
          /\ \/ IsThere(e[2]) /\ SameFamily(e[1], e[2]) /\ es[e] # "unknown"
             \/ e[2] \in outside /\ es[e] = "unknown"
    /\ \A n \in outside : n.file = "external"

\* While there is something to do, the files are read, and jobs are about them.
JobsHold ==
    todo # {} =>
       /\ Reads
       /\ \A x \in todo : /\ x # EndOfRun => x[1] \in DOMAIN Families
                          /\ x # EndOfRun /\ x[2] \in DOMAIN files => x[3] \in DOMAIN files[x[2]].refs

AnswerHolds(a) ==
    /\ \A e \in DOMAIN a.edges : {e[1], e[2]} \subseteq a.nodes
    /\ \E outside \in SUBSET a.nodes : Linked(a.edges, outside)

Inv ==
    /\ Sound(repo)
    /\ answers # {} => Reads
    /\ JobsHold
    /\ Linked(edges, external)
    /\ \A a \in answers : AnswerHolds(a)

\* An answer that was given stays as it is.
LEMMA AnswersStay ==
    ASSUME NEW a, AnswerHolds(a), repo' = repo
    PROVE  AnswerHolds(a)'
<1>1. PICK outside \in SUBSET a.nodes : Linked(a.edges, outside)
  BY DEF AnswerHolds
<1>2. \A n : IsThere(n)' = IsThere(n)
  BY DEF IsThere
<1>3. \A m, n : SameFamily(m, n)' = SameFamily(m, n)
  BY DEF SameFamily
<1>4. ASSUME NEW e \in DOMAIN a.edges
      PROVE  /\ IsThere(e[1])'
             /\ \/ IsThere(e[2])' /\ SameFamily(e[1], e[2])' /\ a.edges[e] # "unknown"
                \/ e[2] \in outside /\ a.edges[e] = "unknown"
  BY <1>1, <1>2, <1>3 DEF Linked
<1>5. Linked(a.edges, outside)'
  BY <1>1, <1>4 DEF Linked
<1> QED
  BY <1>1, <1>5 DEF AnswerHolds

\* An order of the repository reads all of it.
LEMMA OrdersRead ==
    ASSUME NEW order \in Orders(repo), Sound(repo), files' = order, repo' = repo
    PROVE  Reads'
<1>1. Cardinality(repo) \in Nat
  BY FS_CardinalityType DEF Sound
<1> QED
  BY <1>1 DEF Orders, Reads, Sound

\* At first nothing is read, to do or recorded.
LEMMA InvInit ==
    ASSUME NEW fs, Sound(fs), ResolverInit(fs)
    PROVE  Inv
BY DEF ResolverInit, Inv, JobsHold, Linked

\* Begin
LEMMA BeginKeepsInv == Inv /\ Begin => Inv'
<1> SUFFICES ASSUME Inv, Begin PROVE Inv'
  OBVIOUS
<1>1. Sound(repo) /\ repo' = repo
  BY DEF Inv, Begin
<1>2. PICK order \in Orders(repo) : files' = order /\ todo' = RefJobs(order) \cup InterfaceJobs(order) \cup {EndOfRun}
  BY DEF Begin
<1>3. Reads'
  BY <1>1, <1>2, OrdersRead
<1>4. JobsHold'
  <2>1. ASSUME NEW x \in RefJobs(order) PROVE x[1] \in DOMAIN Families /\ x[3] \in DOMAIN order[x[2]].refs
    BY DEF RefJobs
  <2>2. ASSUME NEW x \in InterfaceJobs(order) PROVE x[1] \in DOMAIN Families /\ x[2] = Len(order) + 1
    BY DEF InterfaceJobs
  <2>3. Len(order) + 1 \notin DOMAIN order
    <3>1. PICK n \in Nat : order \in [1 .. n -> repo]
      BY <1>1, <1>2, <1>3 DEF Reads
    <3>2. Len(order) = n /\ DOMAIN order = 1 .. n
      BY <3>1
    <3> QED
      BY <3>2
  <2>4. EndOfRun' = EndOfRun
    BY DEF EndOfRun
  <2> QED
    BY <1>2, <1>3, <2>1, <2>2, <2>3, <2>4 DEF JobsHold
<1>5. Linked(edges, external)'
  BY DEF Begin, Linked
<1>6. \A a \in answers' : AnswerHolds(a)'
  BY <1>1, AnswersStay DEF Inv, Begin
<1> QED
  BY <1>1, <1>3, <1>4, <1>5, <1>6 DEF Inv, Begin

\* Adding edges that are linked.
LEMMA PutKeepsLinked ==
    ASSUME NEW new, Linked(edges, external), NEW outside, external \subseteq outside,
           Linked(new, outside), Put(new), external' = outside, repo' = repo
    PROVE  Linked(edges, external)'
<1>1. DOMAIN edges' = DOMAIN new \cup DOMAIN edges
      /\ \A e \in DOMAIN edges' : edges'[e] = IF e \in DOMAIN new THEN new[e] ELSE edges[e]
  BY DEF Put
<1>2. ASSUME NEW e \in DOMAIN edges'
      PROVE  /\ IsThere(e[1])
             /\ \/ IsThere(e[2]) /\ SameFamily(e[1], e[2]) /\ edges'[e] # "unknown"
                \/ e[2] \in outside /\ edges'[e] = "unknown"
  BY <1>1, <1>2 DEF Linked
<1>3. \A n \in outside : n.file = "external"
  BY DEF Linked
<1> QED
  BY <1>2, <1>3 DEF Linked, IsThere, SameFamily

\* A place is a declaration, in the file of its path.
LEMMA PlacesAreDeclared ==
    ASSUME Reads, NEW fam, NEW p \in PlacesOf(fam)
    PROVE  /\ IsThere(Node(p)) /\ Node(p).file # "external"
           /\ \A f \in repo : f.path = Node(p).file => f.family = fam
<1>1. p[1] \in DOMAIN files /\ p[2] \in DOMAIN files[p[1]].nodes /\ files[p[1]].family = fam
  BY DEF PlacesOf, Places
<1>2. files[p[1]] \in repo
  BY <1>1 DEF Reads
<1>3. Node(p) = files[p[1]].nodes[p[2]].id
  BY DEF Node, D
<1>4. Node(p).file = files[p[1]].path
  BY SMTT(40), <1>1, <1>2, <1>3 DEF Reads, Sound
<1> QED
  BY <1>1, <1>2, <1>3, <1>4 DEF Reads, Sound, IsThere

\* ResolveRef
LEMMA ResolveRefKeepsInv ==
    ASSUME Inv, NEW x \in todo, ResolveRef(x)
    PROVE  Inv'
<1> DEFINE file == files[x[2]]
           ref == file.refs[x[3]]
           rule == Decide(RulesFor(file.path, ref))
           new == [e \in {Edge(ref.from, t, ref.kind, ref.line) : t \in rule.to} |-> rule.conf]
           outside == external \cup {t \in rule.to : t.file = "external"}
<1>1. /\ Reads /\ x[2] \in DOMAIN files /\ x[3] \in DOMAIN file.refs
      /\ todo' = todo \ {x} /\ UNCHANGED <<repo, files, answers>>
      /\ Put(new) /\ external' = outside
  BY DEF Inv, JobsHold, ResolveRef
<1>2. file \in repo /\ IsThere(ref.from) /\ ref.from.file = file.path
  <2>1. file \in repo /\ Sound(repo)
    BY SMTT(40), <1>1 DEF Reads
  <2>2. PICK i \in DOMAIN file.nodes : ref.from = file.nodes[i].id
    BY <1>1, <2>1 DEF Sound
  <2>3. file.nodes[i].id.file = file.path
    BY <2>1 DEF Sound
  <2> QED
    BY SMTT(40), <2>1, <2>2, <2>3 DEF IsThere
<1>3. Internal(rule, file.family) \/ Outside(rule)
  BY <1>1, RulesKeepToTheFamily
<1>4. ASSUME NEW e \in DOMAIN new
      PROVE  /\ IsThere(e[1])
             /\ \/ IsThere(e[2]) /\ SameFamily(e[1], e[2]) /\ new[e] # "unknown"
                \/ e[2] \in outside /\ new[e] = "unknown"
  <2>1. PICK t \in rule.to : e = Edge(ref.from, t, ref.kind, ref.line)
    BY SMTT(40)
  <2>2. e[1] = ref.from /\ e[2] = t /\ new[e] = rule.conf
    BY ZenonT(40), <2>1 DEF Edge
  <2>3. CASE Internal(rule, file.family)
    <3>1. PICK p \in PlacesOf(file.family) : t = Node(p)
      BY SMTT(40), <2>3 DEF Internal
    <3>2. IsThere(t) /\ \A f \in repo : f.path = t.file => f.family = file.family
      <4> HIDE DEF new, outside, file, rule
      <4>1. /\ IsThere(Node(p))
            /\ \A f \in repo : f.path = Node(p).file => f.family = file.family
        BY ZenonT(40), <1>1, PlacesAreDeclared
      <4> QED
        BY ZenonT(40), <3>1, <4>1
    <3>3. SameFamily(ref.from, t)
      <4>1. \A f \in repo : f.path = file.path => f = file
        BY ZenonT(40), <1>1, <1>2 DEF Reads, Sound
      <4> QED
        BY SMTT(40), <1>2, <3>2, <4>1 DEF SameFamily
    <3> QED
      BY ZenonT(40), <1>2, <2>2, <2>3, <3>2, <3>3 DEF Internal
  <2>4. CASE Outside(rule)
    BY ZenonT(40), <1>2, <2>2, <2>4 DEF Outside
  <2> QED
    BY ZenonT(40), <1>3, <2>3, <2>4
<1>5. Linked(new, outside)
  <2>1. \A n \in outside : n.file = "external"
    BY SMTT(40) DEF Inv, Linked
  <2> QED
    BY ZenonT(40), <1>4, <2>1 DEF Linked
<1>6. Linked(edges, external)'
  <2>1. Linked(edges, external) /\ external \subseteq outside
    BY SMTT(40) DEF Inv
  <2> QED
    BY ZenonT(40), <1>1, <1>5, <2>1, PutKeepsLinked
<1>7. JobsHold' /\ Reads'
  BY <1>1 DEF Inv, JobsHold, EndOfRun, Reads
<1>8. \A a \in answers' : AnswerHolds(a)'
  BY <1>1, AnswersStay DEF Inv
<1> QED
  BY ZenonT(40), <1>1, <1>6, <1>7, <1>8 DEF Inv

\* MatchInterfaces
LEMMA MatchInterfacesKeepsInv ==
    ASSUME Inv, NEW x \in todo, MatchInterfaces(x)
    PROVE  Inv'
<1> DEFINE fam == Families[x[1]]
           new == [e \in Implements(fam) |-> "exact"]
<1>1. /\ Reads /\ todo' = todo \ {x} /\ UNCHANGED <<repo, files, external, answers>> /\ Put(new)
  BY DEF Inv, JobsHold, MatchInterfaces
<1>2. ASSUME NEW e \in DOMAIN new
      PROVE  IsThere(e[1]) /\ IsThere(e[2]) /\ SameFamily(e[1], e[2]) /\ new[e] # "unknown"
  <2>1. PICK y \in PlacesOf(fam) \X PlacesOf(fam) :
           e = Edge(Node(y[1]), Node(y[2]), "implements", D(y[1]).line)
    BY DEF Implements, Matching
  <2>2. e[1] = Node(y[1]) /\ e[2] = Node(y[2]) /\ new[e] = "exact"
    BY <2>1 DEF Edge
  <2>3. y[1] \in PlacesOf(fam) /\ y[2] \in PlacesOf(fam)
    BY <2>1
  <2>4. SameFamily(Node(y[1]), Node(y[2]))
    BY <1>1, <2>3, PlacesAreDeclared DEF SameFamily
  <2> QED
    BY <1>1, <2>2, <2>3, <2>4, PlacesAreDeclared
<1>3. Linked(new, external)
  <2>1. \A n \in external : n.file = "external"
    BY DEF Inv, Linked
  <2> QED
    BY <1>2, <2>1 DEF Linked
<1>4. Linked(edges, external)'
  BY <1>1, <1>3, PutKeepsLinked DEF Inv
<1>5. JobsHold' /\ Reads'
  BY <1>1 DEF Inv, JobsHold, EndOfRun, Reads
<1>6. \A a \in answers' : AnswerHolds(a)'
  BY <1>1, AnswersStay DEF Inv
<1> QED
  BY <1>1, <1>4, <1>5, <1>6 DEF Inv

\* Return
LEMMA ReturnKeepsInv == Inv /\ Return => Inv'
<1> SUFFICES ASSUME Inv, Return PROVE Inv'
  OBVIOUS
<1> DEFINE answer == [nodes |-> {Node(p) : p \in Places} \cup external, edges |-> edges]
<1>1. Reads /\ todo' = {} /\ UNCHANGED <<repo, files, edges, external>> /\ answers' = answers \cup {answer}
  BY DEF Inv, JobsHold, Return, IsNext
<1>2. ASSUME NEW n, IsThere(n) PROVE n \in answer.nodes
  <2>1. PICK f \in repo : \E i \in DOMAIN f.nodes : n = f.nodes[i].id
    BY <1>2 DEF IsThere
  <2>2. PICK i \in DOMAIN f.nodes : n = f.nodes[i].id
    BY <2>1
  <2>3. PICK j \in DOMAIN files : files[j] = f
    BY <1>1 DEF Reads
  <2>4. <<j, i>> \in Places /\ n = Node(<<j, i>>)
    BY <2>2, <2>3 DEF Places, Node, D
  <2> QED
    BY <2>4
<1>3. AnswerHolds(answer)
  <2>1. Linked(edges, external) /\ external \in SUBSET answer.nodes
    BY DEF Inv
  <2>2. \A e \in DOMAIN edges : {e[1], e[2]} \subseteq answer.nodes
    BY <1>2, <2>1 DEF Linked
  <2> QED
    BY <2>1, <2>2 DEF AnswerHolds
<1>4. ASSUME NEW a \in answers' PROVE AnswerHolds(a)'
  BY <1>1, <1>3, AnswersStay DEF Inv
<1>5. JobsHold' /\ Reads' /\ Linked(edges, external)'
  BY <1>1 DEF Inv, JobsHold, Reads, Linked, IsThere, SameFamily
<1> QED
  BY <1>1, <1>4, <1>5 DEF Inv

\* Each step keeps the invariant.
LEMMA InvStep == Inv /\ [ResolverNext]_vars => Inv'
<1> SUFFICES ASSUME Inv, [ResolverNext]_vars PROVE Inv'
  OBVIOUS
<1>1. CASE Begin
  BY <1>1, BeginKeepsInv
<1>2. CASE \E x \in todo : ResolveRef(x) \/ MatchInterfaces(x)
  BY <1>2, ResolveRefKeepsInv, MatchInterfacesKeepsInv
<1>3. CASE Return
  BY <1>3, ReturnKeepsInv
<1>4. CASE UNCHANGED vars
  <2>1. JobsHold' /\ (answers' # {} => Reads')
    BY <1>4 DEF vars, Inv, JobsHold, EndOfRun, Reads
  <2>2. Linked(edges, external)'
    BY <1>4 DEF vars, Inv, Linked, IsThere, SameFamily
  <2>3. \A a \in answers' : AnswerHolds(a)'
    BY <1>4, AnswersStay DEF vars, Inv
  <2> QED
    BY <1>4, <2>1, <2>2, <2>3 DEF vars, Inv
<1> QED
  BY <1>1, <1>2, <1>3, <1>4 DEF ResolverNext

\* The inductive invariant: a run reads the whole repository, what is to do is about files
\* it reads, and the edges found so far lead to declarations of the family of their source,
\* or to external symbols.
THEOREM InvHolds == ResolverSpec => []Inv
<1>1. (\E fs \in Repos : ResolverInit(fs)) => Inv
  BY InvInit, ResolverAssumption
<1> QED
  BY <1>1, InvStep, PTL DEF ResolverSpec

-----------------------------------------------------------------------------
(* What a run has recorded.                                                *)

\* The edges of the k-th reference of the j-th file.
OfRef(j, k) ==
    LET ref == files[j].refs[k]
    IN {Edge(ref.from, t, ref.kind, ref.line) : t \in Decide(RulesFor(files[j].path, ref)).to}

\* The edges that jobs record.
LEMMA ImplementsStay ==
    ASSUME SameIndex
    PROVE  /\ \A fam : Implements(fam)' = Implements(fam)
           /\ \A j, k : OfRef(j, k)' = OfRef(j, k)
<1>1. /\ \A p : D(p)' = D(p) /\ Node(p)' = Node(p)
      /\ \A fam : PlacesOf(fam)' = PlacesOf(fam)
      /\ \A fam : FilesOf(fam)' = FilesOf(fam)
      /\ \A fam, type, m : MethodInHierarchy(fam, type, m)' = MethodInHierarchy(fam, type, m)
  BY PlacesStay, MethodsStay
<1>2. ASSUME NEW fam, NEW iface PROVE Required(fam, iface)' = Required(fam, iface)
  BY <1>1 DEF Required
<1>3. ASSUME NEW fam, NEW class, NEW m PROVE InFacts(fam, class, m)' <=> InFacts(fam, class, m)
  BY <1>1 DEF InFacts
<1>4. ASSUME NEW fam, NEW class, NEW iface PROVE HasAll(fam, class, iface)' <=> HasAll(fam, class, iface)
  BY <1>1, <1>2, <1>3 DEF HasAll
<1>5. ASSUME NEW fam PROVE Matching(fam)' = Matching(fam)
  BY <1>1, <1>4 DEF Matching
<1>6. ASSUME NEW fam PROVE Implements(fam)' = Implements(fam)
  BY <1>1, <1>5 DEF Implements, Edge
<1>7. ASSUME NEW j, NEW k PROVE OfRef(j, k)' = OfRef(j, k)
  <2> DEFINE ref == files[j].refs[k]
             rule == Decide(RulesFor(files[j].path, ref))
  <2>1. ref' = ref /\ files[j]' = files[j]
    BY DEF SameIndex
  <2>2. rule' = rule
    BY RulesStay DEF SameIndex
  <2> HIDE DEF ref, rule
  <2>3. OfRef(j, k) = {Edge(ref.from, t, ref.kind, ref.line) : t \in rule.to}
        /\ OfRef(j, k)' = {Edge(ref'.from, t, ref'.kind, ref'.line) : t \in rule'.to}
    BY DEF OfRef, ref, rule, Edge
  <2> QED
    BY <2>1, <2>2, <2>3
<1> QED
  BY <1>6, <1>7

\* What is done is recorded, and what is recorded was found by a rule or by the methods
\* of an interface.
Recorded ==
    /\ Reads \/ files = <<>>
    /\ todo \subseteq RefJobs(files) \cup InterfaceJobs(files) \cup {EndOfRun}
    /\ todo # {} => EndOfRun \in todo
    /\ \A e \in DOMAIN edges : \/ \E x \in RefJobs(files) : e \in OfRef(x[2], x[3])
                               \/ \E i \in DOMAIN Families : e \in Implements(Families[i])
    /\ \A x \in RefJobs(files) \ todo : OfRef(x[2], x[3]) \subseteq DOMAIN edges
    /\ \A x \in InterfaceJobs(files) \ todo : Implements(Families[x[1]]) \subseteq DOMAIN edges

\* At first there are no edges and no jobs.
LEMMA RecordedInit ==
    ASSUME NEW fs, ResolverInit(fs)
    PROVE  Recorded
<1>1. files = <<>> /\ todo = {} /\ DOMAIN edges = {}
  BY DEF ResolverInit
<1>2. DOMAIN files = {}
  BY <1>1
<1>3. RefJobs(files) = {}
  BY <1>2 DEF RefJobs
<1>4. \A fam : PlacesOf(fam) = {}
  BY <1>2 DEF PlacesOf, Places
<1>5. \A fam : Implements(fam) = {}
  BY <1>4 DEF Implements, Matching
<1> QED
  BY <1>1, <1>3, <1>5 DEF Recorded

\* Begin
LEMMA BeginKeepsRecorded ==
    ASSUME Inv, Begin
    PROVE  Recorded'
<1>1. PICK order \in Orders(repo) : files' = order /\ todo' = RefJobs(order) \cup InterfaceJobs(order) \cup {EndOfRun}
  BY DEF Begin
<1>2. Reads'
  <2>1. Sound(repo) /\ repo' = repo
    BY DEF Inv, Begin
  <2> QED
    BY <1>1, <2>1, OrdersRead
<1>3. RefJobs(files)' = RefJobs(order) /\ InterfaceJobs(files)' = InterfaceJobs(order) /\ EndOfRun' = EndOfRun
  BY <1>1 DEF RefJobs, InterfaceJobs, EndOfRun
<1>4. DOMAIN edges' = {}
  BY DEF Begin
<1> QED
  BY <1>1, <1>2, <1>3, <1>4 DEF Recorded

\* The jobs that are left are of two sorts.
LEMMA JobsAre ==
    ASSUME Recorded, NEW x \in todo, x # EndOfRun, JobsHold
    PROVE  /\ x[2] \in DOMAIN files => x \in RefJobs(files) /\ x \notin InterfaceJobs(files)
           /\ x[2] \notin DOMAIN files => x \in InterfaceJobs(files) /\ x \notin RefJobs(files)
<1>1. Reads
  BY DEF JobsHold
<1>2. PICK n \in Nat : files \in [1 .. n -> repo]
  BY <1>1 DEF Reads
<1>3. Len(files) + 1 \notin DOMAIN files
  BY <1>2
<1>4. ASSUME NEW y \in InterfaceJobs(files) PROVE y[2] = Len(files) + 1
  BY DEF InterfaceJobs
<1>5. ASSUME NEW y \in RefJobs(files) PROVE y[2] \in DOMAIN files
  BY DEF RefJobs
<1> QED
  BY <1>3, <1>4, <1>5 DEF Recorded

\* The jobs of a run.
LEMMA JobsStay ==
    ASSUME SameIndex
    PROVE  RefJobs(files)' = RefJobs(files) /\ InterfaceJobs(files)' = InterfaceJobs(files) /\ EndOfRun' = EndOfRun
BY DEF SameIndex, RefJobs, InterfaceJobs, EndOfRun

\* ResolveRef
LEMMA ResolveRefKeepsRecorded ==
    ASSUME Inv, Recorded, NEW x \in todo, ResolveRef(x)
    PROVE  Recorded'
<1>1. SameIndex /\ repo' = repo /\ todo' = todo \ {x} /\ x # EndOfRun /\ x[2] \in DOMAIN files
  BY DEF ResolveRef, SameIndex
<1>2. x \in RefJobs(files) /\ x \notin InterfaceJobs(files)
  BY SMTT(40), <1>1, JobsAre DEF Inv
<1>3. DOMAIN edges' = OfRef(x[2], x[3]) \cup DOMAIN edges
  BY ZenonT(40) DEF ResolveRef, Put, OfRef
<1>4. Reads' \/ (files = <<>>)'
  BY <1>1 DEF Recorded, Reads, SameIndex
<1> QED
  BY SMTT(40), <1>1, <1>2, <1>3, <1>4, JobsStay, ImplementsStay DEF Recorded

\* MatchInterfaces
LEMMA MatchInterfacesKeepsRecorded ==
    ASSUME Inv, Recorded, NEW x \in todo, MatchInterfaces(x)
    PROVE  Recorded'
<1>1. SameIndex /\ repo' = repo /\ todo' = todo \ {x} /\ x # EndOfRun /\ x[2] \notin DOMAIN files
  BY DEF MatchInterfaces, SameIndex
<1>2. x \in InterfaceJobs(files) /\ x \notin RefJobs(files) /\ x[1] \in DOMAIN Families
  BY <1>1, JobsAre DEF Inv, JobsHold
<1>3. DOMAIN edges' = Implements(Families[x[1]]) \cup DOMAIN edges
  BY DEF MatchInterfaces, Put
<1>4. Reads' \/ (files = <<>>)'
  BY <1>1 DEF Recorded, Reads, SameIndex
<1> QED
  BY <1>1, <1>2, <1>3, <1>4, JobsStay, ImplementsStay DEF Recorded

Jobs == RefJobs(files) \cup InterfaceJobs(files)

\* At the end of a run all jobs are done.
LEMMA OnlyTheEnd ==
    ASSUME Inv, IsNext(EndOfRun)
    PROVE  todo = {EndOfRun} /\ EndOfRun \notin Jobs
<1>1. todo = {EndOfRun}
  <2> SUFFICES ASSUME NEW y \in todo, y # EndOfRun PROVE FALSE
    BY DEF IsNext
  <2>1. y[1] \in DOMAIN Families
    BY DEF Inv, JobsHold
  <2>2. Len(Families) \in Nat /\ DOMAIN Families = 1 .. Len(Families)
    BY ResolverAssumption
  <2>3. Earlier(EndOfRun, y)
    BY DEF IsNext
  <2>4. EndOfRun[1] = Len(Families) + 1
    BY DEF EndOfRun
  <2> QED
    BY <2>1, <2>2, <2>3, <2>4 DEF Earlier
<1>2. EndOfRun \notin Jobs
  <2>1. EndOfRun[1] = Len(Families) + 1
    BY DEF EndOfRun
  <2>2. Len(Families) + 1 \notin DOMAIN Families
    BY ResolverAssumption
  <2>3. \A y \in Jobs : y[1] \in DOMAIN Families
    BY DEF Jobs, RefJobs, InterfaceJobs
  <2> QED
    BY <2>1, <2>2, <2>3
<1> QED
  BY <1>1, <1>2

\* Return
LEMMA ReturnKeepsRecorded ==
    ASSUME Inv, Recorded, Return
    PROVE  Recorded'
<1>1. SameIndex /\ UNCHANGED <<repo, edges>> /\ todo' = {} /\ IsNext(EndOfRun)
  BY DEF Return, SameIndex
<1>2. todo = {EndOfRun} /\ EndOfRun \notin RefJobs(files) /\ EndOfRun \notin InterfaceJobs(files)
  BY <1>1, OnlyTheEnd DEF Jobs
<1>3. Reads' \/ (files = <<>>)'
  BY <1>1 DEF Recorded, Reads, SameIndex
<1> QED
  BY <1>1, <1>2, <1>3, JobsStay, ImplementsStay DEF Recorded

\* Each step keeps what is recorded right.
LEMMA RecordedStep == Inv /\ Recorded /\ [ResolverNext]_vars => Recorded'
<1> SUFFICES ASSUME Inv, Recorded, [ResolverNext]_vars PROVE Recorded'
  OBVIOUS
<1>1. CASE Begin
  BY <1>1, BeginKeepsRecorded
<1>2. CASE \E x \in todo : ResolveRef(x) \/ MatchInterfaces(x)
  BY <1>2, ResolveRefKeepsRecorded, MatchInterfacesKeepsRecorded
<1>3. CASE Return
  BY <1>3, ReturnKeepsRecorded
<1>4. CASE UNCHANGED vars
  <2>1. SameIndex /\ UNCHANGED <<repo, todo, edges>>
    BY <1>4 DEF vars, SameIndex
  <2>2. Reads' \/ (files = <<>>)'
    BY <2>1 DEF Recorded, Reads, SameIndex
  <2> QED
    BY <2>1, <2>2, JobsStay, ImplementsStay DEF Recorded
<1> QED
  BY <1>1, <1>2, <1>3, <1>4 DEF ResolverNext

\* What each run records: the edges of all jobs it has done, and no others.
THEOREM RecordedHolds == ResolverSpec => [](Inv /\ Recorded)
<1>1. (\E fs \in Repos : ResolverInit(fs)) => Recorded
  BY RecordedInit
<1> QED
  BY <1>1, RecordedStep, InvHolds, PTL DEF ResolverSpec

-----------------------------------------------------------------------------
(* Calls.                                                                  *)

\* A reference is of one file only, which its source tells.
LEMMA RefsAreOfOneFile ==
    ASSUME Reads, NEW j \in DOMAIN files, NEW k \in DOMAIN files[j].refs,
           NEW i \in DOMAIN files, NEW h \in DOMAIN files[i].refs,
           files[i].refs[h].from.file = files[j].refs[k].from.file
    PROVE  files[i] = files[j] /\ files[j].refs[k].from.file = files[j].path
<1>1. \A x \in DOMAIN files : \A y \in DOMAIN files[x].refs :
         files[x] \in repo /\ files[x].refs[y].from.file = files[x].path
  <2> SUFFICES ASSUME NEW x \in DOMAIN files, NEW y \in DOMAIN files[x].refs
               PROVE  files[x] \in repo /\ files[x].refs[y].from.file = files[x].path
    OBVIOUS
  <2>1. files[x] \in repo
    BY DEF Reads
  <2>2. PICK n \in DOMAIN files[x].nodes : files[x].refs[y].from = files[x].nodes[n].id
    BY <2>1 DEF Reads, Sound
  <2> QED
    BY SMTT(40), <2>1, <2>2 DEF Reads, Sound
<1> QED
  BY <1>1 DEF Reads, Sound

\* If the first rule finds something, it decides.
LEMMA TheFirstDecides ==
    ASSUME NEW rules, NEW n \in 1 .. 4, DOMAIN rules = 1 .. n, rules[1].to # {}
    PROVE  Decide(rules) = rules[1]
<1> DEFINE finds == {i \in DOMAIN rules : rules[i].to # {}}
<1>1. finds \in SUBSET Nat /\ 1 \in finds /\ \A i \in finds : 1 <= i
  OBVIOUS
<1> HIDE DEF finds
<1>2. Min(finds) = 1
  BY <1>1, LeastIsMin
<1> QED
  BY <1>2 DEF Decide, finds

\* Where the type of a receiver is known and declares a method, or one above it does, the
\* call leads to the nearest.
LEMMA ReceiverIsDecided ==
    ASSUME Reads, NEW j \in DOMAIN files, NEW ref, ref.kind = "calls", ref.recv # <<>>,
           ReceiverType(ref.from, ref.recv) # NoType,
           NearestTo(files[j].family, ReceiverType(ref.from, ref.recv), <<ref.name>>) # {}
    PROVE  LET to == Decide(RulesFor(files[j].path, ref)).to
           IN /\ to # {}
              /\ to \subseteq {Node(p) : p \in NearestTo(files[j].family, ReceiverType(ref.from, ref.recv), <<ref.name>>)}
<1> DEFINE fam == files[j].family
           path == files[j].path
           type == ReceiverType(ref.from, ref.recv)
           found == MethodInHierarchy(fam, type, <<ref.name>>)
           rules == ReceiverRules(path, ref)
<1>1. FamilyOf(path) = fam
  BY FamilyOfAFile
<1>2. found # {} /\ found \subseteq NearestTo(fam, type, <<ref.name>>)
  BY HierarchyIsNearest
<1>3. RulesFor(path, ref) = rules
  BY DEF RulesFor
<1>4. DOMAIN rules = 1 .. 4 /\ rules[1] = Candidates(found, "exact")
  BY <1>1 DEF ReceiverRules
<1>5. Candidates(found, "exact").to = {Node(p) : p \in found}
  BY DEF Candidates, Found, Rule
<1> HIDE DEF found, rules
<1>6. rules[1].to # {}
  BY <1>2, <1>4, <1>5
<1>7. Decide(rules) = rules[1]
  BY <1>4, <1>6, TheFirstDecides
<1> QED
  BY <1>2, <1>3, <1>4, <1>5, <1>6, <1>7

\* What the invariants say of the calls when a run is over.
LEMMA NearestIsReached == Inv /\ Recorded => CallsTheNearest
<1> SUFFICES ASSUME Inv, Recorded, todo = {}, NEW f \in ToSet(files), NEW ref \in RefsOf(f.path),
                    ref.kind = "calls", ref.recv # <<>>, AloneOnLine(f.path, ref),
                    ReceiverType(ref.from, ref.recv) # NoType,
                    {Node(p) : p \in NearestTo(f.family, ReceiverType(ref.from, ref.recv), <<ref.name>>)} # {}
             PROVE  /\ Resolved(ref) # {}
                    /\ \A e \in Resolved(ref) :
                          e[2] \in {Node(p) : p \in NearestTo(f.family, ReceiverType(ref.from, ref.recv), <<ref.name>>)}
  BY Zenon DEF CallsTheNearest
<1> DEFINE nearest == {Node(p) : p \in NearestTo(f.family, ReceiverType(ref.from, ref.recv), <<ref.name>>)}
<1>1. PICK j \in DOMAIN files : f = files[j]
  BY DEF ToSet
<1>2. Reads
  BY <1>1 DEF Recorded
<1>3. File(f.path) = f
  BY <1>1, <1>2, FamilyOfAFile
<1>4. PICK k \in DOMAIN f.refs : ref = f.refs[k]
  BY <1>3 DEF RefsOf, ToSet
<1>5. PICK i \in DOMAIN Families : Families[i] = f.family
  <2>1. f \in repo
    BY <1>1, <1>2 DEF Reads
  <2> QED
    BY ZenonT(40), <1>2, <2>1 DEF Reads, Sound, ToSet
<1>6. <<i, j, k>> \in RefJobs(files)
  BY <1>1, <1>4, <1>5 DEF RefJobs
<1>7. OfRef(j, k) \subseteq DOMAIN edges
  BY <1>6 DEF Recorded
<1> DEFINE to == Decide(RulesFor(f.path, ref)).to
<1>8. to # {} /\ to \subseteq nearest
  BY <1>1, <1>2, ReceiverIsDecided
<1>9. OfRef(j, k) = {Edge(ref.from, t, ref.kind, ref.line) : t \in to}
  BY <1>1, <1>4 DEF OfRef
<1> HIDE DEF to, nearest
<1>10. Resolved(ref) # {}
  <2>1. PICK t \in to : TRUE
    BY <1>8
  <2>2. Edge(ref.from, t, ref.kind, ref.line) \in DOMAIN edges
    BY <1>7, <1>9
  <2>3. Edge(ref.from, t, ref.kind, ref.line) \in Resolved(ref)
    BY <2>2 DEF Resolved, Edge
  <2> QED
    BY <2>3
<1>11. ASSUME NEW e \in Resolved(ref) PROVE e[2] \in nearest
  <2>1. e \in DOMAIN edges /\ e[1] = ref.from /\ e[3] = "calls" /\ e[4] = ref.line
    BY <1>11 DEF Resolved
  <2>2. CASE \E x \in RefJobs(files) : e \in OfRef(x[2], x[3])
    <3>1. PICK x \in RefJobs(files) : e \in OfRef(x[2], x[3])
      BY <2>2
    <3> DEFINE r == files[x[2]].refs[x[3]]
    <3>2. x[2] \in DOMAIN files /\ x[3] \in DOMAIN files[x[2]].refs
      BY DEF RefJobs
    <3>3. PICK t \in Decide(RulesFor(files[x[2]].path, r)).to : e = Edge(r.from, t, r.kind, r.line)
      BY SMTT(40), <3>1 DEF OfRef
    <3>4. r.from = ref.from /\ r.line = ref.line /\ e[2] = t
      BY <2>1, <3>3 DEF Edge
    <3>5. files[x[2]] = f
      BY <1>1, <1>2, <1>4, <3>2, <3>4, RefsAreOfOneFile
    <3>6. r \in RefsOf(f.path)
      BY <1>3, <3>2, <3>5 DEF RefsOf, ToSet
    <3>7. r = ref
      BY <3>4, <3>6 DEF AloneOnLine
    <3> QED
      BY <1>8, <3>3, <3>4, <3>5, <3>7 DEF to
  <2>3. CASE \E h \in DOMAIN Families : e \in Implements(Families[h])
    <3>1. e[3] = "implements"
      BY <2>3 DEF Implements, Edge
    <3> QED
      BY <2>1, <3>1
  <2> QED
    BY <2>1, <2>2, <2>3 DEF Recorded
<1> QED
  BY <1>10, <1>11 DEF nearest

\* Every call on a receiver of known type leads to the nearest declaration of the method,
\* and nowhere else, for any repository, hierarchy and order of files: the search through
\* the bases reaches whatever is above a type and stops at the first level that declares
\* it, and nothing a run does later takes the edge away or adds another.
THEOREM CallsReachTheNearest == ResolverSpec => []CallsTheNearest
BY NearestIsReached, RecordedHolds, PTL

-----------------------------------------------------------------------------
(* Interfaces.                                                             *)

\* A place is a declaration of its file, whose path its id tells; of one id is one name.
LEMMA APlace ==
    ASSUME Reads, NEW p \in Places
    PROVE  /\ p[1] \in DOMAIN files /\ files[p[1]] \in repo
           /\ Node(p).file = files[p[1]].path /\ Node(p).file # "external"
           /\ p \in PlacesOf(files[p[1]].family)
           /\ D(p).id.q \in Seq(ToSet(D(p).id.q))
           /\ \A q \in Places : Node(p) = Node(q) => files[p[1]] = files[q[1]] /\ D(p).name = D(q).name
<1>1. ASSUME NEW x \in Places
      PROVE  /\ x[1] \in DOMAIN files /\ files[x[1]] \in repo /\ x[2] \in DOMAIN files[x[1]].nodes
             /\ D(x) = files[x[1]].nodes[x[2]] /\ Node(x) = D(x).id
             /\ Node(x).file = files[x[1]].path
  <2>1. x[1] \in DOMAIN files /\ x[2] \in DOMAIN files[x[1]].nodes
    BY DEF Places
  <2>2. files[x[1]] \in repo
    BY <2>1 DEF Reads
  <2>3. D(x) = files[x[1]].nodes[x[2]] /\ Node(x) = D(x).id
    BY DEF D, Node
  <2> QED
    BY <2>1, <2>2, <2>3 DEF Reads, Sound
<1>2. Node(p).file # "external" /\ D(p).id.q \in Seq(ToSet(D(p).id.q))
  <2>1. \A f \in repo : f.path # "external" /\ \A i \in DOMAIN f.nodes : f.nodes[i].id.q \in Seq(ToSet(f.nodes[i].id.q))
    BY DEF Reads, Sound
  <2> QED
    BY <1>1, <2>1
<1>3. p \in PlacesOf(files[p[1]].family)
  BY DEF PlacesOf
<1>4. ASSUME NEW q \in Places, Node(p) = Node(q) PROVE files[p[1]] = files[q[1]] /\ D(p).name = D(q).name
  <2>1. /\ \A f, g \in repo : f.path = g.path => f = g
        /\ \A f \in repo : \A i, j \in DOMAIN f.nodes : f.nodes[i].id = f.nodes[j].id => f.nodes[i].name = f.nodes[j].name
    BY DEF Reads, Sound
  <2>2. files[p[1]].path = files[q[1]].path
    BY <1>1, <1>4
  <2>3. files[p[1]] = files[q[1]]
    BY <1>1, <2>1, <2>2
  <2> DEFINE f == files[p[1]]
  <2>4. f \in repo /\ p[2] \in DOMAIN f.nodes /\ q[2] \in DOMAIN f.nodes /\ D(p) = f.nodes[p[2]] /\ D(q) = f.nodes[q[2]]
        /\ f.nodes[p[2]].id = f.nodes[q[2]].id
    BY <1>1, <1>4, <2>3
  <2> HIDE DEF f
  <2>5. D(p).name = D(q).name
    BY <2>1, <2>4
  <2> QED
    BY <2>3, <2>5
<1> QED
  BY <1>1, <1>2, <1>3, <1>4

\* A reference of kind implements leads to declarations of the name it gives.
LEMMA NamesAreKept ==
    ASSUME Reads, NEW path, NEW ref, ref.kind = "implements",
           NEW t \in Decide(RulesFor(path, ref)).to
    PROVE  t.file = "external" \/ \E p \in Places : t = Node(p) /\ D(p).name = ref.name
<1> DEFINE Named(rule) == \A x \in rule.to : \E p \in Places : x = Node(p) /\ D(p).name = ref.name
<1>1. ASSUME NEW where PROVE \A p \in InFile(where, ref.name) : p \in Places /\ D(p).name = ref.name
  BY DEF InFile, LastOf
<1>2. \A p \in Bound(path, ref.name) : p \in Places /\ D(p).name = ref.name
  <2>1. ASSUME NEW i, NEW p \in Binds(path, i, ref.name) PROVE \E j : p \in InFile(files[j].path, ref.name)
    BY DEF Binds
  <2>2. ASSUME NEW p \in Bound(path, ref.name) PROVE \E i : p \in Binds(path, i, ref.name)
    BY DEF Bound
  <2> QED
    BY <1>1, <2>1, <2>2
<1>3. \A p \in Single(ByName(FamilyOf(path), ref.name)) : p \in Places /\ D(p).name = ref.name
  BY DEF Single, ByName, PlacesOf
<1> DEFINE rules == BaseRules(path, ref)
<1>4. RulesFor(path, ref) = rules
  BY DEF RulesFor
<1>5. DOMAIN rules = 1 .. 4 /\ rules[4] = Unknown(<<ref.name>>)
  BY DEF BaseRules
<1>6. /\ rules[1].to = {Node(p) : p \in Bound(path, ref.name)}
      /\ rules[2].to = {Node(p) : p \in InFile(path, ref.name)}
      /\ rules[3].to = {Node(p) : p \in Single(ByName(FamilyOf(path), ref.name))}
  BY DEF BaseRules, Found, Rule
<1>7. Named(rules[1]) /\ Named(rules[2]) /\ Named(rules[3])
  BY <1>1, <1>2, <1>3, <1>6
<1>8. Outside(rules[4])
  BY <1>5, UnknownIsOutside
<1> HIDE DEF rules, Named
<1>9. PICK i \in 1 .. 4 : Decide(rules) = rules[i]
  BY <1>5, <1>8, OneRuleDecides DEF Outside
<1>10. Named(rules[i]) \/ Outside(rules[i])
  <2>1. i = 1 \/ i = 2 \/ i = 3 \/ i = 4
    OBVIOUS
  <2> QED
    BY <2>1, <1>7, <1>8
<1> QED
  BY <1>4, <1>9, <1>10 DEF Named, Outside

\* What is declared for a type, and what files list for it.
DeclaredFor(fam, type) ==
    {Tail(D(p).id.q) : p \in {x \in PlacesOf(fam) : /\ D(x).kind = "method" /\ Len(D(x).id.q) >= 2
                                                    /\ Head(D(x).id.q) = type}}
ListedFor(fam, type) == {<<m[2]>> : m \in {x \in UNION {f.methods : f \in FilesOf(fam)} : x[1] = type}}
MustHave(fam, iface) == DeclaredFor(fam, iface) \cup ListedFor(fam, iface)
Has(fam, class) ==
    LET up == TypeBases(fam)
    IN ListedFor(fam, class) \cup UNION {DeclaredFor(fam, t) : t \in Above(up, class, Cardinality(AllBases(up)))}

\* What a class must have to implement an interface.
LEMMA RequiredIs ==
    ASSUME NEW fam, NEW iface
    PROVE  Required(fam, iface) = MustHave(fam, iface)
<1>1. UNION {{<<m[2]>> : m \in {x \in f.methods : x[1] = iface}} : f \in FilesOf(fam)} = ListedFor(fam, iface)
  BY DEF ListedFor
<1> QED
  BY <1>1 DEF Required, MustHave, DeclaredFor

\* The code finds a method for a class just if the class has it.
LEMMA HasIs ==
    ASSUME Reads, NEW fam, NEW class, NEW iface, NEW m \in MustHave(fam, iface)
    PROVE  (MethodInHierarchy(fam, class, m) # {} \/ InFacts(fam, class, m)) <=> m \in Has(fam, class)
<1> DEFINE up == TypeBases(fam)
           c == Cardinality(AllBases(up))
           all == Above(up, class, c)
<1>1. IsBases(up)
  BY TypeBasesAreBases
<1>2. c \in Nat
  BY <1>1, FS_CardinalityType DEF IsBases
<1>3. \E S : m \in Seq(S)
  <2>1. CASE m \in DeclaredFor(fam, iface)
    <3>1. PICK p \in PlacesOf(fam) : Len(D(p).id.q) >= 2 /\ m = Tail(D(p).id.q)
      BY <2>1 DEF DeclaredFor
    <3>2. D(p).id.q \in Seq(ToSet(D(p).id.q))
      BY APlace DEF PlacesOf
    <3>3. D(p).id.q # <<>>
      BY <3>1, <3>2
    <3>5. \A S : \A s \in Seq(S) : s # <<>> => Tail(s) \in Seq(S)
      OBVIOUS
    <3>4. Tail(D(p).id.q) \in Seq(ToSet(D(p).id.q))
      BY <3>2, <3>3, <3>5
    <3> QED
      BY <3>1, <3>4
  <2>2. CASE m \in ListedFor(fam, iface)
    <3>1. PICK x : m = <<x[2]>>
      BY <2>2 DEF ListedFor
    <3>2. m \in Seq({x[2]})
      BY <3>1
    <3> QED
      BY <3>2
  <2> QED
    BY <2>1, <2>2 DEF MustHave
\* A listed method is listed by some file.
<1>4. InFacts(fam, class, m) <=> m \in ListedFor(fam, class)
  <2>1. ASSUME NEW f \in FilesOf(fam), <<class>> \o m \in f.methods PROVE m \in ListedFor(fam, class)
    <3> DEFINE x == <<class>> \o m
    <3>1. PICK S : m \in Seq(S)
      BY <1>3
    <3>2. Len(x) = 1 + Len(m) /\ x[1] = class /\ Len(m) \in Nat /\ \A i \in 1 .. Len(m) : x[i + 1] = m[i]
      BY <3>1
    <3>3. f \in repo
      BY DEF FilesOf, InFamily, Reads
    <3> HIDE DEF x
    <3>4. x = <<x[1], x[2]>>
      BY <2>1, <3>3 DEF Reads, Sound, x
    <3>5. Len(x) = 2
      BY <3>4
    <3>6. Len(m) = 1
      <4>1. Len(x) = 1 + Len(m) /\ Len(m) \in Nat
        BY <3>2
      <4> DEFINE l == Len(m)
      <4>2. 2 = 1 + l /\ l \in Nat
        BY <3>5, <4>1
      <4> HIDE DEF l
      <4>3. l = 1
        BY <4>2
      <4> QED
        BY <4>3 DEF l
    <3>7. m[1] = x[2]
      BY <3>2, <3>6
    <3>8. m = <<x[2]>>
      BY <3>1, <3>6, <3>7
    <3> QED
      BY <2>1, <3>2, <3>8 DEF ListedFor, x
  <2>2. ASSUME m \in ListedFor(fam, class) PROVE InFacts(fam, class, m)
    <3>6. PICK f \in FilesOf(fam) : \E x \in f.methods : x[1] = class /\ m = <<x[2]>>
      BY <2>2 DEF ListedFor
    <3>1. PICK x \in f.methods : x[1] = class /\ m = <<x[2]>>
      BY <3>6
    <3>2. f \in repo
      BY DEF FilesOf, InFamily, Reads
    <3>3. x = <<x[1], x[2]>>
      BY <3>1, <3>2 DEF Reads, Sound
    <3>4. <<class>> \o <<x[2]>> = <<class, x[2]>>
      <4> DEFINE y == x[2]
                 two == <<class>> \o <<y>>
      <4>1. <<class>> \in Seq({class, y}) /\ <<y>> \in Seq({class, y}) /\ Len(<<class>>) = 1 /\ Len(<<y>>) = 1
        OBVIOUS
      <4>2. two \in Seq({class, y}) /\ Len(two) = 2 /\ two[1] = class /\ two[2] = y
        BY <4>1
      <4> HIDE DEF two, y
      <4>3. two = <<class, y>>
        BY <4>2
      <4> QED
        BY <4>3 DEF two, y
    <3>5. <<class>> \o m = x
      BY <3>1, <3>3, <3>4
    <3> QED
      BY <3>1, <3>5 DEF InFacts
  <2> QED
    BY <2>1, <2>2 DEF InFacts
<1>5. \A t : Method(fam, t, m) # {} <=> m \in DeclaredFor(fam, t)
  <2> SUFFICES ASSUME NEW t PROVE Method(fam, t, m) # {} <=> m \in DeclaredFor(fam, t)
    OBVIOUS
  <2>1. Declared(fam, t, m) # {} <=> m \in DeclaredFor(fam, t)
    BY DEF Declared, DeclaredFor
  <2> QED
    BY <2>1, MethodIs
<1>6. MethodInHierarchy(fam, class, m) # {} <=> \E t \in all : m \in DeclaredFor(fam, t)
  <2>1. MethodInHierarchy(fam, class, m) # {} <=> LevelsWith(fam, class, m) # {}
    BY HierarchyIsNearest
  <2>2. ASSUME NEW k \in LevelsWith(fam, class, m) PROVE \E t \in all : m \in DeclaredFor(fam, t)
    <3>1. k \in 0 .. c /\ \E t \in Above(up, class, k) : Method(fam, t, m) # {}
      BY DEF LevelsWith
    <3>2. Above(up, class, k) \subseteq all
      <4> HIDE DEF up, c
      <4> QED
        BY <1>1, <1>2, <3>1, AboveGrows DEF all
    <3> QED
      BY <1>5, <3>1, <3>2
  <2>3. ASSUME NEW t \in all, m \in DeclaredFor(fam, t) PROVE c \in LevelsWith(fam, class, m)
    <3>1. c \in 0 .. c /\ Method(fam, t, m) # {}
      BY <1>2, <1>5, <2>3
    <3> QED
      BY <3>1 DEF LevelsWith
  <2> QED
    BY <2>1, <2>2, <2>3
<1> QED
  BY <1>4, <1>6 DEF Has

\* What they say of the classes and the interfaces.
LEMMA MethodsDecide == Inv /\ Recorded => ImplementsIsStructural
<1> SUFFICES ASSUME Inv, Recorded, todo = {}, NEW i \in Places, NEW c \in Places,
                    D(i).kind = "interface", D(c).kind = "class", files[c[1]].family = files[i[1]].family,
                    Node(i) # Node(c), MustHave(files[i[1]].family, D(i).name) # {},
                    ~ \E ref \in RefsOf(Node(c).file) : /\ ref.kind = "implements" /\ ref.from = Node(c)
                                                        /\ ref.name = D(i).name
             PROVE  (\E e \in DOMAIN edges : e[1] = Node(c) /\ e[2] = Node(i) /\ e[3] = "implements")
                       <=> MustHave(files[i[1]].family, D(i).name) \subseteq Has(files[i[1]].family, D(c).name)
  BY ZenonT(60) DEF ImplementsIsStructural, MustHave, Has, DeclaredFor, ListedFor
<1> DEFINE fam == files[i[1]].family
           must == MustHave(fam, D(i).name)
<1>1. Reads
  BY DEF Recorded, Places
<1>2. i \in PlacesOf(fam) /\ c \in PlacesOf(fam) /\ fam \in ToSet(Families)
  <2>1. i \in PlacesOf(fam) /\ c \in PlacesOf(files[c[1]].family) /\ files[i[1]] \in repo
    BY <1>1, APlace
  <2> QED
    BY <1>1, <2>1 DEF Reads, Sound
<1>3. PICK h \in DOMAIN Families : Families[h] = fam
  BY <1>2 DEF ToSet
<1>4. HasAll(fam, D(c).name, D(i).name) <=> must \subseteq Has(fam, D(c).name)
  <2>1. \A m \in must : (MethodInHierarchy(fam, D(c).name, m) # {} \/ InFacts(fam, D(c).name, m)) <=> m \in Has(fam, D(c).name)
    BY <1>1, HasIs
  <2>2. Required(fam, D(i).name) = must /\ must # {}
    BY RequiredIs
  <2> HIDE DEF must, fam
  <2> QED
    BY <2>1, <2>2 DEF HasAll
<1>5. ASSUME must \subseteq Has(fam, D(c).name)
      PROVE  \E e \in DOMAIN edges : e[1] = Node(c) /\ e[2] = Node(i) /\ e[3] = "implements"
  <2>1. <<c, i>> \in Matching(fam)
    BY <1>2, <1>4, <1>5 DEF Matching
  <2>2. Edge(Node(c), Node(i), "implements", D(c).line) \in Implements(fam)
    BY <2>1 DEF Implements
  <2>3. <<h, Len(files) + 1, 1>> \in InterfaceJobs(files)
    BY DEF InterfaceJobs
  <2>4. Implements(fam) \subseteq DOMAIN edges
    BY <1>3, <2>3 DEF Recorded
  <2> QED
    BY <2>2, <2>4 DEF Edge
<1>6. ASSUME NEW e \in DOMAIN edges, e[1] = Node(c), e[2] = Node(i), e[3] = "implements"
      PROVE  must \subseteq Has(fam, D(c).name)
  <2>1. CASE \E x \in RefJobs(files) : e \in OfRef(x[2], x[3])
    <3>1. PICK x \in RefJobs(files) : e \in OfRef(x[2], x[3])
      BY <2>1
    <3> DEFINE r == files[x[2]].refs[x[3]]
    <3>2. x[2] \in DOMAIN files /\ x[3] \in DOMAIN files[x[2]].refs
      BY SMTT(40) DEF RefJobs
    <3>3. PICK t \in Decide(RulesFor(files[x[2]].path, r)).to : e = Edge(r.from, t, r.kind, r.line)
      BY SMTT(40), <3>1 DEF OfRef
    <3>4. r.from = Node(c) /\ r.kind = "implements" /\ t = Node(i)
      BY <1>6, <3>3 DEF Edge
    <3>5. Node(i).file # "external"
      BY SMTT(40), <1>1, APlace
    <3>6. PICK p \in Places : t = Node(p) /\ D(p).name = r.name
      BY <1>1, <3>3, <3>4, <3>5, NamesAreKept
    <3>7. D(i).name = r.name
      BY <1>1, <3>4, <3>6, APlace
    <3>8. r \in RefsOf(Node(c).file)
      <4>1. r.from.file = files[x[2]].path
        BY <1>1, <3>2, RefsAreOfOneFile
      <4>2. File(files[x[2]].path) = files[x[2]]
        BY <1>1, <3>2, FamilyOfAFile
      <4> QED
        BY <3>2, <3>4, <4>1, <4>2 DEF RefsOf, ToSet
    <3> QED
      BY <3>4, <3>7, <3>8
  <2>2. CASE \E g \in DOMAIN Families : e \in Implements(Families[g])
    <3>1. PICK g \in DOMAIN Families : e \in Implements(Families[g])
      BY <2>2
    <3>2. PICK y \in Matching(Families[g]) : e = Edge(Node(y[1]), Node(y[2]), "implements", D(y[1]).line)
      BY <3>1 DEF Implements
    <3>3. Node(y[1]) = Node(c) /\ Node(y[2]) = Node(i)
      BY <1>6, <3>2 DEF Edge
    <3>4. y[1] \in PlacesOf(Families[g]) /\ y[2] \in PlacesOf(Families[g])
          /\ HasAll(Families[g], D(y[1]).name, D(y[2]).name)
      BY DEF Matching
    <3>5. y[1] \in Places /\ files[y[1][1]].family = Families[g] /\ y[2] \in Places
      BY <3>4 DEF PlacesOf
    <3>6. files[y[1][1]] = files[c[1]] /\ D(y[1]).name = D(c).name /\ D(y[2]).name = D(i).name
      BY <1>1, <3>3, <3>5, APlace
    <3>7. Families[g] = fam
      BY <3>5, <3>6
    <3> QED
      BY <1>4, <3>4, <3>6, <3>7
  <2> QED
    BY SMTT(40), <2>1, <2>2 DEF Recorded
<1> QED
  BY <1>5, <1>6

\* Interfaces are implemented by the classes that have their methods, and by no others.
THEOREM InterfacesAreStructural == ResolverSpec => []ImplementsIsStructural
BY MethodsDecide, RecordedHolds, PTL

-----------------------------------------------------------------------------
(* The graph.                                                              *)

\* What the invariant says of the answers.
LEMMA AnswersAreWhole == Inv => GraphIsWhole
<1> SUFFICES ASSUME Inv, NEW a \in answers, NEW e \in DOMAIN a.edges
             PROVE  /\ {e[1], e[2]} \subseteq a.nodes
                    /\ e[2].file = "external" <=> a.edges[e] = "unknown"
                    /\ e[2].file # "external" => FamilyOf(e[1].file) = FamilyOf(e[2].file)
  BY DEF GraphIsWhole
<1>1. Reads /\ AnswerHolds(a)
  BY DEF Inv
<1>2. PICK outside : Linked(a.edges, outside)
  BY <1>1 DEF AnswerHolds
<1>3. ASSUME NEW n, IsThere(n)
      PROVE  n.file # "external" /\ \E f \in repo : f.path = n.file /\ FamilyOf(n.file) = f.family
  <2>1. PICK f \in repo : \E i \in DOMAIN f.nodes : n = f.nodes[i].id
    BY <1>3 DEF IsThere
  <2>2. n.file = f.path /\ f.path # "external"
    BY <1>1, <2>1 DEF Reads, Sound
  <2>3. PICK j \in DOMAIN files : files[j] = f
    BY <1>1 DEF Reads
  <2> QED
    BY <1>1, <2>2, <2>3, FamilyOfAFile
<1>4. /\ IsThere(e[1])
      /\ \/ IsThere(e[2]) /\ SameFamily(e[1], e[2]) /\ a.edges[e] # "unknown"
         \/ e[2] \in outside /\ e[2].file = "external" /\ a.edges[e] = "unknown"
  BY <1>2 DEF Linked
<1>5. IsThere(e[2]) /\ SameFamily(e[1], e[2]) => FamilyOf(e[1].file) = FamilyOf(e[2].file)
  BY <1>3, <1>4 DEF SameFamily
<1> QED
  BY <1>1, <1>3, <1>4, <1>5 DEF AnswerHolds

\* The graph of every run holds together: for any repository, families and order of files,
\* both ends of an edge have a node, an edge leads to an external symbol just if it is of
\* unknown confidence, and no edge leads from one language into another.
THEOREM GraphStaysWhole == ResolverSpec => []GraphIsWhole
BY AnswersAreWhole, InvHolds, PTL

-----------------------------------------------------------------------------
(* Where the order of the files does not matter.  A spot is a declaration  *)
(* of a file, as <<file, j>>: a place, whatever the position of its file.  *)

\* A run reads each file once.
ReadsOnce == Reads /\ \A i, j \in DOMAIN files : files[i] = files[j] => i = j

Spots(fs) == UNION {{<<f, j>> : j \in DOMAIN f.nodes} : f \in fs}
SpotsOf(fs, fam) == {s \in Spots(fs) : s[1].family = fam}
At(p) == <<files[p[1]], p[2]>>
Seen(S) == {At(p) : p \in S}
NodeAt(s) == s[1].nodes[s[2]]
LastSpot(T) == {s \in T : \A t \in T \ {s} : t[2] < s[2]}

\* What names lead to.
SpotsNamed(fs, fam, name) == {s \in SpotsOf(fs, fam) : NodeAt(s).name = name}
MethodSpots(fs, fam, name) == {s \in SpotsNamed(fs, fam, name) : NodeAt(s).kind = "method"}
SpotInFile(fs, path, name) == LastSpot({s \in Spots(fs) : s[1].path = path /\ NodeAt(s).name = name})
MethodAt(s, type, m) ==
    NodeAt(s).kind = "method" /\ Len(NodeAt(s).id.q) >= 2 /\ Head(NodeAt(s).id.q) = type /\ Tail(NodeAt(s).id.q) = m
MethodSpot(fs, fam, type, m) == LastSpot({s \in SpotsOf(fs, fam) : MethodAt(s, type, m)})
TypeHasMethods(fs, fam, type) == \E s \in SpotsOf(fs, fam) : MethodAt(s, type, Tail(NodeAt(s).id.q))

\* An order of a repository has each of its files once.
LEMMA OrdersReadOnce == Sound(repo) /\ files \in Orders(repo) => ReadsOnce
<1> SUFFICES ASSUME Sound(repo), files \in Orders(repo) PROVE ReadsOnce
  OBVIOUS
<1> DEFINE n == Cardinality(repo)
<1>1. n \in Nat /\ IsFiniteSet(repo)
  BY FS_CardinalityType DEF Sound
<1>2. IsFiniteSet(1 .. n) /\ Cardinality(1 .. n) = n
  BY <1>1, FS_Interval
<1>3. files \in [1 .. n -> repo] /\ \A f \in repo : \E i \in 1 .. n : files[i] = f
  BY DEF Orders
<1> HIDE DEF n
<1>4. files \in Surjection(1 .. n, repo)
  BY <1>3 DEF Surjection
<1>5. files \in Injection(1 .. n, repo)
  BY <1>2, <1>4, FS_Surjection DEF n
<1>6. Reads
  BY <1>1, <1>3 DEF Reads
<1> QED
  BY <1>3, <1>5, <1>6 DEF ReadsOnce, Injection, IsInjective

\* Each place is a spot of its own, and each spot is one.
LEMMA PlacesAreSpots ==
    ReadsOnce => /\ \A p \in Places : /\ At(p) \in Spots(repo) /\ At(p) = <<files[p[1]], p[2]>> /\ p[1] \in DOMAIN files
                                      /\ p = <<p[1], p[2]>> /\ D(p) = NodeAt(At(p)) /\ p[2] \in Nat /\ p[1] \in Nat
                 /\ \A s \in Spots(repo) : \E p \in Places : At(p) = s
                 /\ \A p, q \in Places : At(p) = At(q) => p = q
<1> SUFFICES ASSUME ReadsOnce
             PROVE  /\ \A p \in Places : /\ At(p) \in Spots(repo) /\ At(p) = <<files[p[1]], p[2]>> /\ p[1] \in DOMAIN files
                                      /\ p = <<p[1], p[2]>> /\ D(p) = NodeAt(At(p)) /\ p[2] \in Nat /\ p[1] \in Nat
                    /\ \A s \in Spots(repo) : \E p \in Places : At(p) = s
                    /\ \A p, q \in Places : At(p) = At(q) => p = q
  OBVIOUS
<1>1. PICK n \in Nat : files \in [1 .. n -> repo] /\ \A f \in repo : \E i \in DOMAIN files : files[i] = f
  BY DEF ReadsOnce, Reads
<1>2. ASSUME NEW p \in Places
      PROVE  /\ At(p) \in Spots(repo) /\ At(p) = <<files[p[1]], p[2]>> /\ p[1] \in DOMAIN files
             /\ p = <<p[1], p[2]>> /\ D(p) = NodeAt(At(p)) /\ p[2] \in Nat /\ p[1] \in Nat
  <2>1. p = <<p[1], p[2]>> /\ p[1] \in DOMAIN files /\ p[2] \in DOMAIN files[p[1]].nodes
    BY DEF Places
  <2>2. files[p[1]] \in repo
    BY <1>1, <2>1
  <2>3. At(p) \in Spots(repo)
    BY <2>1, <2>2 DEF Spots, At
  <2>4. D(p) = NodeAt(At(p))
    BY DEF D, NodeAt, At
  <2>5. files[p[1]].nodes \in Seq(ToSet(files[p[1]].nodes))
    BY <2>2 DEF ReadsOnce, Reads, Sound
  <2>6. p[2] \in Nat /\ p[1] \in Nat
    BY <1>1, <2>1, <2>5
  <2> QED
    BY <2>1, <2>3, <2>4, <2>6 DEF At
<1>3. ASSUME NEW s \in Spots(repo) PROVE \E p \in Places : At(p) = s
  <2>0. PICK f \in repo : s \in {<<f, j>> : j \in DOMAIN f.nodes}
    BY DEF Spots
  <2>1. PICK j \in DOMAIN f.nodes : s = <<f, j>>
    BY <2>0
  <2>2. PICK i \in DOMAIN files : files[i] = f
    BY <1>1
  <2>3. <<i, j>> \in Places
    BY <2>2 DEF Places
  <2>4. At(<<i, j>>) = s
    BY <2>1, <2>2 DEF At
  <2> QED
    BY <2>3, <2>4
<1>4. ASSUME NEW p \in Places, NEW q \in Places, At(p) = At(q) PROVE p = q
  <2>1. files[p[1]] = files[q[1]] /\ p[2] = q[2]
    BY <1>4, <1>2
  <2>2. p[1] = q[1]
    BY <1>2, <2>1 DEF ReadsOnce
  <2> QED
    BY <1>2, <2>1, <2>2
<1> QED
  BY <1>2, <1>3, <1>4

\* The files in any order are those of the repository.
LEMMA TheFiles ==
    ReadsOnce => /\ ToSet(files) = repo
                 /\ \A fam : FilesOf(fam) = {f \in repo : f.family = fam}
                 /\ \A fam, j : j \in InFamily(fam) <=> j \in DOMAIN files /\ files[j].family = fam
                 /\ \A j \in DOMAIN files : files[j] \in repo
                 /\ \A f \in repo : \E j \in DOMAIN files : files[j] = f
BY DEF ReadsOnce, Reads, FilesOf, InFamily, ToSet

\* The places of a family, a name or a type, seen as spots, depend on the repository alone.
LEMMA SeenPlaces ==
    ReadsOnce => /\ Seen(Places) = Spots(repo)
                 /\ \A fam : Seen(PlacesOf(fam)) = SpotsOf(repo, fam)
                 /\ \A fam, name : Seen(ByName(fam, name)) = SpotsNamed(repo, fam, name)
                 /\ \A fam, name : Seen(MethodsNamed(fam, name)) = MethodSpots(repo, fam, name)
                 /\ \A fam, type : HasMethods(fam, type) <=> TypeHasMethods(repo, fam, type)
<1> SUFFICES ASSUME ReadsOnce
             PROVE  /\ Seen(Places) = Spots(repo)
                    /\ \A fam : Seen(PlacesOf(fam)) = SpotsOf(repo, fam)
                    /\ \A fam, name : Seen(ByName(fam, name)) = SpotsNamed(repo, fam, name)
                    /\ \A fam, name : Seen(MethodsNamed(fam, name)) = MethodSpots(repo, fam, name)
                    /\ \A fam, type : HasMethods(fam, type) <=> TypeHasMethods(repo, fam, type)
  OBVIOUS
<1>1. /\ \A p \in Places : At(p) \in Spots(repo) /\ At(p) = <<files[p[1]], p[2]>> /\ D(p) = NodeAt(At(p))
      /\ \A s \in Spots(repo) : \E p \in Places : At(p) = s
  BY PlacesAreSpots
<1>2. Seen(Places) = Spots(repo)
  BY <1>1 DEF Seen
<1>3. \A fam : \A p \in Places : p \in PlacesOf(fam) <=> At(p) \in SpotsOf(repo, fam)
  BY <1>1 DEF PlacesOf, SpotsOf
<1>4. \A fam : PlacesOf(fam) \subseteq Places /\ SpotsOf(repo, fam) \subseteq Spots(repo)
  BY DEF PlacesOf, SpotsOf
<1>5. \A fam : Seen(PlacesOf(fam)) = SpotsOf(repo, fam)
  BY <1>1, <1>3, <1>4 DEF Seen
<1>6. \A fam, name : Seen(ByName(fam, name)) = SpotsNamed(repo, fam, name)
  BY <1>1, <1>3, <1>4 DEF Seen, ByName, SpotsNamed
<1>7. \A fam, name : Seen(MethodsNamed(fam, name)) = MethodSpots(repo, fam, name)
  BY <1>1, <1>3, <1>4 DEF Seen, ByName, MethodsNamed, SpotsNamed, MethodSpots
<1>8. \A fam, type : HasMethods(fam, type) <=> TypeHasMethods(repo, fam, type)
  BY <1>1, <1>3, <1>4 DEF HasMethods, TypeHasMethods, MethodAt
<1> QED
  BY <1>2, <1>5, <1>6, <1>7, <1>8

\* The last of places in one file.
LEMMA LastInAFile ==
    ReadsOnce => \A S \in SUBSET Places : (\A p, q \in S : p[1] = q[1]) => Seen(LastOf(S)) = LastSpot(Seen(S))
<1> SUFFICES ASSUME ReadsOnce, NEW S \in SUBSET Places, \A p, q \in S : p[1] = q[1]
             PROVE  Seen(LastOf(S)) = LastSpot(Seen(S))
  OBVIOUS
<1>1. \A p \in S : At(p)[2] = p[2] /\ p[2] \in Nat /\ p[1] \in Nat
  BY PlacesAreSpots
<1>2. \A p, q \in S : At(p) = At(q) => p = q
  BY PlacesAreSpots
<1>3. \A p, q \in S : Before(p, q) <=> p[2] < q[2]
  BY <1>1 DEF Before
<1>4. ASSUME NEW p \in S PROVE p \in LastOf(S) <=> At(p) \in LastSpot(Seen(S))
  <2>1. At(p) \in Seen(S)
    BY DEF Seen
  <2>2. \A t \in Seen(S) \ {At(p)} : \E q \in S \ {p} : t = At(q)
    BY DEF Seen
  <2>3. \A q \in S \ {p} : At(q) \in Seen(S) \ {At(p)}
    BY <1>2 DEF Seen
  <2> QED
    BY <1>1, <1>3, <2>1, <2>2, <2>3 DEF LastOf, LastSpot
<1> QED
  BY <1>4 DEF Seen, LastOf, LastSpot

\* So does the declaration a name has in a file: its last one there.
LEMMA SeenInFile ==
    ReadsOnce => \A path, name : Seen(InFile(path, name)) =
                                   SpotInFile(repo, path, name)
<1> SUFFICES ASSUME ReadsOnce, NEW path, NEW name
             PROVE  Seen(InFile(path, name)) = SpotInFile(repo, path, name)
  OBVIOUS
<1> DEFINE S == {p \in Places : files[p[1]].path = path /\ D(p).name = name}
           T == {s \in Spots(repo) : s[1].path = path /\ NodeAt(s).name = name}
<1>1. InFile(path, name) = LastOf(S)
  BY DEF InFile
<1>2. Seen(S) = T
  <2>1. /\ \A p \in Places : At(p) \in Spots(repo) /\ At(p)[1] = files[p[1]] /\ D(p) = NodeAt(At(p))
        /\ \A s \in Spots(repo) : \E p \in Places : At(p) = s
    BY PlacesAreSpots
  <2> QED
    BY <2>1 DEF Seen
<1>3. \A p, q \in S : p[1] = q[1]
  <2> SUFFICES ASSUME NEW p \in S, NEW q \in S PROVE p[1] = q[1]
    OBVIOUS
  <2>1. p[1] \in DOMAIN files /\ q[1] \in DOMAIN files
    BY PlacesAreSpots
  <2>2. files[p[1]] = files[q[1]]
    BY <2>1 DEF ReadsOnce, Reads, Sound
  <2> QED
    BY <2>1, <2>2 DEF ReadsOnce
<1>4. S \in SUBSET Places
  OBVIOUS
<1> HIDE DEF S, T
<1>5. Seen(LastOf(S)) = LastSpot(Seen(S))
  BY <1>3, <1>4, LastInAFile
<1> QED
  BY <1>1, <1>2, <1>5 DEF T, SpotInFile

\* A list of two or more is its head and its tail.
LEMMA HeadAndTail ==
    ASSUME NEW x, x \in Seq(ToSet(x)), NEW y, y \in Seq(ToSet(y)), Len(x) >= 2, Len(y) >= 2,
           Head(x) = Head(y), Tail(x) = Tail(y)
    PROVE  x = y
<1>1. \A B : \A s \in Seq(B) : /\ Len(s) \in Nat /\ s = [i \in 1 .. Len(s) |-> s[i]]
                               /\ Len(s) >= 2 => Len(Tail(s)) = Len(s) - 1
                               /\ Len(s) >= 2 => \A i \in 1 .. Len(s) - 1 : Tail(s)[i] = s[i + 1]
                               /\ Head(s) = s[1]
  OBVIOUS
<1>2. /\ Len(x) \in Nat /\ x = [i \in 1 .. Len(x) |-> x[i]]
      /\ Len(Tail(x)) = Len(x) - 1 /\ Head(x) = x[1]
      /\ \A i \in 1 .. Len(x) - 1 : Tail(x)[i] = x[i + 1]
  BY <1>1
<1>3. /\ Len(y) \in Nat /\ y = [i \in 1 .. Len(y) |-> y[i]]
      /\ Len(Tail(y)) = Len(y) - 1 /\ Head(y) = y[1]
      /\ \A i \in 1 .. Len(y) - 1 : Tail(y)[i] = y[i + 1]
  BY <1>1
<1>4. Len(x) = Len(y)
  <2>1. Len(x) \in Nat /\ Len(y) \in Nat /\ Len(Tail(x)) = Len(x) - 1 /\ Len(Tail(y)) = Len(y) - 1
    BY ZenonT(40), <1>2, <1>3
  <2>2. Len(x) - 1 = Len(y) - 1
    BY <2>1, Zenon
  <2> QED
    BY SMTT(40), <2>1, <2>2
<1>5. ASSUME NEW i \in 1 .. Len(x) PROVE x[i] = y[i]
  <2>1. CASE i = 1
    BY ZenonT(40), <1>2, <1>3, <2>1
  <2>2. CASE i # 1
    <3>1. i - 1 \in 1 .. Len(x) - 1 /\ (i - 1) + 1 = i
      BY <1>2, <2>2
    <3> QED
      BY <1>2, <1>3, <1>4, <3>1
  <2> QED
    BY SMTT(40), <2>1, <2>2
<1> QED
  BY <1>2, <1>3, <1>4, <1>5

\* So does the method of a type, which is declared in one file only.
LEMMA SeenMethods ==
    ReadsOnce /\ HasOneHome(repo) =>
       \A fam, type, m : Seen(Method(fam, type, m)) = MethodSpot(repo, fam, type, m)
<1> SUFFICES ASSUME ReadsOnce, HasOneHome(repo), NEW fam, NEW type, NEW m
             PROVE  Seen(Method(fam, type, m)) = MethodSpot(repo, fam, type, m)
  OBVIOUS
<1> DEFINE S == {p \in PlacesOf(fam) : /\ D(p).kind = "method" /\ Len(D(p).id.q) >= 2
                                       /\ Head(D(p).id.q) = type /\ Tail(D(p).id.q) = m}
           T == {s \in SpotsOf(repo, fam) : MethodAt(s, type, m)}
<1>1. Method(fam, type, m) = LastOf(S)
  BY DEF Method
<1>4. S \in SUBSET Places
  BY DEF PlacesOf
<1>2. Seen(S) = T
  <2>1. /\ \A p \in Places : At(p) \in Spots(repo) /\ At(p)[1] = files[p[1]] /\ D(p) = NodeAt(At(p))
        /\ \A s \in Spots(repo) : \E p \in Places : At(p) = s
    BY PlacesAreSpots
  <2> QED
    BY <2>1 DEF Seen, PlacesOf, SpotsOf, MethodAt
<1>3. \A p, q \in S : p[1] = q[1]
  <2> SUFFICES ASSUME NEW p \in S, NEW q \in S PROVE p[1] = q[1]
    OBVIOUS
  <2>1. p[1] \in DOMAIN files /\ q[1] \in DOMAIN files
    BY SMTT(40), <1>4, PlacesAreSpots
  <2>2. files[p[1]] \in repo /\ files[q[1]] \in repo /\ files[p[1]].family = fam /\ files[q[1]].family = fam
    BY <2>1, TheFiles DEF PlacesOf
  <2>3. p[2] \in DOMAIN files[p[1]].nodes /\ q[2] \in DOMAIN files[q[1]].nodes
        /\ D(p) = files[p[1]].nodes[p[2]] /\ D(q) = files[q[1]].nodes[q[2]]
    BY SMTT(40) DEF PlacesOf, Places, D
  <2>4. D(p).id.q = D(q).id.q
    <3>0. \A f \in repo : \A i \in DOMAIN f.nodes : f.nodes[i].id.q \in Seq(ToSet(f.nodes[i].id.q))
      BY DEF ReadsOnce, Reads, Sound
    <3>1. D(p).id.q \in Seq(ToSet(D(p).id.q)) /\ D(q).id.q \in Seq(ToSet(D(q).id.q))
      BY <2>2, <2>3, <3>0
    <3>2. Len(D(p).id.q) >= 2 /\ Len(D(q).id.q) >= 2 /\ Head(D(p).id.q) = Head(D(q).id.q) /\ Tail(D(p).id.q) = Tail(D(q).id.q)
      OBVIOUS
    <3> HIDE DEF S
    <3> QED
      BY <3>1, <3>2, HeadAndTail
  <2>5. files[p[1]] = files[q[1]]
    <3>1. \A f, g \in repo : f # g /\ f.family = g.family =>
            \A i \in DOMAIN f.nodes, j \in DOMAIN g.nodes :
               f.nodes[i].kind = "method" /\ g.nodes[j].kind = "method" => f.nodes[i].id.q # g.nodes[j].id.q
      BY DEF HasOneHome
    <3>2. D(p).kind = "method" /\ D(q).kind = "method"
      OBVIOUS
    <3> QED
      BY ZenonT(40), <2>2, <2>3, <2>4, <3>1, <3>2
  <2> QED
    BY <2>1, <2>5 DEF ReadsOnce
<1> HIDE DEF S, T
<1>5. Seen(LastOf(S)) = LastSpot(Seen(S))
  BY <1>3, <1>4, LastInAFile
<1> QED
  BY <1>1, <1>2, <1>5 DEF T, MethodSpot

\* There are finitely many declarations.
LEMMA PlacesAreFinite == ReadsOnce => IsFiniteSet(Places)
<1> SUFFICES ASSUME ReadsOnce PROVE IsFiniteSet(Places)
  OBVIOUS
<1>1. PICK n \in Nat : files \in [1 .. n -> repo]
  BY DEF ReadsOnce, Reads
<1> DEFINE row(i) == [j \in DOMAIN files[i].nodes |-> <<i, j>>]
           rows == [i \in 1 .. n |-> {<<i, j>> : j \in DOMAIN files[i].nodes}]
<1>2. \A k \in Nat : IsFiniteSet(1 .. k)
  BY FS_Interval
<1>3. ASSUME NEW i \in 1 .. n PROVE IsFiniteSet({<<i, j>> : j \in DOMAIN files[i].nodes})
  <2>1. files[i].nodes \in Seq(ToSet(files[i].nodes))
    BY <1>1 DEF ReadsOnce, Reads, Sound
  <2>2. IsFiniteSet(DOMAIN files[i].nodes)
    BY <1>2, <2>1
  <2>3. DOMAIN row(i) = DOMAIN files[i].nodes /\ row(i) = [j \in DOMAIN files[i].nodes |-> row(i)[j]]
    OBVIOUS
  <2>4. {row(i)[j] : j \in DOMAIN files[i].nodes} = {<<i, j>> : j \in DOMAIN files[i].nodes}
    OBVIOUS
  <2> HIDE DEF row
  <2>5. IsFiniteSet({row(i)[j] : j \in DOMAIN files[i].nodes})
    BY <2>2, <2>3, ImagesAreFinite
  <2> QED
    BY <2>4, <2>5
<1>4. IsFiniteSet({rows[i] : i \in 1 .. n})
  <2>1. DOMAIN rows = 1 .. n /\ rows = [i \in 1 .. n |-> rows[i]]
    OBVIOUS
  <2> HIDE DEF rows
  <2> QED
    BY <1>2, <2>1, ImagesAreFinite
<1>5. \A T \in {rows[i] : i \in 1 .. n} : IsFiniteSet(T)
  BY <1>3
<1>6. Places = UNION {rows[i] : i \in 1 .. n}
  BY <1>1 DEF Places
<1> HIDE DEF rows
<1> QED
  BY <1>4, <1>5, <1>6, FS_UNION

\* As many places are seen as there are.
LEMMA AsManySeen == ReadsOnce => \A S \in SUBSET Places : Cardinality(Seen(S)) = Cardinality(S)
<1> SUFFICES ASSUME ReadsOnce, NEW S \in SUBSET Places PROVE Cardinality(Seen(S)) = Cardinality(S)
  OBVIOUS
<1> DEFINE f == [p \in S |-> At(p)]
<1>1. IsFiniteSet(S)
  BY PlacesAreFinite, FS_Subset
<1>2. \A p, q \in S : At(p) = At(q) => p = q
  BY PlacesAreSpots
<1>3. f \in [S -> Seen(S)] /\ \A t \in Seen(S) : \E p \in S : f[p] = t
  BY DEF Seen
<1>4. f \in Bijection(S, Seen(S))
  BY <1>2, <1>3 DEF Bijection, Injection, Surjection, IsInjective
<1>5. ExistsBijection(S, Seen(S))
  BY <1>4 DEF ExistsBijection
<1> QED
  BY <1>1, <1>5, FS_Bijection

\* Two orders of one repository, before and after a step, with the same modules found.
Reordered ==
    /\ ReadsOnce /\ ReadsOnce' /\ DOMAIN files' = DOMAIN files
    /\ HasOneHome(repo) /\ repo' = repo /\ pick' = pick

\* The files of a family and of a path are the same.
LEMMA FilesAgain ==
    ASSUME Reordered
    PROVE  /\ \A fam : FilesOf(fam)' = FilesOf(fam)
           /\ \A path : File(path)' = File(path)
           /\ \A path : FamilyOf(path)' = FamilyOf(path)
<1>1. (ToSet(files) = repo /\ \A fam : FilesOf(fam) = {f \in repo : f.family = fam})'
  BY TheFiles, PTL DEF Reordered
<1>2. ToSet(files) = repo /\ \A fam : FilesOf(fam) = {f \in repo : f.family = fam}
  BY TheFiles DEF Reordered
<1>3. repo' = repo
  BY DEF Reordered
<1>4. ToSet(files') = ToSet(files)
  BY <1>1, <1>2, <1>3
<1>5. \A fam : FilesOf(fam)' = FilesOf(fam)
  BY <1>1, <1>2, <1>3
<1>6. \A path : File(path)' = File(path)
  BY <1>4 DEF File
<1>7. \A path : FamilyOf(path)' = FamilyOf(path)
  BY <1>6 DEF FamilyOf
<1> QED
  BY <1>5, <1>6, <1>7

\* The same declarations are found by name, in a file or a family, and for a type.
LEMMA DeclarationsAgain ==
    ASSUME Reordered
    PROVE  /\ Seen(Places)' = Seen(Places)
           /\ \A fam : Seen(PlacesOf(fam))' = Seen(PlacesOf(fam))
           /\ \A path, name : Seen(InFile(path, name))' = Seen(InFile(path, name))
           /\ \A fam, name : Seen(ByName(fam, name))' = Seen(ByName(fam, name))
           /\ \A fam, name : Seen(MethodsNamed(fam, name))' = Seen(MethodsNamed(fam, name))
           /\ \A fam, type, m : Seen(Method(fam, type, m))' = Seen(Method(fam, type, m))
           /\ \A fam, type : HasMethods(fam, type)' <=> HasMethods(fam, type)
<1>1. ReadsOnce /\ ReadsOnce' /\ HasOneHome(repo) /\ (HasOneHome(repo))' /\ repo' = repo
  BY DEF Reordered
<1>2. /\ Seen(Places) = Spots(repo)
      /\ \A fam : Seen(PlacesOf(fam)) = SpotsOf(repo, fam)
      /\ \A fam, name : Seen(ByName(fam, name)) = SpotsNamed(repo, fam, name)
      /\ \A fam, name : Seen(MethodsNamed(fam, name)) = MethodSpots(repo, fam, name)
      /\ \A fam, type : HasMethods(fam, type) <=> TypeHasMethods(repo, fam, type)
  BY <1>1, SeenPlaces
<1>3. (/\ Seen(Places) = Spots(repo)
       /\ \A fam : Seen(PlacesOf(fam)) = SpotsOf(repo, fam)
       /\ \A fam, name : Seen(ByName(fam, name)) = SpotsNamed(repo, fam, name)
       /\ \A fam, name : Seen(MethodsNamed(fam, name)) = MethodSpots(repo, fam, name)
       /\ \A fam, type : HasMethods(fam, type) <=> TypeHasMethods(repo, fam, type))'
  BY <1>1, SeenPlaces, PTL
<1>4. \A path, name : Seen(InFile(path, name)) = SpotInFile(repo, path, name)
  BY <1>1, SeenInFile
<1>5. (\A path, name : Seen(InFile(path, name)) = SpotInFile(repo, path, name))'
  BY <1>1, SeenInFile, PTL
<1>6. \A fam, type, m : Seen(Method(fam, type, m)) = MethodSpot(repo, fam, type, m)
  BY <1>1, SeenMethods
<1>7. (\A fam, type, m : Seen(Method(fam, type, m)) = MethodSpot(repo, fam, type, m))'
  BY <1>1, SeenMethods, PTL
<1> QED
  BY <1>1, <1>2, <1>3, <1>4, <1>5, <1>6, <1>7

\* Of lists one after the other of which one at most has elements, that one remains.
LEMMA OneOfTheLists ==
    ASSUME NEW B, NEW seqs, NEW n \in Nat, seqs \in [1 .. n -> Seq(B)], NEW j \in 0 .. n,
           \A i \in 1 .. n : i # j => seqs[i] = <<>>
    PROVE  FlattenSeq(seqs) = IF j = 0 THEN <<>> ELSE seqs[j]
<1>1. PICK f : Grows(f, n, seqs, B) /\ f[n] = FlattenSeq(seqs)
  BY FlattenGrows
<1>2. /\ f[0] = <<>> /\ f \in [0 .. n -> Seq(B)]
      /\ \A i \in 1 .. n : f[i] = f[i - 1] \o seqs[i]
  BY <1>1 DEF Grows
<1> DEFINE one == IF j = 0 THEN <<>> ELSE seqs[j]
           T == {k \in 0 .. n : f[k] = IF k < j THEN <<>> ELSE one}
<1>3. one \in Seq(B)
  OBVIOUS
<1>4. 0 \in T
  BY <1>2
<1>5. ASSUME NEW k \in 1 .. n, k - 1 \in T PROVE k \in T
  <2>1. f[k] = f[k - 1] \o seqs[k]
    BY <1>2
  <2>2. f[k - 1] = IF k - 1 < j THEN <<>> ELSE one
    BY <1>5
  <2>3. CASE k = j
    <3>1. f[k - 1] = <<>> /\ seqs[k] = one /\ ~ (k < j)
      BY <2>2, <2>3
    <3> HIDE DEF one
    <3>2. f[k] = one
      BY <2>1, <3>1, <1>3
    <3> QED
      BY <3>1, <3>2
  <2>4. CASE k # j
    <3>1. seqs[k] = <<>> /\ f[k - 1] \in Seq(B)
      <4>1. k - 1 \in 0 .. n
        OBVIOUS
      <4>2. f[k - 1] \in Seq(B)
        BY <1>2, <4>1
      <4>3. seqs[k] = <<>>
        BY <2>4
      <4> QED
        BY <4>2, <4>3
    <3>3. k - 1 < j <=> k < j
      BY <2>4
    <3>2. f[k] = f[k - 1]
      BY <2>1, <3>1
    <3> QED
      BY <2>2, <3>3, <3>2
  <2> QED
    BY <2>3, <2>4
<1>6. 0 .. n \subseteq T
  <2> HIDE DEF T
  <2> QED
    BY <1>4, <1>5, StepByStep
<1>7. n \in T /\ ~ (n < j)
  BY <1>6
<1> QED
  BY <1>1, <1>7

\* The list a type has in one of the files, of which one at most has one.
TheList(fs, fam, type) ==
    LET with == {f \in fs : f.family = fam /\ BasesIn(f.bases, type) # <<>>}
    IN IF with = {} THEN <<>> ELSE BasesIn((CHOOSE f \in with : TRUE).bases, type)
BasesOf(fs, fam) == [type \in UNION {DOMAIN f.bases : f \in {g \in fs : g.family = fam}} |-> TheList(fs, fam, type)]

\* The bases of types depend on the repository alone, as one file lists those of a type.
LEMMA BasesOnce == ReadsOnce /\ HasOneHome(repo) => \A fam : TypeBases(fam) = BasesOf(repo, fam)
<1> SUFFICES ASSUME ReadsOnce, HasOneHome(repo), NEW fam PROVE TypeBases(fam) = BasesOf(repo, fam)
  OBVIOUS
<1> DEFINE lists(type) == [j \in DOMAIN files |-> IF j \in InFamily(fam) THEN BasesIn(files[j].bases, type) ELSE <<>>]
           U == UNION {DOMAIN f.bases : f \in FilesOf(fam)}
<1>1. PICK n \in Nat : files \in [1 .. n -> repo]
  BY DEF ReadsOnce, Reads
<1>2. FilesOf(fam) = {f \in repo : f.family = fam}
  BY TheFiles
<1>3. ASSUME NEW type PROVE FlattenSeq(lists(type)) = TheList(repo, fam, type)
  <2> DEFINE with == {f \in repo : f.family = fam /\ BasesIn(f.bases, type) # <<>>}
  <2>1. \A i \in 1 .. n : lists(type)[i] # <<>> => files[i] \in with /\ lists(type)[i] = BasesIn(files[i].bases, type)
    BY <1>1, TheFiles
  <2>2. \A f, g \in with : f = g
    <3> SUFFICES ASSUME NEW f \in with, NEW g \in with, f # g PROVE FALSE
      OBVIOUS
    <3>1. type \in DOMAIN f.bases /\ type \in DOMAIN g.bases /\ f.bases[type] # <<>> /\ g.bases[type] # <<>>
      BY DEF BasesIn
    <3> QED
      BY <3>1 DEF HasOneHome
  <2>3. \E B : lists(type) \in [1 .. n -> Seq(B)]
    <3> DEFINE B == UNION {ToSet(BasesIn(files[j].bases, type)) : j \in DOMAIN files}
    <3>1. ASSUME NEW j \in 1 .. n PROVE lists(type)[j] \in Seq(B)
      <4>1. files[j] \in repo
        BY <1>1
      <4>2. \A t \in DOMAIN files[j].bases : files[j].bases[t] \in Seq(ToSet(files[j].bases[t]))
        BY <4>1 DEF ReadsOnce, Reads, Sound
      <4>3. <<>> \in Seq(ToSet(<<>>))
        OBVIOUS
      <4>4. BasesIn(files[j].bases, type) \in Seq(ToSet(BasesIn(files[j].bases, type)))
        BY <4>2, <4>3 DEF BasesIn
      <4>5. ToSet(BasesIn(files[j].bases, type)) \subseteq B
        BY <1>1
      <4> HIDE DEF B
      <4>6. BasesIn(files[j].bases, type) \in Seq(B) /\ <<>> \in Seq(B)
        BY <4>4, <4>5
      <4> QED
        BY <1>1, <4>6
    <3>2. lists(type) = [j \in 1 .. n |-> lists(type)[j]]
      BY <1>1
    <3> HIDE DEF lists, B
    <3>3. lists(type) \in [1 .. n -> Seq(B)]
      BY <3>1, <3>2
    <3> QED
      BY <3>3
  <2>4. TheList(repo, fam, type) = IF with = {} THEN <<>> ELSE BasesIn((CHOOSE f \in with : TRUE).bases, type)
    BY DEF TheList
  <2>5. \A f \in with : \E j \in 1 .. n : files[j] = f /\ lists(type)[j] = BasesIn(f.bases, type)
    <3> SUFFICES ASSUME NEW f \in with PROVE \E j \in 1 .. n : files[j] = f /\ lists(type)[j] = BasesIn(f.bases, type)
      OBVIOUS
    <3>1. PICK j \in DOMAIN files : files[j] = f
      BY TheFiles
    <3>2. j \in InFamily(fam) /\ j \in 1 .. n
      BY <1>1, <3>1, TheFiles
    <3> QED
      BY <1>1, <3>1, <3>2
  <2>6. PICK B : lists(type) \in [1 .. n -> Seq(B)]
    BY <2>3
  <2>7. CASE with = {}
    <3> HIDE DEF lists
    <3>1. \A i \in 1 .. n : lists(type)[i] = <<>>
      BY <2>1, <2>7
    <3>2. FlattenSeq(lists(type)) = <<>>
      <4>1. 0 \in 0 .. n
        OBVIOUS
      <4> QED
        BY <2>6, <3>1, <4>1, OneOfTheLists
    <3> QED
      BY <2>4, <2>7, <3>2
  <2>8. CASE with # {}
    <3> DEFINE f == CHOOSE g \in with : TRUE
    <3>1. f \in with
      BY <2>8
    <3>2. PICK j \in 1 .. n : files[j] = f /\ lists(type)[j] = BasesIn(f.bases, type)
      BY <2>5, <3>1
    <3>3. \A i \in 1 .. n : i # j => lists(type)[i] = <<>>
      <4> SUFFICES ASSUME NEW i \in 1 .. n, lists(type)[i] # <<>> PROVE i = j
        OBVIOUS
      <4>1. files[i] = files[j]
        BY <2>1, <2>2, <3>1, <3>2
      <4> QED
        BY <1>1, <4>1 DEF ReadsOnce
    <3> HIDE DEF lists, f
    <3>4. FlattenSeq(lists(type)) = lists(type)[j]
      <4>1. j \in 0 .. n /\ j # 0
        OBVIOUS
      <4> QED
        BY <2>6, <3>3, <4>1, OneOfTheLists
    <3> QED
      BY <2>4, <2>8, <3>2, <3>4 DEF f
  <2> QED
    BY <2>7, <2>8
<1>4. TypeBases(fam) = [type \in U |-> FlattenSeq(lists(type))]
  BY DEF TypeBases
<1> HIDE DEF lists
<1>5. TypeBases(fam) = [type \in U |-> TheList(repo, fam, type)]
  BY <1>3, <1>4
<1> QED
  BY <1>2, <1>5 DEF BasesOf

\* The type of a field.
FieldsIn(f, type, field) == {x \in f.fields : x.type = type /\ x.field = field}
FieldOf(fs, fam, type, field) ==
    LET with == {f \in fs : f.family = fam /\ FieldsIn(f, type, field) # {}}
    IN IF with = {} THEN NoType ELSE (CHOOSE x \in FieldsIn((CHOOSE f \in with : TRUE), type, field) : TRUE).is

\* So does the type of a field, which one file declares.
LEMMA FieldOnce ==
    ReadsOnce /\ HasOneHome(repo) => \A fam, type, field : Field(fam, type, field) = FieldOf(repo, fam, type, field)
<1> SUFFICES ASSUME ReadsOnce, HasOneHome(repo), NEW fam, NEW type, NEW field
             PROVE  Field(fam, type, field) = FieldOf(repo, fam, type, field)
  OBVIOUS
<1> DEFINE having == {j \in InFamily(fam) : FieldsIn(files[j], type, field) # {}}
           with == {f \in repo : f.family = fam /\ FieldsIn(f, type, field) # {}}
<1>1. Field(fam, type, field) = IF having = {} THEN NoType ELSE (CHOOSE x \in FieldsIn(files[Max(having)], type, field) : TRUE).is
  BY Zenon DEF Field, FieldsIn
<1>2. FieldOf(repo, fam, type, field) = IF with = {} THEN NoType ELSE (CHOOSE x \in FieldsIn((CHOOSE f \in with : TRUE), type, field) : TRUE).is
  BY Zenon DEF FieldOf
<1>3. \A j : j \in having <=> j \in DOMAIN files /\ files[j] \in with
  BY TheFiles
<1>4. \A f \in with : \E j \in having : files[j] = f
  BY <1>3, TheFiles
<1>5. \A f, g \in with : f = g
  <2> SUFFICES ASSUME NEW f \in with, NEW g \in with, f # g PROVE FALSE
    OBVIOUS
  <2>1. PICK x \in f.fields : x.type = type /\ x.field = field
    BY DEF FieldsIn
  <2>2. PICK y \in g.fields : y.type = type /\ y.field = field
    BY DEF FieldsIn
  <2>3. <<x.type, x.field>> = <<y.type, y.field>>
    BY <2>1, <2>2
  <2> QED
    BY <2>3 DEF HasOneHome
<1> HIDE DEF having, with
<1>6. CASE with = {}
  BY <1>1, <1>2, <1>3, <1>6
<1>7. CASE with # {}
  <2>1. PICK j \in having : TRUE
    BY <1>4, <1>7
  <2>2. j \in Nat
    BY <1>3 DEF ReadsOnce, Reads
  <2>3. having = {j}
    BY <1>3, <1>5 DEF ReadsOnce
  <2>4. Max(having) = j
    BY <2>2, <2>3 DEF Max
  <2>5. (CHOOSE f \in with : TRUE) = files[j]
    BY <1>3, <1>5, <1>7
  <2> QED
    BY <1>1, <1>2, <1>7, <2>3, <2>4, <2>5
<1> QED
  BY <1>6, <1>7

\* The bases, fields and methods of types are found the same.
LEMMA TypesAgain ==
    ASSUME Reordered
    PROVE  /\ \A fam : TypeBases(fam)' = TypeBases(fam)
           /\ \A fam, type, field : Field(fam, type, field)' = Field(fam, type, field)
<1>1. ReadsOnce /\ ReadsOnce' /\ HasOneHome(repo) /\ (HasOneHome(repo))' /\ repo' = repo
  BY DEF Reordered
<1>2. /\ \A fam : TypeBases(fam) = BasesOf(repo, fam)
      /\ \A fam, type, field : Field(fam, type, field) = FieldOf(repo, fam, type, field)
  BY <1>1, BasesOnce, FieldOnce
<1>3. (\A fam : TypeBases(fam) = BasesOf(repo, fam))'
  BY <1>1, BasesOnce, PTL
<1>4. (\A fam, type, field : Field(fam, type, field) = FieldOf(repo, fam, type, field))'
  BY <1>1, FieldOnce, PTL
<1> QED
  BY <1>1, <1>2, <1>3, <1>4

-----------------------------------------------------------------------------
(* Imports.                                                                *)

FilesAt(J) == {files[j] : j \in J}
OfModule(fs, fam, module) == {f \in fs : f.family = fam /\ f.module = module}

\* The files of a module are those of the repository.
LEMMA ModulesOnce ==
    ReadsOnce => /\ \A fam, module : FilesAt(ByModule(fam, module)) = OfModule(repo, fam, module)
                 /\ FilesAt({}) = {}
BY TheFiles DEF FilesAt, ByModule, OfModule

\* A module is one file.
LEMMA OneTarget ==
    ReadsOnce /\ HasOneHome(repo) => \A path, i : \A j, k \in Targets(path, i) : j = k
<1> SUFFICES ASSUME ReadsOnce, HasOneHome(repo), NEW path, NEW i, NEW j \in Targets(path, i), NEW k \in Targets(path, i)
             PROVE  j = k
  OBVIOUS
<1>1. PICK fam, module : j \in ByModule(fam, module) /\ k \in ByModule(fam, module)
  BY DEF Targets
<1>2. j \in DOMAIN files /\ k \in DOMAIN files /\ files[j].family = files[k].family /\ files[j].module = files[k].module
  BY <1>1, TheFiles DEF ByModule
<1>3. files[j] = files[k]
  BY <1>2, TheFiles DEF HasOneHome
<1> QED
  BY <1>2, <1>3 DEF ReadsOnce

\* An import is taken to the same file.
LEMMA TargetsAgain ==
    ASSUME Reordered
    PROVE  \A path, i : FilesAt(Targets(path, i))' = FilesAt(Targets(path, i))
<1> SUFFICES ASSUME NEW path, NEW i PROVE FilesAt(Targets(path, i))' = FilesAt(Targets(path, i))
  OBVIOUS
<1>1. \A fam : Modules(fam)' = Modules(fam)
  BY FilesAgain DEF Modules
<1>2. \A imp : Known(path, imp)' = Known(path, imp)
  BY <1>1, FilesAgain DEF Known
<1>3. \A fam, module : FilesAt(ByModule(fam, module)) = OfModule(repo, fam, module)
  BY ModulesOnce DEF Reordered
<1>4. (\A fam, module : FilesAt(ByModule(fam, module)) = OfModule(repo, fam, module))'
  BY ModulesOnce, PTL DEF Reordered
<1>5. \A fam, module : FilesAt(ByModule(fam, module))' = FilesAt(ByModule(fam, module))
  BY <1>3, <1>4 DEF Reordered
<1> DEFINE imp == File(path).imports[i]
           fam == FamilyOf(path)
           known == Known(path, imp)
           tried == imp.tries[Min(known)]
           near == pick[<<path, i>>]
           guessed == <<path, i>> \in DOMAIN pick
<1>6. imp' = imp /\ fam' = fam /\ near' = near /\ (guessed' <=> guessed)
  BY FilesAgain DEF Reordered
<1>7. known' = known
  <2> HIDE DEF imp
  <2> QED
    BY <1>2, <1>6
<1>8. tried' = tried
  BY <1>6, <1>7
<1>9. FilesAt(Targets(path, i)) = IF known # {} THEN FilesAt(ByModule(fam, tried))
                                  ELSE IF guessed THEN FilesAt(ByModule(fam, near)) ELSE FilesAt({})
  BY Zenon DEF Targets
<1>10. (FilesAt(Targets(path, i)) = IF known # {} THEN FilesAt(ByModule(fam, tried))
                                    ELSE IF guessed THEN FilesAt(ByModule(fam, near)) ELSE FilesAt({}))'
  BY Zenon DEF Targets
<1>11. FilesAt({}) = {} /\ FilesAt({})' = {}
  BY DEF FilesAt
<1> HIDE DEF imp, fam, known, tried, near, guessed
<1>12. FilesAt(ByModule(fam, tried))' = FilesAt(ByModule(fam, tried))
  BY <1>5, <1>6, <1>8
<1>13. FilesAt(ByModule(fam, near))' = FilesAt(ByModule(fam, near))
  BY <1>5, <1>6
<1> QED
  BY <1>6, <1>7, <1>9, <1>10, <1>11, <1>12, <1>13

\* What an import binds a name to, of the lists of spots with that name in each file it
\* may be taken to.
BoundBy(imp, lists, name) ==
    IF imp.wildcard THEN UNION {l \in lists : l # {} /\ \A s \in l : NodeAt(s).exported}
    ELSE IF name \in imp.names THEN UNION lists ELSE {}
SpotsIn(fs, name) == {Seen(InFile(f.path, name)) : f \in fs}

\* An import binds what the lists of its files hold.
BindsAlike ==
    \A path, i, name :
       Seen(Binds(path, i, name)) = BoundBy(File(path).imports[i], SpotsIn(FilesAt(Targets(path, i)), name), name)

\* What an import binds depends on the files it is taken to, whatever their positions.
LEMMA BindsOnce == ReadsOnce /\ HasOneHome(repo) => BindsAlike
<1> SUFFICES ASSUME ReadsOnce, HasOneHome(repo), NEW path, NEW i, NEW name
             PROVE  Seen(Binds(path, i, name)) = BoundBy(File(path).imports[i], SpotsIn(FilesAt(Targets(path, i)), name), name)
  BY DEF BindsAlike
<1> DEFINE imp == File(path).imports[i]
           In(j) == InFile(files[j].path, name)
           found == {j \in Targets(path, i) : In(j) # {} /\ (imp.wildcard => \A p \in In(j) : D(p).exported)}
           lists == SpotsIn(FilesAt(Targets(path, i)), name)
<1>1. Binds(path, i, name) = IF imp.wildcard THEN UNION {In(j) : j \in Latest(found)}
                             ELSE IF name \in imp.names THEN UNION {In(j) : j \in Earliest(found)} ELSE {}
  BY Zenon DEF Binds
<1>2. \A j, k \in Targets(path, i) : j = k
  BY OneTarget
<1>3. \A j \in Targets(path, i) : j \in Nat
  <2>1. \A j \in DOMAIN files : j \in Nat
    BY DEF ReadsOnce, Reads
  <2> QED
    BY <2>1, TargetsAreOfTheFamily, TheFiles
<1>4. Latest(found) = found /\ Earliest(found) = found
  <2>1. \A j \in found : j \in Nat /\ j <= j
    BY <1>3
  <2> QED
    BY <1>2, <2>1 DEF Latest, Earliest
<1>5. lists = {Seen(In(j)) : j \in Targets(path, i)}
  BY DEF SpotsIn, FilesAt
<1>6. \A j : \A p \in In(j) : D(p) = NodeAt(At(p))
  BY PlacesAreSpots DEF InFile, LastOf
<1>8. \A j : (Seen(In(j)) # {} <=> In(j) # {}) /\ ((\A s \in Seen(In(j)) : NodeAt(s).exported) <=> (\A p \in In(j) : D(p).exported))
  BY <1>6 DEF Seen
<1>9. Seen(Binds(path, i, name)) = IF imp.wildcard THEN UNION {Seen(In(j)) : j \in found}
                                   ELSE IF name \in imp.names THEN UNION {Seen(In(j)) : j \in found} ELSE {}
  <2>1. Seen(UNION {In(j) : j \in found}) = UNION {Seen(In(j)) : j \in found}
    <3> HIDE DEF In, found
    <3> QED
      BY DEF Seen
  <2>2. Seen({}) = {}
    BY DEF Seen
  <2> HIDE DEF imp, found, In
  <2> QED
    BY <1>1, <1>4, <2>1, <2>2
<1>10. CASE imp.wildcard
  <2>1. UNION {Seen(In(j)) : j \in found} = UNION {l \in lists : l # {} /\ \A s \in l : NodeAt(s).exported}
    <3>1. {Seen(In(j)) : j \in found} = {l \in lists : l # {} /\ \A s \in l : NodeAt(s).exported}
      <4> HIDE DEF lists, In, imp
      <4> QED
        BY <1>5, <1>8, <1>10
    <3> QED
      BY <3>1
  <2> QED
    BY <1>9, <1>10, <2>1 DEF BoundBy
<1>11. CASE ~ imp.wildcard
  <2>1. UNION {Seen(In(j)) : j \in found} = UNION lists
    <3> HIDE DEF lists, In, imp
    <3> QED
      BY <1>5, <1>8, <1>11
  <2> QED
    BY <1>9, <1>11, <2>1 DEF BoundBy
<1> QED
  BY <1>10, <1>11

\* An alias leads to the name in the one file its import is taken to.
AliasesAlike ==
    \A path, recv, name :
       Seen(ByAlias(path, recv, name)) =
          UNION {UNION SpotsIn(FilesAt(Targets(path, i)), name) :
                   i \in Latest({i \in DOMAIN File(path).imports :
                                   /\ ~ File(path).imports[i].wildcard /\ AliasOf(File(path).imports[i]) = recv
                                   /\ FilesAt(Targets(path, i)) # {}})}

\* What an alias leads to depends on them, too.
LEMMA ByAliasOnce == ReadsOnce /\ HasOneHome(repo) => AliasesAlike
<1> SUFFICES ASSUME ReadsOnce, HasOneHome(repo), NEW path, NEW recv, NEW name
             PROVE  Seen(ByAlias(path, recv, name)) =
                      UNION {UNION SpotsIn(FilesAt(Targets(path, i)), name) :
                               i \in Latest({i \in DOMAIN File(path).imports :
                                               /\ ~ File(path).imports[i].wildcard /\ AliasOf(File(path).imports[i]) = recv
                                               /\ FilesAt(Targets(path, i)) # {}})}
  BY DEF AliasesAlike
<1> DEFINE imps == File(path).imports
           having == {i \in DOMAIN imps : ~ imps[i].wildcard /\ AliasOf(imps[i]) = recv /\ Targets(path, i) # {}}
           with == {i \in DOMAIN imps : ~ imps[i].wildcard /\ AliasOf(imps[i]) = recv /\ FilesAt(Targets(path, i)) # {}}
           In(j) == InFile(files[j].path, name)
           first(i) == UNION {In(j) : j \in Earliest(Targets(path, i))}
<1>1. ByAlias(path, recv, name) = UNION {first(i) : i \in Latest(having)}
  BY Zenon DEF ByAlias
<1>2. \A i : Targets(path, i) # {} <=> FilesAt(Targets(path, i)) # {}
  BY DEF FilesAt
<1>3. having = with
  BY <1>2
<1>5. ASSUME NEW i PROVE Seen(first(i)) = UNION SpotsIn(FilesAt(Targets(path, i)), name)
  <2>1. \A j, k \in Targets(path, i) : j = k
    BY OneTarget
  <2>2. \A j \in Targets(path, i) : j \in Nat
    <3>1. \A j \in DOMAIN files : j \in Nat
      BY DEF ReadsOnce, Reads
    <3> QED
      BY <3>1, TargetsAreOfTheFamily, TheFiles
  <2>3. Earliest(Targets(path, i)) = Targets(path, i)
    BY <2>1, <2>2 DEF Earliest
  <2>4. Seen(UNION {In(j) : j \in Targets(path, i)}) = UNION {Seen(In(j)) : j \in Targets(path, i)}
    <3> HIDE DEF In
    <3> QED
      BY DEF Seen
  <2> QED
    BY <2>3, <2>4 DEF SpotsIn, FilesAt
<1> HIDE DEF first, having, with
<1>6. Seen(ByAlias(path, recv, name)) = UNION {Seen(first(i)) : i \in Latest(having)}
  BY <1>1 DEF Seen
<1>7. Seen(ByAlias(path, recv, name)) = UNION {UNION SpotsIn(FilesAt(Targets(path, i)), name) : i \in Latest(with)}
  BY <1>3, <1>5, <1>6
<1> QED
  BY <1>7 DEF with, imps

\* A name is bound to the same declarations, and an alias leads to the same.
LEMMA ImportsAgain ==
    ASSUME Reordered
    PROVE  /\ \A path, name : Seen(Bound(path, name))' = Seen(Bound(path, name))
           /\ \A path, recv, name : Seen(ByAlias(path, recv, name))' = Seen(ByAlias(path, recv, name))
<1>1. ReadsOnce /\ ReadsOnce' /\ HasOneHome(repo) /\ (HasOneHome(repo))'
  BY DEF Reordered
<1>2. /\ \A path : File(path)' = File(path)
      /\ \A path, i : FilesAt(Targets(path, i))' = FilesAt(Targets(path, i))
  BY FilesAgain, TargetsAgain
<1>3. \A fs, name : SpotsIn(fs, name)' = SpotsIn(fs, name)
  BY DeclarationsAgain DEF SpotsIn
<1>4. \A path, i, name : SpotsIn(FilesAt(Targets(path, i)), name)' = SpotsIn(FilesAt(Targets(path, i)), name)
  BY <1>2, <1>3
<1>8. (ReadsOnce /\ HasOneHome(repo))' => BindsAlike'
  BY BindsOnce, PTL
<1>9. (ReadsOnce /\ HasOneHome(repo))' => AliasesAlike'
  BY ByAliasOnce, PTL
<1>5. ASSUME NEW path, NEW i, NEW name PROVE Seen(Binds(path, i, name))' = Seen(Binds(path, i, name))
  <2> DEFINE imp == File(path).imports[i]
             lists == SpotsIn(FilesAt(Targets(path, i)), name)
  <2>1. Seen(Binds(path, i, name)) = BoundBy(imp, lists, name)
    BY <1>1, BindsOnce DEF BindsAlike
  <2>3. Seen(Binds(path, i, name))' = BoundBy(imp', lists', name)
    BY <1>1, <1>8 DEF BindsAlike
  <2>4. imp' = imp /\ lists' = lists
    BY <1>2, <1>4
  <2> HIDE DEF imp, lists
  <2> QED
    BY <2>1, <2>3, <2>4
<1>6. ASSUME NEW path, NEW name PROVE Seen(Bound(path, name))' = Seen(Bound(path, name))
  <2> DEFINE having == {i \in DOMAIN File(path).imports : Seen(Binds(path, i, name)) # {}}
  <2>1. Seen(Bound(path, name)) = UNION {Seen(Binds(path, i, name)) : i \in Latest(having)}
    <3>1. having = {i \in DOMAIN File(path).imports : Binds(path, i, name) # {}}
      BY DEF Seen
    <3>2. Bound(path, name) = UNION {Binds(path, i, name) : i \in Latest(having)}
      BY <3>1, Zenon DEF Bound
    <3> HIDE DEF having
    <3> QED
      BY <3>2 DEF Seen
  <2>2. (Seen(Bound(path, name)) = UNION {Seen(Binds(path, i, name)) : i \in Latest(having)})'
    <3>1. (having = {i \in DOMAIN File(path).imports : Binds(path, i, name) # {}})'
      BY DEF Seen
    <3>2. (Bound(path, name) = UNION {Binds(path, i, name) : i \in Latest(having)})'
      BY <3>1, Zenon DEF Bound
    <3> HIDE DEF having
    <3> QED
      BY <3>2 DEF Seen
  <2>3. having' = having
    BY <1>2, <1>5
  <2> HIDE DEF having
  <2>4. Latest(having)' = Latest(having)
    BY <2>3 DEF Latest
  <2> QED
    BY <1>5, <2>1, <2>2, <2>4
<1>7. ASSUME NEW path, NEW recv, NEW name PROVE Seen(ByAlias(path, recv, name))' = Seen(ByAlias(path, recv, name))
  <2> DEFINE imps == File(path).imports
             with == {i \in DOMAIN imps : ~ imps[i].wildcard /\ AliasOf(imps[i]) = recv /\ FilesAt(Targets(path, i)) # {}}
             lists(i) == SpotsIn(FilesAt(Targets(path, i)), name)
  <2>1. Seen(ByAlias(path, recv, name)) = UNION {UNION lists(i) : i \in Latest(with)}
    BY <1>1, ByAliasOnce DEF AliasesAlike
  <2>3. (Seen(ByAlias(path, recv, name)) = UNION {UNION lists(i) : i \in Latest(with)})'
    BY <1>1, <1>9 DEF AliasesAlike
  <2>4. with' = with
    BY <1>2 DEF AliasOf
  <2>5. \A i : lists(i)' = lists(i)
    BY <1>4
  <2> HIDE DEF with, lists
  <2>6. Latest(with)' = Latest(with)
    BY <2>4 DEF Latest
  <2> QED
    BY <2>1, <2>3, <2>5, <2>6
<1> QED
  BY <1>6, <1>7

-----------------------------------------------------------------------------
(* Types and rules.                                                        *)

\* The same methods are found for types and their bases.
LEMMA HierarchyAgain ==
    ASSUME Reordered
    PROVE  \A fam, type, m : Seen(MethodInHierarchy(fam, type, m))' = Seen(MethodInHierarchy(fam, type, m))
<1> SUFFICES ASSUME NEW fam, NEW type, NEW m
             PROVE  Seen(MethodInHierarchy(fam, type, m))' = Seen(MethodInHierarchy(fam, type, m))
  OBVIOUS
<1> DEFINE up == TypeBases(fam)
           M(t) == Method(fam, t, m)
           having == {b \in AllBases(up) : M(b) # {}}
           last == ToSet(UpTheBases(up, type, having))
<1>1. up' = up /\ \A t : Seen(M(t))' = Seen(M(t))
  BY TypesAgain, DeclarationsAgain
<1>2. MethodInHierarchy(fam, type, m) = IF M(type) # {} THEN M(type) ELSE UNION {M(t) : t \in last}
  BY Zenon DEF MethodInHierarchy
<1>3. (MethodInHierarchy(fam, type, m) = IF M(type) # {} THEN M(type) ELSE UNION {M(t) : t \in last})'
  BY Zenon DEF MethodInHierarchy
<1>4. \A t : (M(t) # {} <=> Seen(M(t)) # {}) /\ (M(t) # {} <=> Seen(M(t)) # {})'
  BY DEF Seen
<1>5. \A t : (M(t) # {})' <=> M(t) # {}
  BY <1>1, <1>4
<1>6. having' = having
  BY <1>1, <1>5
<1> HIDE DEF up, M, having
<1>7. last' = last
  BY <1>1, <1>6
<1> HIDE DEF last
<1>8. Seen(MethodInHierarchy(fam, type, m)) = IF M(type) # {} THEN Seen(M(type)) ELSE UNION {Seen(M(t)) : t \in last}
  BY <1>2 DEF Seen
<1>9. (Seen(MethodInHierarchy(fam, type, m)) = IF M(type) # {} THEN Seen(M(type)) ELSE UNION {Seen(M(t)) : t \in last})'
  BY <1>3 DEF Seen
<1> QED
  BY ZenonT(40), <1>1, <1>5, <1>7, <1>8, <1>9

\* The same receivers have the same types.
LEMMA ReceiversAgain ==
    ASSUME Reordered
    PROVE  \A from, recv : ReceiverType(from, recv)' = ReceiverType(from, recv)
BY FilesAgain, TypesAgain, DeclarationsAgain, ReceiversFollow

FoundAt(T, conf) == Rule({NodeAt(s).id : s \in T}, conf)
CandidatesAt(T, conf) == FoundAt(T, IF Cardinality(T) = 1 THEN conf ELSE "ambiguous")

\* A rule may as well be told the spots that are seen.
RulesSee ==
    \A S \in SUBSET Places : /\ \A conf : Found(S, conf) = FoundAt(Seen(S), conf)
                             /\ \A conf : Candidates(S, conf) = CandidatesAt(Seen(S), conf)
                             /\ Seen(Single(S)) = Single(Seen(S))

\* A rule finds of places what it finds of their spots.
LEMMA RulesDoSee == ReadsOnce => RulesSee
<1> SUFFICES ASSUME ReadsOnce, NEW S \in SUBSET Places
             PROVE  /\ \A conf : Found(S, conf) = FoundAt(Seen(S), conf)
                    /\ \A conf : Candidates(S, conf) = CandidatesAt(Seen(S), conf)
                    /\ Seen(Single(S)) = Single(Seen(S))
  BY DEF RulesSee
<1>1. \A p \in S : D(p) = NodeAt(At(p))
  BY PlacesAreSpots
<1>2. {Node(p) : p \in S} = {NodeAt(s).id : s \in Seen(S)}
  BY <1>1 DEF Node, Seen
<1>3. Cardinality(Seen(S)) = Cardinality(S)
  BY AsManySeen
<1>4. \A conf : Found(S, conf) = FoundAt(Seen(S), conf)
  BY <1>2 DEF Found, FoundAt
<1>5. \A conf : Candidates(S, conf) = CandidatesAt(Seen(S), conf)
  BY <1>3, <1>4 DEF Candidates, CandidatesAt
<1>6. Seen(Single(S)) = Single(Seen(S))
  BY <1>3 DEF Single, Seen
<1> QED
  BY <1>4, <1>5, <1>6

\* The lists of rules, told spots.
BaseSees(path, ref) ==
    << FoundAt(Seen(Bound(path, ref.name)), "exact"),
       FoundAt(Seen(InFile(path, ref.name)), "exact"),
       FoundAt(Single(Seen(ByName(FamilyOf(path), ref.name))), "exact"),
       Unknown(<<ref.name>>) >>
BareSees(path, ref) ==
    << FoundAt(Seen(InFile(path, ref.name)), "exact"),
       FoundAt(Seen(Bound(path, ref.name)), "exact"),
       CandidatesAt(Seen(ByName(FamilyOf(path), ref.name)), "name_match"),
       Unknown(<<ref.name>>) >>
ReceiverSees(path, ref) ==
    << CandidatesAt(IF ReceiverType(ref.from, ref.recv) = NoType THEN {}
                    ELSE Seen(MethodInHierarchy(FamilyOf(path), ReceiverType(ref.from, ref.recv), <<ref.name>>)), "exact"),
       FoundAt(Seen(ByAlias(path, ref.recv, ref.name)), "exact"),
       CandidatesAt(Seen(MethodsNamed(FamilyOf(path), ref.name)), "name_match"),
       Unknown(Append(ref.recv, ref.name)) >>
RulesAlike ==
    \A path, ref : /\ BaseRules(path, ref) = BaseSees(path, ref) /\ BareRules(path, ref) = BareSees(path, ref)
                   /\ ReceiverRules(path, ref) = ReceiverSees(path, ref)

\* So each list of rules is one of spots.
LEMMA RulesOnce == ReadsOnce => RulesAlike
<1> SUFFICES ASSUME ReadsOnce, NEW path, NEW ref
             PROVE  /\ BaseRules(path, ref) = BaseSees(path, ref) /\ BareRules(path, ref) = BareSees(path, ref)
                    /\ ReceiverRules(path, ref) = ReceiverSees(path, ref)
  BY DEF RulesAlike
<1>1. \A fam : PlacesOf(fam) \subseteq Places
  BY DEF PlacesOf
<1>2. /\ Bound(path, ref.name) \in SUBSET Places /\ ByAlias(path, ref.recv, ref.name) \in SUBSET Places
      /\ \A fam, type, m : MethodInHierarchy(fam, type, m) \in SUBSET Places
  BY <1>1, BoundIsDeclared, ByAliasIsDeclared, MethodIsDeclared DEF ReadsOnce
<1>3. /\ InFile(path, ref.name) \in SUBSET Places
      /\ \A fam : ByName(fam, ref.name) \in SUBSET Places /\ MethodsNamed(fam, ref.name) \in SUBSET Places
  BY <1>1 DEF InFile, LastOf, ByName, MethodsNamed
<1>4. \A S \in SUBSET Places : Single(S) \in SUBSET Places
  BY DEF Single
<1>5. \A S \in SUBSET Places : /\ \A conf : Found(S, conf) = FoundAt(Seen(S), conf)
                               /\ \A conf : Candidates(S, conf) = CandidatesAt(Seen(S), conf)
                               /\ Seen(Single(S)) = Single(Seen(S))
  BY RulesDoSee DEF RulesSee
<1>6. BaseRules(path, ref) = BaseSees(path, ref)
  BY <1>2, <1>3, <1>4, <1>5 DEF BaseRules, BaseSees
<1>7. BareRules(path, ref) = BareSees(path, ref)
  BY <1>2, <1>3, <1>5 DEF BareRules, BareSees
<1>8. ReceiverRules(path, ref) = ReceiverSees(path, ref)
  <2> DEFINE type == ReceiverType(ref.from, ref.recv)
             methods == IF type = NoType THEN {} ELSE MethodInHierarchy(FamilyOf(path), type, <<ref.name>>)
             spots == IF type = NoType THEN {} ELSE Seen(MethodInHierarchy(FamilyOf(path), type, <<ref.name>>))
  <2>1. methods \in SUBSET Places
    BY <1>2
  <2>2. Seen(methods) = spots
    BY DEF Seen
  <2>3. ReceiverRules(path, ref) = <<Candidates(methods, "exact"), Found(ByAlias(path, ref.recv, ref.name), "exact"),
                                     Candidates(MethodsNamed(FamilyOf(path), ref.name), "name_match"),
                                     Unknown(Append(ref.recv, ref.name))>>
    BY DEF ReceiverRules
  <2>4. ReceiverSees(path, ref) = <<CandidatesAt(spots, "exact"), FoundAt(Seen(ByAlias(path, ref.recv, ref.name)), "exact"),
                                     CandidatesAt(Seen(MethodsNamed(FamilyOf(path), ref.name)), "name_match"),
                                     Unknown(Append(ref.recv, ref.name))>>
    BY DEF ReceiverSees
  <2> HIDE DEF methods, spots
  <2>5. /\ Candidates(methods, "exact") = CandidatesAt(spots, "exact")
        /\ Found(ByAlias(path, ref.recv, ref.name), "exact") = FoundAt(Seen(ByAlias(path, ref.recv, ref.name)), "exact")
        /\ Candidates(MethodsNamed(FamilyOf(path), ref.name), "name_match")
             = CandidatesAt(Seen(MethodsNamed(FamilyOf(path), ref.name)), "name_match")
    BY <1>2, <1>3, <1>5, <2>1, <2>2
  <2> QED
    BY <2>3, <2>4, <2>5
<1> QED
  BY <1>6, <1>7, <1>8

\* The rules are the same for each reference, and so is what they decide.
LEMMA RulesAgain ==
    ASSUME Reordered
    PROVE  \A path, ref : Decide(RulesFor(path, ref))' = Decide(RulesFor(path, ref))
<1> SUFFICES ASSUME NEW path, NEW ref PROVE Decide(RulesFor(path, ref))' = Decide(RulesFor(path, ref))
  OBVIOUS
<1>0. ReadsOnce' => RulesAlike'
  BY RulesOnce, PTL
<1>1. RulesAlike /\ RulesAlike'
  BY <1>0, RulesOnce DEF Reordered
<1>2. /\ FamilyOf(path)' = FamilyOf(path) /\ ReceiverType(ref.from, ref.recv)' = ReceiverType(ref.from, ref.recv)
      /\ \A fam : Seen(ByName(fam, ref.name))' = Seen(ByName(fam, ref.name))
      /\ \A fam : Seen(MethodsNamed(fam, ref.name))' = Seen(MethodsNamed(fam, ref.name))
      /\ Seen(InFile(path, ref.name))' = Seen(InFile(path, ref.name))
      /\ Seen(Bound(path, ref.name))' = Seen(Bound(path, ref.name))
      /\ Seen(ByAlias(path, ref.recv, ref.name))' = Seen(ByAlias(path, ref.recv, ref.name))
      /\ \A fam, type : Seen(MethodInHierarchy(fam, type, <<ref.name>>))' = Seen(MethodInHierarchy(fam, type, <<ref.name>>))
  BY FilesAgain, ReceiversAgain, DeclarationsAgain, ImportsAgain, HierarchyAgain
<1>3. BaseSees(path, ref)' = BaseSees(path, ref)
  BY <1>2 DEF BaseSees, FoundAt, Rule, Single, Unknown, External
<1>4. BareSees(path, ref)' = BareSees(path, ref)
  BY <1>2 DEF BareSees, FoundAt, CandidatesAt, Rule, Unknown, External
<1>5. ReceiverSees(path, ref)' = ReceiverSees(path, ref)
  BY <1>2 DEF ReceiverSees, FoundAt, CandidatesAt, Rule, Unknown, External
<1>6. /\ BaseRules(path, ref)' = BaseRules(path, ref) /\ BareRules(path, ref)' = BareRules(path, ref)
      /\ ReceiverRules(path, ref)' = ReceiverRules(path, ref)
  BY <1>1, <1>3, <1>4, <1>5 DEF RulesAlike
<1>7. RulesFor(path, ref)' = RulesFor(path, ref)
  BY <1>6 DEF RulesFor
<1> QED
  BY <1>7 DEF Decide

-----------------------------------------------------------------------------
(* Interfaces.                                                             *)

\* What an interface requires, and what implements what, told spots.
RequiredAt(fs, fam, iface) ==
    {Tail(NodeAt(s).id.q) : s \in {t \in SpotsOf(fs, fam) : MethodAt(t, iface, Tail(NodeAt(t).id.q))}}
       \cup UNION {{<<m[2]>> : m \in {x \in f.methods : x[1] = iface}} : f \in {g \in fs : g.family = fam}}
MatchingAt(fs, fam, allOf(_, _)) ==
    {x \in SpotsOf(fs, fam) \X SpotsOf(fs, fam) :
       /\ NodeAt(x[1]).kind = "class" /\ NodeAt(x[2]).kind = "interface"
       /\ NodeAt(x[1]).id # NodeAt(x[2]).id
       /\ allOf(NodeAt(x[1]).name, NodeAt(x[2]).name)}
EdgeAt(x) == Edge(NodeAt(x[1]).id, NodeAt(x[2]).id, "implements", NodeAt(x[1]).line)
InterfacesAlike ==
    /\ \A fam, iface : Required(fam, iface) = RequiredAt(repo, fam, iface)
    /\ \A fam : LET all(c, i) == HasAll(fam, c, i) IN Implements(fam) = {EdgeAt(x) : x \in MatchingAt(repo, fam, all)}

\* The interfaces a class implements are found among the spots.
LEMMA InterfacesOnce == ReadsOnce => InterfacesAlike
<1> SUFFICES ASSUME ReadsOnce, NEW fam
             PROVE  /\ \A iface : Required(fam, iface) = RequiredAt(repo, fam, iface)
                    /\ LET all(c, i) == HasAll(fam, c, i) IN Implements(fam) = {EdgeAt(x) : x \in MatchingAt(repo, fam, all)}
  BY ZenonT(40) DEF InterfacesAlike
<1>1. \A p \in PlacesOf(fam) : At(p) \in SpotsOf(repo, fam) /\ D(p) = NodeAt(At(p)) /\ Node(p) = NodeAt(At(p)).id
  <2>1. PlacesOf(fam) \subseteq Places /\ Seen(PlacesOf(fam)) = SpotsOf(repo, fam)
    BY SeenPlaces DEF PlacesOf
  <2> QED
    BY <2>1, PlacesAreSpots DEF Seen, Node
<1>2. \A s \in SpotsOf(repo, fam) : \E p \in PlacesOf(fam) : s = At(p)
  BY SeenPlaces DEF Seen
<1>3. FilesOf(fam) = {f \in repo : f.family = fam}
  BY TheFiles
<1>4. ASSUME NEW iface PROVE Required(fam, iface) = RequiredAt(repo, fam, iface)
  <2>1. {Tail(D(p).id.q) : p \in {p \in PlacesOf(fam) : /\ D(p).kind = "method" /\ Len(D(p).id.q) >= 2
                                                        /\ Head(D(p).id.q) = iface}}
          = {Tail(NodeAt(s).id.q) : s \in {t \in SpotsOf(repo, fam) : MethodAt(t, iface, Tail(NodeAt(t).id.q))}}
    BY <1>1, <1>2 DEF MethodAt
  <2> QED
    BY <1>3, <2>1 DEF Required, RequiredAt
<1>5. LET all(c, i) == HasAll(fam, c, i) IN Implements(fam) = {EdgeAt(x) : x \in MatchingAt(repo, fam, all)}
  <2> DEFINE all(c, i) == HasAll(fam, c, i)
             M == MatchingAt(repo, fam, all)
  <2>1. ASSUME NEW x \in Matching(fam)
        PROVE  \E y \in M : Edge(Node(x[1]), Node(x[2]), "implements", D(x[1]).line) = EdgeAt(y)
    <3> DEFINE y == <<At(x[1]), At(x[2])>>
    <3>1. x[1] \in PlacesOf(fam) /\ x[2] \in PlacesOf(fam)
      BY DEF Matching
    <3>2. y \in M
      BY <1>1, <3>1 DEF Matching, MatchingAt
    <3>3. Edge(Node(x[1]), Node(x[2]), "implements", D(x[1]).line) = EdgeAt(y)
      BY <1>1, <3>1 DEF EdgeAt
    <3> QED
      BY ZenonT(40), <3>2, <3>3
  <2>2. ASSUME NEW y \in M
        PROVE  \E x \in Matching(fam) : Edge(Node(x[1]), Node(x[2]), "implements", D(x[1]).line) = EdgeAt(y)
    <3>1. y[1] \in SpotsOf(repo, fam) /\ y[2] \in SpotsOf(repo, fam)
      BY DEF MatchingAt
    <3>2. PICK p \in PlacesOf(fam) : y[1] = At(p)
      BY ZenonT(40), <1>2, <3>1
    <3>3. PICK q \in PlacesOf(fam) : y[2] = At(q)
      BY ZenonT(40), <1>2, <3>1
    <3>4. <<p, q>> \in Matching(fam)
      BY <1>1, <3>2, <3>3 DEF Matching, MatchingAt
    <3>5. Edge(Node(p), Node(q), "implements", D(p).line) = EdgeAt(y)
      BY ZenonT(40), <1>1, <3>2, <3>3 DEF EdgeAt
    <3> QED
      BY ZenonT(40), <3>4, <3>5
  <2>3. Implements(fam) = {EdgeAt(x) : x \in M}
    <3> HIDE DEF M
    <3> QED
      BY <2>1, <2>2 DEF Implements
  <2> QED
    BY ZenonT(40), <2>3
<1> QED
  BY ZenonT(40), <1>4, <1>5

\* The same classes implement the same interfaces.
LEMMA InterfacesAgain ==
    ASSUME Reordered
    PROVE  \A fam : Implements(fam)' = Implements(fam)
<1>1. ReadsOnce' => InterfacesAlike'
  BY InterfacesOnce, PTL
<1>2. InterfacesAlike /\ InterfacesAlike' /\ repo' = repo
  BY <1>1, InterfacesOnce DEF Reordered
<1>3. \A fam, iface : Required(fam, iface)' = Required(fam, iface)
  BY ZenonT(40), <1>2 DEF InterfacesAlike
<1>4. \A fam, class, m : (MethodInHierarchy(fam, class, m) # {})' <=> MethodInHierarchy(fam, class, m) # {}
  <2>1. \A fam, class, m : /\ MethodInHierarchy(fam, class, m) # {} <=> Seen(MethodInHierarchy(fam, class, m)) # {}
                           /\ (MethodInHierarchy(fam, class, m) # {} <=> Seen(MethodInHierarchy(fam, class, m)) # {})'
    BY DEF Seen
  <2> QED
    BY <2>1, HierarchyAgain
<1>5. \A fam, class, m : InFacts(fam, class, m)' <=> InFacts(fam, class, m)
  BY FilesAgain DEF InFacts
<1>6. \A fam, class, iface : HasAll(fam, class, iface)' <=> HasAll(fam, class, iface)
  BY <1>3, <1>4, <1>5 DEF HasAll
<1>7. ASSUME NEW fam PROVE Implements(fam)' = Implements(fam)
  <2> DEFINE all(c, i) == HasAll(fam, c, i)
  <2>1. Implements(fam) = {EdgeAt(x) : x \in MatchingAt(repo, fam, all)}
    BY ZenonT(40), <1>2 DEF InterfacesAlike
  <2>2. (Implements(fam) = {EdgeAt(x) : x \in MatchingAt(repo, fam, all)})'
    BY ZenonT(40), <1>2 DEF InterfacesAlike
  <2>3. MatchingAt(repo, fam, all)' = MatchingAt(repo, fam, all)
    BY <1>2, <1>6 DEF MatchingAt, SpotsOf, Spots
  <2> QED
    BY ZenonT(40), <2>1, <2>2, <2>3 DEF EdgeAt, Edge
<1> QED
  BY <1>7

-----------------------------------------------------------------------------
(* The graph of a run, in terms of the files and not of their order.       *)

\* What is decided of the k-th reference of a file: the edges, and the external nodes.
RuleAt(f, k) == Decide(RulesFor(f.path, f.refs[k]))
EdgesAt(f, k) == {Edge(f.refs[k].from, t, f.refs[k].kind, f.refs[k].line) : t \in RuleAt(f, k).to}
ForeignAt(f, k) == {t \in RuleAt(f, k).to : t.file = "external"}

OfARef(e) == \E f \in repo : \E k \in DOMAIN f.refs : e \in EdgesAt(f, k)
OfAnInterface(e) == \E i \in DOMAIN Families : e \in Implements(Families[i])
LastToGive(f, k, e) == e \in EdgesAt(f, k) /\ \A h \in DOMAIN f.refs : e \in EdgesAt(f, h) => h <= k

\* An answer has the declarations and external symbols as nodes, and each edge is as sure as
\* the last reference of its file that gives it, or exact if it is of an interface.
IsGraph(a) ==
    /\ a = [nodes |-> a.nodes, edges |-> a.edges]
    /\ \A n : n \in a.nodes <=> \/ n \in {Node(p) : p \in Places}
                                \/ \E f \in repo : \E k \in DOMAIN f.refs : n \in ForeignAt(f, k)
    /\ a.edges = [e \in DOMAIN a.edges |-> a.edges[e]]
    /\ \A e : e \in DOMAIN a.edges <=> OfARef(e) \/ OfAnInterface(e)
    /\ \A e \in DOMAIN a.edges :
          \/ OfAnInterface(e) /\ a.edges[e] = "exact"
          \/ /\ ~ OfAnInterface(e)
             /\ \E f \in repo : \E k \in DOMAIN f.refs : LastToGive(f, k, e)
             /\ \A f \in repo : \A k \in DOMAIN f.refs : LastToGive(f, k, e) => a.edges[e] = RuleAt(f, k).conf

\* There is one such graph.
LEMMA OneGraph ==
    ASSUME NEW a, NEW b, IsGraph(a), IsGraph(b)
    PROVE  a = b
<1>1. a.nodes = b.nodes
  <2>1. \A n : n \in a.nodes <=> n \in b.nodes
    BY Zenon DEF IsGraph
  <2> QED
    BY <2>1
<1>2. DOMAIN a.edges = DOMAIN b.edges
  <2>1. \A e : e \in DOMAIN a.edges <=> e \in DOMAIN b.edges
    BY Zenon DEF IsGraph
  <2> QED
    BY <2>1
<1>3. ASSUME NEW e \in DOMAIN a.edges PROVE a.edges[e] = b.edges[e]
  <2>1. e \in DOMAIN b.edges
    BY <1>2
  <2>2. CASE OfAnInterface(e)
    BY <2>1, <2>2 DEF IsGraph
  <2>3. CASE ~ OfAnInterface(e)
    <3>1. PICK f \in repo : \E k \in DOMAIN f.refs : LastToGive(f, k, e)
      BY <2>3 DEF IsGraph
    <3>2. PICK k \in DOMAIN f.refs : LastToGive(f, k, e)
      BY <3>1
    <3> QED
      BY <2>1, <2>3, <3>2 DEF IsGraph
  <2> QED
    BY <2>2, <2>3
<1>4. a.edges = [e \in DOMAIN a.edges |-> a.edges[e]] /\ b.edges = [e \in DOMAIN b.edges |-> b.edges[e]]
  BY DEF IsGraph
<1>5. a.edges = b.edges
  BY <1>2, <1>3, <1>4
<1>6. a = [nodes |-> a.nodes, edges |-> a.edges] /\ b = [nodes |-> b.nodes, edges |-> b.edges]
  BY DEF IsGraph
<1> QED
  BY <1>1, <1>5, <1>6

\* It stays the graph while the nodes, what is decided and what is implemented stay.
LEMMA GraphFollows ==
    ASSUME repo' = repo, {Node(p) : p \in Places}' = {Node(p) : p \in Places},
           \A f, k : RuleAt(f, k)' = RuleAt(f, k), \A fam : Implements(fam)' = Implements(fam),
           NEW a, IsGraph(a)
    PROVE  IsGraph(a)'
<1>1. \A f, k : EdgesAt(f, k)' = EdgesAt(f, k) /\ ForeignAt(f, k)' = ForeignAt(f, k)
  BY DEF EdgesAt, ForeignAt, Edge
<1>2. \A e : (OfARef(e)' <=> OfARef(e)) /\ (OfAnInterface(e)' <=> OfAnInterface(e))
  BY <1>1 DEF OfARef, OfAnInterface
<1>3. \A f, k, e : LastToGive(f, k, e)' <=> LastToGive(f, k, e)
  BY <1>1 DEF LastToGive
<1>4. \A n : n \in a.nodes <=> \/ n \in {Node(p) : p \in Places}'
                               \/ \E f \in repo' : \E k \in DOMAIN f.refs : n \in ForeignAt(f, k)'
  BY <1>1 DEF IsGraph
<1>5. ASSUME NEW e \in DOMAIN a.edges
      PROVE  \/ OfAnInterface(e)' /\ a.edges[e] = "exact"
             \/ /\ ~ OfAnInterface(e)'
                /\ \E f \in repo' : \E k \in DOMAIN f.refs : LastToGive(f, k, e)'
                /\ \A f \in repo' : \A k \in DOMAIN f.refs : LastToGive(f, k, e)' => a.edges[e] = RuleAt(f, k)'.conf
  BY <1>2, <1>3 DEF IsGraph
<1>6. \A e : e \in DOMAIN a.edges <=> OfARef(e)' \/ OfAnInterface(e)'
  BY <1>2 DEF IsGraph
<1>7. a = [nodes |-> a.nodes, edges |-> a.edges] /\ a.edges = [e \in DOMAIN a.edges |-> a.edges[e]]
  BY DEF IsGraph
<1> QED
  BY <1>4, <1>5, <1>6, <1>7 DEF IsGraph

NodesSeen == {Node(p) : p \in Places} = {NodeAt(s).id : s \in Seen(Places)}

\* The declarations that are nodes are those which are seen.
LEMMA NodesAreSeen == ReadsOnce => NodesSeen
BY PlacesAreSpots DEF NodesSeen, Seen, Node

\* It is the graph of every order.
LEMMA GraphAgain ==
    ASSUME Reordered, NEW a, IsGraph(a)
    PROVE  IsGraph(a)'
<1>1. repo' = repo /\ (\A f, k : RuleAt(f, k)' = RuleAt(f, k)) /\ \A fam : Implements(fam)' = Implements(fam)
  BY RulesAgain, InterfacesAgain DEF Reordered, RuleAt
<1>2. ReadsOnce' => NodesSeen'
  BY NodesAreSeen, PTL
<1>3. NodesSeen /\ NodesSeen'
  BY <1>2, NodesAreSeen DEF Reordered
<1>4. {Node(p) : p \in Places}' = {Node(p) : p \in Places}
  BY <1>3, DeclarationsAgain DEF NodesSeen, NodeAt
<1> QED
  BY <1>1, <1>4, GraphFollows

-----------------------------------------------------------------------------
(* What a run has recorded, in the order of its jobs.                      *)

Gives(x) == IF x[2] \in DOMAIN files THEN EdgesAt(files[x[2]], x[3]) ELSE Implements(Families[x[1]])
Surety(x) == IF x[2] \in DOMAIN files THEN RuleAt(files[x[2]], x[3]).conf ELSE "exact"
LastGiver(x, e, done) == e \in Gives(x) /\ \A y \in done \ {x} : e \in Gives(y) => Earlier(y, x)

\* What was done comes before what is left, each edge is as sure as the last job that
\* gave it says, and an answer is the graph if types and modules have one home.
InJobOrder ==
    /\ todo # {} \/ answers # {} => files \in Orders(repo) /\ pick \in Picks(repo)
    /\ \A x \in Jobs \ todo, y \in todo : Earlier(x, y)
    /\ edges = [e \in DOMAIN edges |-> edges[e]]
    /\ \A e \in DOMAIN edges : \E x \in Jobs \ todo : LastGiver(x, e, Jobs \ todo) /\ edges[e] = Surety(x)
    /\ todo # {} => external = UNION {ForeignAt(files[x[2]], x[3]) : x \in RefJobs(files) \ todo}
    /\ HasOneHome(repo) => \A a \in answers : IsGraph(a)

\* While the files stay, so does what the jobs give.
LEMMA GivesStay ==
    ASSUME SameIndex
    PROVE  /\ Jobs' = Jobs /\ \A x : Gives(x)' = Gives(x) /\ Surety(x)' = Surety(x)
           /\ \A f, k : RuleAt(f, k)' = RuleAt(f, k) /\ ForeignAt(f, k)' = ForeignAt(f, k)
           /\ \A x, e, done : LastGiver(x, e, done)' <=> LastGiver(x, e, done)
<1>1. Jobs' = Jobs
  BY JobsStay DEF Jobs
<1>2. \A f, k : RuleAt(f, k)' = RuleAt(f, k)
  BY RulesStay DEF RuleAt
<1>3. \A f, k : EdgesAt(f, k)' = EdgesAt(f, k) /\ ForeignAt(f, k)' = ForeignAt(f, k)
  BY <1>2 DEF EdgesAt, ForeignAt, Edge
<1>4. \A fam : Implements(fam)' = Implements(fam)
  BY ImplementsStay
<1>5. \A x : Gives(x)' = Gives(x) /\ Surety(x)' = Surety(x)
  BY <1>2, <1>3, <1>4 DEF Gives, Surety, SameIndex
<1>6. \A x, e, done : LastGiver(x, e, done)' <=> LastGiver(x, e, done)
  BY <1>5 DEF LastGiver, Earlier
<1> QED
  BY <1>1, <1>2, <1>3, <1>5, <1>6

\* The graph stays the graph, too.
LEMMA GraphStays ==
    ASSUME SameIndex, repo' = repo, NEW a, IsGraph(a)
    PROVE  IsGraph(a)'
<1>1. {Node(p) : p \in Places}' = {Node(p) : p \in Places}
  BY PlacesStay
<1>2. \A f, k : RuleAt(f, k)' = RuleAt(f, k)
  BY GivesStay
<1>3. \A fam : Implements(fam)' = Implements(fam)
  BY ImplementsStay
<1> QED
  BY <1>1, <1>2, <1>3, GraphFollows

\* Each reference has its job, and so have the interfaces of its family.
LEMMA RefsHaveJobs ==
    ASSUME Reads
    PROVE  /\ \A x \in RefJobs(files) : /\ x[1] \in DOMAIN Families /\ x[2] \in DOMAIN files
                                        /\ files[x[2]] \in repo /\ files[x[2]].family = Families[x[1]]
                                        /\ x[3] \in DOMAIN files[x[2]].refs /\ x = <<x[1], x[2], x[3]>>
                                        /\ \A k \in DOMAIN files[x[2]].refs : <<x[1], x[2], k>> \in RefJobs(files)
           /\ \A f \in repo : \A k \in DOMAIN f.refs : \E x \in RefJobs(files) : files[x[2]] = f /\ x[3] = k
           /\ \A x \in InterfaceJobs(files) : x[1] \in DOMAIN Families /\ x = <<x[1], Len(files) + 1, 1>>
           /\ \A i \in DOMAIN Families : <<i, Len(files) + 1, 1>> \in InterfaceJobs(files)
           /\ Len(files) \in Nat /\ DOMAIN files = 1 .. Len(files) /\ DOMAIN Families \subseteq Nat
<1>0. PICK n \in Nat : files \in [1 .. n -> repo] /\ \A f \in repo : \E i \in DOMAIN files : files[i] = f
  BY DEF Reads
<1>1. Len(files) = n /\ DOMAIN files = 1 .. n
  BY <1>0
<1>2. \A i, j, k : i \in DOMAIN Families /\ j \in DOMAIN files /\ files[j].family = Families[i] /\ k \in DOMAIN files[j].refs
                     => <<i, j, k>> \in RefJobs(files)
  BY DEF RefJobs
<1>3. ASSUME NEW x \in RefJobs(files)
      PROVE  /\ x[1] \in DOMAIN Families /\ x[2] \in DOMAIN files /\ files[x[2]].family = Families[x[1]]
             /\ x[3] \in DOMAIN files[x[2]].refs /\ x = <<x[1], x[2], x[3]>>
  BY DEF RefJobs
<1>4. \A x \in RefJobs(files) : \A k \in DOMAIN files[x[2]].refs : <<x[1], x[2], k>> \in RefJobs(files)
  BY <1>2, <1>3
<1>5. ASSUME NEW f \in repo, NEW k \in DOMAIN f.refs
      PROVE  \E x \in RefJobs(files) : files[x[2]] = f /\ x[3] = k
  <2>1. PICK j \in DOMAIN files : files[j] = f
    BY <1>0
  <2>2. PICK i \in DOMAIN Families : Families[i] = f.family
    BY ZenonT(40) DEF Reads, Sound, ToSet
  <2>3. <<i, j, k>> \in RefJobs(files)
    BY <1>2, <2>1, <2>2
  <2> QED
    BY <2>1, <2>3
<1>6. \A x \in InterfaceJobs(files) : x[1] \in DOMAIN Families /\ x = <<x[1], Len(files) + 1, 1>>
  BY DEF InterfaceJobs
<1>7. \A i \in DOMAIN Families : <<i, Len(files) + 1, 1>> \in InterfaceJobs(files)
  BY DEF InterfaceJobs
<1>8. DOMAIN Families \subseteq Nat
  BY ResolverAssumption
<1>9. \A x \in RefJobs(files) : files[x[2]] \in repo
  BY <1>0, <1>3
<1> QED
  BY <1>0, <1>1, <1>3, <1>4, <1>5, <1>6, <1>7, <1>8, <1>9

\* What the references of a file and the interfaces of a family give starts there.
LEMMA WhereEdgesStart ==
    ASSUME Reads, NEW e
    PROVE  /\ \A f, g \in repo : \A k \in DOMAIN f.refs, h \in DOMAIN g.refs : e \in EdgesAt(f, k) /\ e \in EdgesAt(g, h) => f = g
           /\ \A f \in repo : \A k \in DOMAIN f.refs : \A fam : e \in EdgesAt(f, k) /\ e \in Implements(fam) => fam = f.family
<1>1. ASSUME NEW f \in repo, NEW k \in DOMAIN f.refs, e \in EdgesAt(f, k)
      PROVE  e[1].file = f.path
  <2>1. e[1] = f.refs[k].from
    BY <1>1 DEF EdgesAt, Edge
  <2>2. PICK j \in DOMAIN f.nodes : f.refs[k].from = f.nodes[j].id
    BY DEF Reads, Sound
  <2> QED
    BY <2>1, <2>2 DEF Reads, Sound
<1>2. ASSUME NEW fam, e \in Implements(fam)
      PROVE  \A f \in repo : f.path = e[1].file => f.family = fam
  <2>1. PICK x \in Matching(fam) : e = Edge(Node(x[1]), Node(x[2]), "implements", D(x[1]).line)
    BY <1>2 DEF Implements
  <2>2. x[1] \in PlacesOf(fam) /\ e[1] = Node(x[1])
    BY <2>1 DEF Matching, Edge
  <2> QED
    BY <2>2, PlacesAreDeclared
<1>3. \A f, g \in repo : f.path = g.path => f = g
  BY DEF Reads, Sound
<1> QED
  BY <1>1, <1>2, <1>3

\* The job that is next becomes the last that gave its edges.
LEMMA TheNextIsLast ==
    ASSUME InJobOrder, SameIndex, repo' = repo, answers' = answers, NEW x \in todo \cap Jobs, IsNext(x),
           todo' = todo \ {x}, Put([e \in Gives(x) |-> Surety(x)]),
           external' = external \cup (IF x \in RefJobs(files) THEN ForeignAt(files[x[2]], x[3]) ELSE {})
    PROVE  InJobOrder'
<1> DEFINE done == Jobs \ todo
           new == [e \in Gives(x) |-> Surety(x)]
<1>1. /\ Jobs' = Jobs /\ (\A z : Gives(z)' = Gives(z) /\ Surety(z)' = Surety(z)) /\ files' = files /\ pick' = pick
      /\ \A z, e, S : LastGiver(z, e, S)' <=> LastGiver(z, e, S)
  BY GivesStay DEF SameIndex
<1>2. (Jobs \ todo)' = done \cup {x} /\ x \notin done
  BY <1>1
<1>3. \A y \in done : Earlier(y, x)
  BY DEF InJobOrder
<1>4. files' \in Orders(repo') /\ pick' \in Picks(repo')
  BY <1>1 DEF InJobOrder
<1>5. \A z \in (Jobs \ todo)', y \in todo' : Earlier(z, y)
  BY <1>2 DEF InJobOrder, IsNext
<1>6. /\ edges' = [e \in DOMAIN edges' |-> edges'[e]] /\ DOMAIN edges' = Gives(x) \cup DOMAIN edges
      /\ \A e \in Gives(x) : edges'[e] = Surety(x)
      /\ \A e \in DOMAIN edges : e \notin Gives(x) => edges'[e] = edges[e]
  <2>1. DOMAIN new = Gives(x) /\ \A e \in Gives(x) : new[e] = Surety(x)
    OBVIOUS
  <2>2. edges' = [e \in DOMAIN new \cup DOMAIN edges |-> IF e \in DOMAIN new THEN new[e] ELSE edges[e]]
    BY DEF Put
  <2> HIDE DEF new
  <2> QED
    BY <2>1, <2>2
<1> HIDE DEF done
<1>7. ASSUME NEW e \in DOMAIN edges'
      PROVE  \E z \in done \cup {x} : LastGiver(z, e, done \cup {x}) /\ edges'[e] = Surety(z)
  <2>1. CASE e \in Gives(x)
    <3>1. LastGiver(x, e, done \cup {x})
      BY <1>2, <1>3, <2>1 DEF LastGiver
    <3> QED
      BY <1>6, <2>1, <3>1
  <2>2. CASE e \notin Gives(x)
    <3>1. e \in DOMAIN edges /\ edges'[e] = edges[e]
      BY <1>6, <2>2
    <3>2. PICK z \in done : LastGiver(z, e, done) /\ edges[e] = Surety(z)
      BY <3>1 DEF InJobOrder, done
    <3>3. LastGiver(z, e, done \cup {x})
      BY <2>2, <3>2 DEF LastGiver
    <3> QED
      BY <3>1, <3>2, <3>3
  <2> QED
    BY <2>1, <2>2
<1>8. \A e \in DOMAIN edges' : \E z \in (Jobs \ todo)' : LastGiver(z, e, Jobs \ todo)' /\ edges'[e] = Surety(z)'
  <2>1. \A z, e : LastGiver(z, e, Jobs \ todo)' <=> LastGiver(z, e, done \cup {x})
    BY <1>1, <1>2 DEF LastGiver, Earlier
  <2> QED
    BY <1>1, <1>2, <1>7, <2>1
<1>9. external' = UNION {ForeignAt(files[z[2]], z[3])' : z \in RefJobs(files)' \ todo'}
  <2>1. RefJobs(files)' = RefJobs(files) /\ \A f, k : ForeignAt(f, k)' = ForeignAt(f, k)
    BY JobsStay, GivesStay
  <2>2. external = UNION {ForeignAt(files[z[2]], z[3]) : z \in RefJobs(files) \ todo}
    BY DEF InJobOrder
  <2>3. \A z : ForeignAt(files[z[2]], z[3])' = ForeignAt(files[z[2]], z[3])
    BY <1>1, <2>1
  <2>4. CASE x \in RefJobs(files)
    <3>1. RefJobs(files) \ todo' = (RefJobs(files) \ todo) \cup {x}
      BY <2>4
    <3> QED
      BY <2>1, <2>2, <2>3, <2>4, <3>1
  <2>5. CASE x \notin RefJobs(files)
    <3>1. RefJobs(files) \ todo' = RefJobs(files) \ todo
      BY <2>5
    <3> QED
      BY <2>1, <2>2, <2>3, <2>5, <3>1
  <2> QED
    BY <2>4, <2>5
<1>10. (HasOneHome(repo) => \A a \in answers : IsGraph(a))'
  BY GraphStays DEF InJobOrder
<1> QED
  BY <1>4, <1>5, <1>6, <1>8, <1>9, <1>10 DEF InJobOrder

\* ResolveRef and MatchInterfaces
LEMMA JobsKeepOrder ==
    ASSUME Inv, Recorded, InJobOrder, NEW x \in todo, ResolveRef(x) \/ MatchInterfaces(x)
    PROVE  InJobOrder'
<1>1. SameIndex /\ repo' = repo /\ answers' = answers /\ IsNext(x) /\ todo' = todo \ {x} /\ x # EndOfRun
  BY ZenonT(40) DEF ResolveRef, MatchInterfaces, SameIndex
<1>2. CASE ResolveRef(x)
  <2>1. x[2] \in DOMAIN files
    BY ZenonT(40), <1>2 DEF ResolveRef
  <2>2. x \in RefJobs(files) /\ x \in Jobs
    BY <1>1, <2>1, JobsAre DEF Inv, Jobs
  <2>3. Gives(x) = EdgesAt(files[x[2]], x[3]) /\ Surety(x) = RuleAt(files[x[2]], x[3]).conf
    BY SMTT(40), <2>1 DEF Gives, Surety
  <2>4. /\ Put([e \in EdgesAt(files[x[2]], x[3]) |-> RuleAt(files[x[2]], x[3]).conf])
        /\ external' = external \cup ForeignAt(files[x[2]], x[3])
    BY ZenonT(40), <1>2 DEF ResolveRef, EdgesAt, RuleAt, ForeignAt
  <2>5. Put([e \in Gives(x) |-> Surety(x)])
    BY <2>3, <2>4, Zenon
  <2> QED
    BY SMTT(40), <1>1, <2>2, <2>4, <2>5, TheNextIsLast
<1>3. CASE MatchInterfaces(x)
  <2>1. x[2] \notin DOMAIN files
    BY <1>3 DEF MatchInterfaces
  <2>2. x \notin RefJobs(files) /\ x \in Jobs
    BY <1>1, <2>1, JobsAre DEF Inv, Jobs
  <2>3. Gives(x) = Implements(Families[x[1]]) /\ Surety(x) = "exact"
    BY <2>1 DEF Gives, Surety
  <2>4. Put([e \in Implements(Families[x[1]]) |-> "exact"]) /\ external' = external
    BY <1>3 DEF MatchInterfaces
  <2>5. Put([e \in Gives(x) |-> Surety(x)])
    BY <2>3, <2>4, Zenon
  <2> QED
    BY <1>1, <2>2, <2>4, <2>5, TheNextIsLast
<1> QED
  BY SMTT(40), <1>2, <1>3

\* What is returned is the graph.
LEMMA TheAnswerIsTheGraph ==
    ASSUME Inv, Recorded, InJobOrder, IsNext(EndOfRun)
    PROVE  IsGraph([nodes |-> {Node(p) : p \in Places} \cup external, edges |-> edges])
<1>1. todo = {EndOfRun} /\ EndOfRun \notin Jobs /\ Jobs \ todo = Jobs /\ RefJobs(files) \ todo = RefJobs(files)
      /\ InterfaceJobs(files) \ todo = InterfaceJobs(files)
  <2>1. todo = {EndOfRun} /\ EndOfRun \notin Jobs
    BY OnlyTheEnd
  <2> QED
    BY <2>1 DEF Jobs
<1>2. Reads
  BY <1>1 DEF Inv, JobsHold
<1> DEFINE R == RefJobs(files)
           own == {Node(p) : p \in Places}
           a == [nodes |-> own \cup external, edges |-> edges]
<1>3. /\ \A x \in R : /\ x[1] \in DOMAIN Families /\ x[2] \in DOMAIN files /\ files[x[2]] \in repo
                      /\ files[x[2]].family = Families[x[1]] /\ x[3] \in DOMAIN files[x[2]].refs
                      /\ x = <<x[1], x[2], x[3]>> /\ \A k \in DOMAIN files[x[2]].refs : <<x[1], x[2], k>> \in R
      /\ \A f \in repo : \A k \in DOMAIN f.refs : \E x \in R : files[x[2]] = f /\ x[3] = k
      /\ \A x \in InterfaceJobs(files) : x[1] \in DOMAIN Families /\ x = <<x[1], Len(files) + 1, 1>>
      /\ \A i \in DOMAIN Families : <<i, Len(files) + 1, 1>> \in InterfaceJobs(files)
      /\ Len(files) \in Nat /\ DOMAIN files = 1 .. Len(files) /\ DOMAIN Families \subseteq Nat
  BY <1>2, RefsHaveJobs
<1> HIDE DEF R
<1>4. ASSUME NEW n
      PROVE  n \in external <=> \E f \in repo : \E k \in DOMAIN f.refs : n \in ForeignAt(f, k)
  <2>1. external = UNION {ForeignAt(files[x[2]], x[3]) : x \in R}
    BY <1>1 DEF InJobOrder, R
  <2> QED
    BY <1>3, <2>1
<1>5. \A x \in R : OfRef(x[2], x[3]) = EdgesAt(files[x[2]], x[3])
  BY DEF OfRef, EdgesAt, RuleAt
<1>6. ASSUME NEW e
      PROVE  e \in DOMAIN edges <=> OfARef(e) \/ OfAnInterface(e)
  <2>1. ASSUME e \in DOMAIN edges PROVE OfARef(e) \/ OfAnInterface(e)
    <3>1. CASE \E x \in R : e \in OfRef(x[2], x[3])
      BY <1>3, <1>5, <3>1 DEF OfARef
    <3>2. CASE \E i \in DOMAIN Families : e \in Implements(Families[i])
      BY <3>2 DEF OfAnInterface
    <3> QED
      BY <2>1, <3>1, <3>2 DEF Recorded, R
  <2>2. ASSUME OfARef(e) PROVE e \in DOMAIN edges
    <3>1. PICK x \in R : e \in EdgesAt(files[x[2]], x[3])
      BY <1>3, <2>2 DEF OfARef
    <3> QED
      BY <1>1, <1>5, <3>1 DEF Recorded, R
  <2>3. ASSUME OfAnInterface(e) PROVE e \in DOMAIN edges
    <3>1. PICK i \in DOMAIN Families : e \in Implements(Families[i])
      BY <2>3 DEF OfAnInterface
    <3>2. \A x \in InterfaceJobs(files) : Implements(Families[x[1]]) \subseteq DOMAIN edges
      BY <1>1 DEF Recorded
    <3> QED
      BY ZenonT(40), <1>3, <3>1, <3>2
  <2> QED
    BY <2>1, <2>2, <2>3
<1>7. ASSUME NEW e \in DOMAIN edges
      PROVE  \/ OfAnInterface(e) /\ edges[e] = "exact"
             \/ /\ ~ OfAnInterface(e)
                /\ \E f \in repo : \E k \in DOMAIN f.refs : LastToGive(f, k, e)
                /\ \A f \in repo : \A k \in DOMAIN f.refs : LastToGive(f, k, e) => edges[e] = RuleAt(f, k).conf
  <2>1. PICK x \in Jobs : LastGiver(x, e, Jobs) /\ edges[e] = Surety(x)
    BY <1>1 DEF InJobOrder
  <2>2. e \in Gives(x) /\ \A y \in Jobs \ {x} : e \in Gives(y) => Earlier(y, x)
    BY <2>1 DEF LastGiver
  <2>3. CASE x \in InterfaceJobs(files)
    <3>1. x[2] = Len(files) + 1 /\ x[1] \in DOMAIN Families /\ Len(files) + 1 \notin DOMAIN files
      <4>1. \A n \in Nat : n + 1 \notin 1 .. n
        OBVIOUS
      <4>2. x[2] = Len(files) + 1 /\ x[1] \in DOMAIN Families
        BY <1>3, <2>3
      <4> QED
        BY <1>3, <4>1, <4>2
    <3>2. e \in Implements(Families[x[1]]) /\ edges[e] = "exact"
      BY <2>1, <2>2, <3>1 DEF Gives, Surety
    <3> QED
      BY <3>1, <3>2 DEF OfAnInterface
  <2>4. CASE x \in R
    <3> DEFINE f == files[x[2]]
    <3>1. f \in repo /\ x[3] \in DOMAIN f.refs /\ e \in EdgesAt(f, x[3]) /\ edges[e] = RuleAt(f, x[3]).conf
      BY <1>3, <2>1, <2>2, <2>4 DEF Gives, Surety
    <3>2. f.refs \in Seq(ToSet(f.refs))
      BY <1>2, <3>1 DEF Reads, Sound
    <3>3. ~ OfAnInterface(e)
      <4> SUFFICES ASSUME NEW i \in DOMAIN Families, e \in Implements(Families[i]) PROVE FALSE
        BY DEF OfAnInterface
      <4> DEFINE y == <<x[1], Len(files) + 1, 1>>
      <4>1. Families[i] = f.family
        BY <1>2, <3>1, WhereEdgesStart
      <4>2. f.family = Families[x[1]] /\ x[1] \in DOMAIN Families /\ x[2] \in 1 .. Len(files) /\ Len(files) \in Nat /\ x[1] \in Nat
        BY <1>3, <2>4
      <4>3. y \in Jobs /\ y # x
        <5>1. y[2] # x[2]
          BY <4>2
        <5>2. y \in InterfaceJobs(files)
          BY <1>3, <4>2
        <5> QED
          BY <5>1, <5>2 DEF Jobs
      <4>4. y[2] \notin DOMAIN files /\ y[1] = x[1] /\ y[2] = Len(files) + 1
        BY <1>3, <4>2
      <4> HIDE DEF y
      <4>5. e \in Gives(y)
        BY <4>1, <4>2, <4>4 DEF Gives
      <4>6. Earlier(y, x)
        BY <2>2, <4>3, <4>5
      <4> QED
        BY <4>2, <4>4, <4>6 DEF Earlier
    <3>4. ASSUME NEW g \in repo, NEW h \in DOMAIN g.refs, e \in EdgesAt(g, h)
          PROVE  g = f /\ h \in Nat /\ h <= x[3] /\ x[3] \in Nat
      <4>1. g = f
        BY <1>2, <3>1, <3>4, WhereEdgesStart
      <4>2. h \in Nat /\ x[3] \in Nat
        BY <3>1, <3>2, <4>1
      <4> DEFINE y == <<x[1], x[2], h>>
      <4>3. y \in R /\ y[2] \in DOMAIN files /\ files[y[2]] = f /\ y[3] = h /\ y[1] = x[1] /\ y[2] = x[2]
        BY <1>3, <2>4, <4>1
      <4> HIDE DEF y
      <4>4. e \in Gives(y) /\ y \in Jobs
        BY <3>4, <4>1, <4>3 DEF Gives, Jobs, R
      <4>5. y = x \/ Earlier(y, x)
        BY <2>2, <4>4
      <4>6. x[1] \in Nat /\ x[2] \in Nat
        BY <1>3, <2>4
      <4>7. h <= x[3]
        BY <4>2, <4>3, <4>5, <4>6 DEF Earlier
      <4> QED
        BY <4>1, <4>2, <4>7
    <3> HIDE DEF f
    <3>5. LastToGive(f, x[3], e)
      BY <3>1, <3>4 DEF LastToGive
    <3>6. ASSUME NEW g \in repo, NEW k \in DOMAIN g.refs, LastToGive(g, k, e)
          PROVE  edges[e] = RuleAt(g, k).conf
      <4>1. e \in EdgesAt(g, k)
        BY <3>6 DEF LastToGive
      <4>2. g = f /\ k \in Nat /\ k <= x[3] /\ x[3] \in Nat
        BY <3>4, <4>1
      <4>3. x[3] <= k
        BY <3>1, <3>6, <4>2 DEF LastToGive
      <4>4. k = x[3]
        BY <4>2, <4>3
      <4> QED
        BY <3>1, <4>2, <4>4
    <3> QED
      BY <3>1, <3>3, <3>5, <3>6
  <2> QED
    BY <2>3, <2>4 DEF Jobs, R
<1>8. /\ a = [nodes |-> a.nodes, edges |-> a.edges] /\ a.edges = edges /\ a.nodes = own \cup external
  OBVIOUS
<1>9. edges = [e \in DOMAIN edges |-> edges[e]]
  BY DEF InJobOrder
<1>10. IsGraph(a)
  <2> HIDE DEF a
  <2>1. \A n : n \in a.nodes <=> \/ n \in own
                                 \/ \E f \in repo : \E k \in DOMAIN f.refs : n \in ForeignAt(f, k)
    BY <1>4, <1>8
  <2>2. \A e \in DOMAIN edges :
          \/ OfAnInterface(e) /\ edges[e] = "exact"
          \/ /\ ~ OfAnInterface(e)
             /\ \E f \in repo : \E k \in DOMAIN f.refs : LastToGive(f, k, e)
             /\ \A f \in repo : \A k \in DOMAIN f.refs : LastToGive(f, k, e) => edges[e] = RuleAt(f, k).conf
    BY <1>7
  <2>3. a.edges = [e \in DOMAIN a.edges |-> a.edges[e]]
    BY <1>8, <1>9
  <2>4. \A e : e \in DOMAIN a.edges <=> OfARef(e) \/ OfAnInterface(e)
    BY <1>6, <1>8
  <2>5. \A e \in DOMAIN a.edges :
          \/ OfAnInterface(e) /\ a.edges[e] = "exact"
          \/ /\ ~ OfAnInterface(e)
             /\ \E f \in repo : \E k \in DOMAIN f.refs : LastToGive(f, k, e)
             /\ \A f \in repo : \A k \in DOMAIN f.refs : LastToGive(f, k, e) => a.edges[e] = RuleAt(f, k).conf
    BY <1>8, <2>2
  <2>6. a = [nodes |-> a.nodes, edges |-> a.edges]
    BY <1>8
  <2> QED
    BY <2>1, <2>3, <2>4, <2>5, <2>6, Zenon DEF IsGraph
<1> QED
  BY <1>10

\* Begin
LEMMA BeginKeepsOrder ==
    ASSUME Inv, InJobOrder, Begin
    PROVE  InJobOrder'
<1>1. Sound(repo) /\ repo' = repo /\ todo = {} /\ answers' = answers /\ edges' = [e \in {} |-> "exact"] /\ external' = {}
  BY DEF Inv, Begin
<1>2. PICK order \in Orders(repo) : /\ files' = order /\ pick' \in Picks(repo)
                                    /\ todo' = RefJobs(order) \cup InterfaceJobs(order) \cup {EndOfRun}
  BY DEF Begin
<1>3. files' \in Orders(repo') /\ pick' \in Picks(repo')
  BY <1>1, <1>2
<1>4. (Jobs \ todo)' = {} /\ (RefJobs(files) \ todo)' = {}
  <2>1. RefJobs(files)' = RefJobs(order) /\ InterfaceJobs(files)' = InterfaceJobs(order)
    BY <1>2 DEF RefJobs, InterfaceJobs
  <2> QED
    BY <1>2, <2>1 DEF Jobs
<1>5. (\A x \in Jobs \ todo, y \in todo : Earlier(x, y))'
  BY <1>4
<1>6. DOMAIN edges' = {} /\ edges' = [e \in DOMAIN edges' |-> edges'[e]]
  BY <1>1
<1>7. (external = UNION {ForeignAt(files[x[2]], x[3]) : x \in RefJobs(files) \ todo})'
  BY <1>1, <1>4
\* The answers of the runs before are the graph, in any order.
<1>8. ASSUME HasOneHome(repo), NEW a \in answers PROVE IsGraph(a)'
  <2>1. files \in Orders(repo) /\ pick \in Picks(repo) /\ IsGraph(a)
    BY <1>8 DEF InJobOrder
  <2>2. pick' = pick
    BY <1>2, <1>8, <2>1 DEF HasOneHome
  <2>3. (Sound(repo) /\ files \in Orders(repo))' => ReadsOnce'
    BY OrdersReadOnce, PTL
  <2>4. ReadsOnce /\ ReadsOnce'
    <3>1. Sound(repo')
      BY <1>1
    <3> QED
      BY <1>1, <1>3, <2>1, <2>3, <3>1, OrdersReadOnce DEF Sound
  <2>5. DOMAIN files' = DOMAIN files
    BY <1>2, <2>1 DEF Orders
  <2>6. Reordered
    BY <1>1, <1>8, <2>2, <2>4, <2>5 DEF Reordered
  <2> QED
    BY <2>1, <2>6, GraphAgain
<1>9. (HasOneHome(repo) => \A a \in answers : IsGraph(a))'
  BY <1>1, <1>8 DEF HasOneHome
<1> QED
  BY <1>3, <1>5, <1>6, <1>7, <1>9 DEF InJobOrder

\* Return
LEMMA ReturnKeepsOrder ==
    ASSUME Inv, Recorded, InJobOrder, Return
    PROVE  InJobOrder'
<1> DEFINE answer == [nodes |-> {Node(p) : p \in Places} \cup external, edges |-> edges]
<1>1. SameIndex /\ UNCHANGED <<repo, edges>> /\ todo' = {} /\ IsNext(EndOfRun) /\ answers' = answers \cup {answer}
  BY DEF Return, SameIndex
<1>2. (Jobs \ todo)' = Jobs \ todo /\ todo # {}
  BY <1>1, OnlyTheEnd, GivesStay
<1>3. files' \in Orders(repo') /\ pick' \in Picks(repo')
  BY <1>1, <1>2 DEF InJobOrder, SameIndex
<1>4. \A e \in DOMAIN edges' : \E x \in (Jobs \ todo)' : LastGiver(x, e, Jobs \ todo)' /\ edges'[e] = Surety(x)'
  <2>1. \A x, e : LastGiver(x, e, Jobs \ todo)' <=> LastGiver(x, e, Jobs \ todo)
    BY <1>1, <1>2, GivesStay DEF LastGiver, Earlier
  <2>2. \A x : Surety(x)' = Surety(x)
    BY <1>1, GivesStay
  <2> QED
    BY <1>1, <1>2, <2>1, <2>2 DEF InJobOrder
<1>5. IsGraph(answer)
  BY <1>1, TheAnswerIsTheGraph
<1> HIDE DEF answer
<1>6. (HasOneHome(repo) => \A a \in answers : IsGraph(a))'
  BY <1>1, <1>5, GraphStays DEF InJobOrder
<1> QED
  BY <1>1, <1>3, <1>4, <1>6 DEF InJobOrder

\* At first nothing is recorded.
LEMMA OrderInit ==
    ASSUME NEW fs, ResolverInit(fs)
    PROVE  InJobOrder
<1>1. todo = {} /\ answers = {} /\ edges = [e \in {} |-> "exact"]
  BY DEF ResolverInit
<1>2. DOMAIN edges = {} /\ edges = [e \in DOMAIN edges |-> edges[e]]
  BY <1>1
<1> QED
  BY <1>1, <1>2 DEF InJobOrder

\* Each step keeps it in order.
LEMMA OrderStep == Inv /\ Recorded /\ InJobOrder /\ [ResolverNext]_vars => InJobOrder'
<1> SUFFICES ASSUME Inv, Recorded, InJobOrder, [ResolverNext]_vars PROVE InJobOrder'
  OBVIOUS
<1>1. CASE Begin
  BY <1>1, BeginKeepsOrder
<1>2. CASE \E x \in todo : ResolveRef(x) \/ MatchInterfaces(x)
  BY <1>2, JobsKeepOrder
<1>3. CASE Return
  BY <1>3, ReturnKeepsOrder
<1>4. CASE UNCHANGED vars
  <2>1. SameIndex /\ UNCHANGED <<repo, todo, edges, external, answers, files, pick>>
    BY <1>4 DEF vars, SameIndex
  <2>2. Jobs' = Jobs /\ (RefJobs(files) \ todo)' = RefJobs(files) \ todo /\ (Jobs \ todo)' = Jobs \ todo
    BY <2>1, GivesStay, JobsStay
  <2>3. \A x, e : (LastGiver(x, e, Jobs \ todo)' <=> LastGiver(x, e, Jobs \ todo)) /\ Surety(x)' = Surety(x)
    BY <2>1, <2>2, GivesStay DEF LastGiver, Earlier
  <2>4. \A x : ForeignAt(files[x[2]], x[3])' = ForeignAt(files[x[2]], x[3])
    BY <2>1, GivesStay
  <2>5. (HasOneHome(repo) => \A a \in answers : IsGraph(a))'
    BY <2>1, GraphStays DEF InJobOrder
  <2>6. (todo # {} \/ answers # {} => files \in Orders(repo) /\ pick \in Picks(repo))'
    BY <2>1 DEF InJobOrder
  <2>7. (\A x \in Jobs \ todo, y \in todo : Earlier(x, y))'
    BY <2>1, <2>2 DEF InJobOrder
  <2>8. (edges = [e \in DOMAIN edges |-> edges[e]])'
    BY <2>1 DEF InJobOrder
  <2>9. (\A e \in DOMAIN edges : \E x \in Jobs \ todo : LastGiver(x, e, Jobs \ todo) /\ edges[e] = Surety(x))'
    BY <2>1, <2>2, <2>3 DEF InJobOrder
  <2>10. (todo # {} => external = UNION {ForeignAt(files[x[2]], x[3]) : x \in RefJobs(files) \ todo})'
    BY <2>1, <2>2, <2>4 DEF InJobOrder
  <2> QED
    BY <2>5, <2>6, <2>7, <2>8, <2>9, <2>10 DEF InJobOrder
<1> QED
  BY <1>1, <1>2, <1>3, <1>4 DEF ResolverNext

\* What a run has recorded is in the order of its jobs, and each answer is the graph.
THEOREM InJobOrderHolds == ResolverSpec => [](Inv /\ Recorded /\ InJobOrder)
<1>1. (\E fs \in Repos : ResolverInit(fs)) => InJobOrder
  BY OrderInit
<1> QED
  BY <1>1, OrderStep, RecordedHolds, PTL DEF ResolverSpec

\* What the invariants say of the answers of several runs.
LEMMA OrderIsOneGraph == Inv /\ Recorded /\ InJobOrder => SameGraphAgain
BY OneGraph DEF InJobOrder, SameGraphAgain, SameGraph

\* Where each type and each module has one home, every run returns the same graph: for
\* any repository, whatever the order in which workers hand over its files and whatever
\* the order of a map.
THEOREM GraphIsSameAgain == ResolverSpec => []SameGraphAgain
BY OrderIsOneGraph, InJobOrderHolds, PTL

-----------------------------------------------------------------------------
(* What is handed over.                                                    *)

IsDeclaration(d) == d.id.file = Path /\ d.id.q \in Seq(ToSet(d.id.q)) /\ d.name = d.id.q[Len(d.id.q)]
AreDeclarations(ns) == ns \in Seq(ToSet(ns)) /\ \A d \in ToSet(ns) : IsDeclaration(d)
WellBased(bs) == DOMAIN bs = ToSet(NameOrder) /\ \A t \in DOMAIN bs : bs[t] \in Seq(ToSet(bs[t]))
FromDeclared(rs, ns) == \A r \in ToSet(rs) : r.from \in IdsOf(ToSet(ns))

\* The file read so far: names and ids go together, bases are lists, and from the second
\* walk on each reference comes from a declaration of the file.
FileInv ==
    /\ AreDeclarations(nodes) /\ WellBased(bases) /\ refs \in Seq(ToSet(refs))
    /\ walk \in {"calls", "done"} => FromDeclared(refs, nodes)

\* What need not be said of Go, whose references are all calls, and of a tree not yet parsed.
NoRefsYet == walk # "done" => refs = <<>>

\* An id tells the name, whether it has the type in front or not.
LEMMA DeclsAreDeclarations ==
    ASSUME NEW kind, NEW name, NEW at
    PROVE  /\ IsDeclaration(Decl(kind, name, <<name>>, at)) /\ IsDeclaration(PlainDecl(kind, name, <<name>>, at))
           /\ \A owner : /\ IsDeclaration(Decl(kind, name, <<owner, name>>, at))
                         /\ IsDeclaration(PlainDecl(kind, name, <<owner, name>>, at))
<1>1. <<name>> \in Seq({name}) /\ Len(<<name>>) = 1
  OBVIOUS
<1>2. \A owner : <<owner, name>> \in Seq({owner, name}) /\ Len(<<owner, name>>) = 2
  OBVIOUS
<1>3. <<name>> \in Seq(ToSet(<<name>>)) /\ \A owner : <<owner, name>> \in Seq(ToSet(<<owner, name>>))
  BY <1>1, <1>2, RangesAreFinite
<1> QED
  BY <1>1, <1>2, <1>3 DEF IsDeclaration, Decl, UniqueID, PlainDecl

\* One declaration more.
LEMMA OneMoreDeclared ==
    ASSUME NEW ns, AreDeclarations(ns), NEW d, IsDeclaration(d)
    PROVE  AreDeclarations(Append(ns, d))
<1>1. ns \in Seq(ToSet(ns)) /\ \A e \in ToSet(ns) : IsDeclaration(e)
  BY DEF AreDeclarations
<1>2. Append(ns, d) \in Seq(ToSet(Append(ns, d))) /\ ToSet(Append(ns, d)) = ToSet(ns) \cup {d}
  BY <1>1, AppendHolds
<1> QED
  BY <1>1, <1>2 DEF AreDeclarations

\* What is left of a list is a list.
LEMMA OnlyIsAList ==
    ASSUME NEW s, s \in Seq(ToSet(s)), NEW names
    PROVE  Only(s, names) \in Seq(ToSet(Only(s, names))) /\ ToSet(Only(s, names)) \subseteq ToSet(s)
<1> DEFINE n == Len(s)
           seqs == [i \in 1 .. n |-> IF s[i] \in names THEN <<s[i]>> ELSE <<>>]
           g == FlattenSeq(seqs)
           B == ToSet(s)
<1>1. n \in Nat /\ DOMAIN s = 1 .. n /\ s \in [1 .. n -> B]
  OBVIOUS
<1>2. Only(s, names) = g
  BY <1>1 DEF Only
<1>3. /\ seqs \in [1 .. n -> Seq(B)]
      /\ \A i \in 1 .. n : IsTaken(seqs, s, i) \/ seqs[i] = <<>>
  <2> HIDE DEF B, n
  <2>1. \A i \in 1 .. n : <<s[i]>> \in Seq(B)
    BY <1>1
  <2>2. <<>> \in Seq(B)
    OBVIOUS
  <2> QED
    BY <2>1, <2>2 DEF IsTaken
<1> HIDE DEF seqs, n, B
<1>4. IsSelection(seqs, s, n, B)
  BY <1>1, <1>3 DEF IsSelection
<1>5. /\ g \in Seq(ToSet(g))
      /\ \A x : x \in ToSet(g) <=> \E i \in 1 .. n : x = s[i] /\ IsTaken(seqs, s, i)
  BY <1>4, SelectionHolds
<1>6. ToSet(g) \subseteq B
  BY <1>1, <1>5
<1> QED
  BY <1>2, <1>5, <1>6 DEF B

\* Sorted insertion gives a list.
LEMMA SortedIsAList == \A s, name : InsertSorted(s, name) \in Seq(ToSet(InsertSorted(s, name)))
<1>1. NameOrder \in Seq(ToSet(NameOrder))
  BY ExtractionAssumption
<1> QED
  BY <1>1, OnlyIsAList DEF InsertSorted

\* Nothing is read yet.
LEMMA NothingInFile == ExtractionInit => FileInv
<1> SUFFICES ASSUME ExtractionInit PROVE FileInv
  OBVIOUS
<1>1. nodes = <<>> /\ refs = <<>> /\ bases = [t \in ToSet(NameOrder) |-> <<>>] /\ walk = "declare"
  BY Zenon DEF ExtractionInit
<1>2. ToSet(<<>>) = {} /\ <<>> \in Seq({})
  BY DEF ToSet
<1> QED
  BY <1>1, <1>2 DEF FileInv, AreDeclarations, WellBased

\* One base more.
LEMMA OneMoreBase ==
    ASSUME WellBased(bases), NEW type, NEW bs, bs \in Seq(ToSet(bs))
    PROVE  WellBased([bases EXCEPT ![type] = bs])
BY DEF WellBased

\* The second walk adds references of declared functions.
LEMMA CallsKeepFile == ASSUME ExtractInv, FileInv, Calls PROVE FileInv'
<1>1. IsWalked(tree, nodes, refs) /\ walk = "calls" /\ walk' = "done" /\ nodes' = nodes /\ bases' = bases
  BY DEF Calls, ExtractInv
<1>2. /\ refs' \in Seq(ToSet(refs'))
      /\ \A r : r \in ToSet(refs') <=> r \in ToSet(refs) \/ \E at \in 1 .. Len(tree) : r \in ToSet(CallsAt(at))
  BY <1>1, CallsCollect
<1>3. ASSUME NEW at \in 1 .. Len(tree), NEW r \in ToSet(CallsAt(at)) PROVE r.from \in IdsOf(ToSet(nodes))
  <2>1. /\ tree[at].k = "call"
        /\ {s.from : s \in ToSet(CallsAt(at))} = IdsOf(NearestIn(tree, nodes, at))
    BY <1>1, CallsAtAre
  <2>2. r.from \in IdsOf(NearestIn(tree, nodes, at))
    BY <2>1
  <2> QED
    BY <2>2 DEF IdsOf, NearestIn, FunctionsIn
<1>4. \A r \in ToSet(refs) : r.from \in IdsOf(ToSet(nodes))
  BY <1>1 DEF FileInv, FromDeclared
<1> QED
  BY <1>1, <1>2, <1>3, <1>4 DEF FileInv, FromDeclared

\* A step of the generic walks keeps to it.
LEMMA FileStep == ASSUME ExtractInv, FileInv, [ExtractionNext]_treeVars PROVE FileInv'
<1>0. /\ AreDeclarations(nodes) /\ WellBased(bases) /\ refs \in Seq(ToSet(refs))
  BY DEF FileInv
<1>1. ASSUME Visit PROVE FileInv'
  <2>1. walk = "declare" /\ walk' = "declare"
    BY <1>1 DEF Visit
  <2> DEFINE n(s, up) == [k |-> s.k, name |-> s.name, of |-> s.of, recv |-> s.recv, up |-> up]
             at == Len(tree) + 1
  <2>2. PICK s \in Syntax, up \in Parents :
           DeclareType(n(s, up), at) \/ DeclareFunction(n(s, up), at) \/ DeclareImpl(n(s, up), at) \/ PassCall(n(s, up))
    BY <1>1, Zenon DEF Visit
  <2> DEFINE x == n(s, up)
  <2> HIDE DEF x, at
  <2>3. AreDeclarations(nodes')
    <3>1. CASE DeclareType(x, at)
      BY <1>0, <3>1, DeclsAreDeclarations, OneMoreDeclared, Zenon DEF DeclareType
    <3>2. CASE DeclareFunction(x, at)
      <4> DEFINE outer == EnclosingType(tree, x.up)
                 owner == IF outer = None THEN x.of ELSE outer
                 q == IF owner = None THEN <<x.name>> ELSE <<owner, x.name>>
                 d == Decl(IF owner = None THEN "function" ELSE "method", x.name, q, at)
      <4>1. nodes' = nodes \/ nodes' = Append(nodes, d)
        BY <3>2 DEF DeclareFunction
      <4>2. IsDeclaration(d)
        <5>1. q = <<x.name>> \/ \E o : q = <<o, x.name>>
          OBVIOUS
        <5> HIDE DEF q
        <5> QED
          BY <5>1, DeclsAreDeclarations
      <4> HIDE DEF d
      <4> QED
        BY <1>0, <4>1, <4>2, OneMoreDeclared
    <3>3. CASE DeclareImpl(x, at) \/ PassCall(x)
      BY <1>0, <3>3 DEF DeclareImpl, PassCall
    <3> QED
      BY <2>2, <3>1, <3>2, <3>3 DEF x, at
  <2>4. WellBased(bases')
    <3>1. ASSUME NEW type, NEW base, AddBase(type, base) PROVE WellBased(bases')
      <4> DEFINE bs == InsertSorted(bases[type], base)
      <4>1. bases' = [bases EXCEPT ![type] = bs]
        BY <3>1 DEF AddBase
      <4>2. bs \in Seq(ToSet(bs))
        BY SortedIsAList
      <4> HIDE DEF bs
      <4> QED
        BY <1>0, <4>1, <4>2, OneMoreBase
    <3>2. bases' = bases \/ \E type, base : AddBase(type, base)
      BY <2>2, Zenon DEF DeclareType, DeclareFunction, DeclareImpl, PassCall, x, at
    <3> QED
      BY <1>0, <3>1, <3>2
  <2>5. refs' \in Seq(ToSet(refs'))
    <3>1. refs' = refs \/ \E r : refs' = Append(refs, r)
      BY <2>2, Zenon DEF DeclareType, DeclareFunction, DeclareImpl, PassCall, x, at
    <3>2. \A r : Append(refs, r) \in Seq(ToSet(Append(refs, r)))
      BY <1>0, AppendHolds
    <3> QED
      BY <1>0, <3>1, <3>2
  <2> QED
    BY <2>1, <2>3, <2>4, <2>5 DEF FileInv
<1>2. ASSUME EndOfFile PROVE FileInv'
  BY <1>0, <1>2 DEF EndOfFile, FileInv
<1>3. ASSUME DropOrphanRefs PROVE FileInv'
  <2>1. walk' = "calls" /\ nodes' = nodes /\ bases' = bases
    BY <1>3 DEF DropOrphanRefs
  <2> DEFINE m == Len(refs)
             P == ToSet(refs)
             kept(k) == \E i \in DOMAIN nodes : nodes[i].id = refs[k].from
             seqs == [k \in 1 .. m |-> IF kept(k) THEN <<refs[k]>> ELSE <<>>]
             g == FlattenSeq(seqs)
  <2>2. m \in Nat /\ DOMAIN refs = 1 .. m /\ refs \in [1 .. m -> P]
    BY <1>0
  <2>3. refs' = g
    BY <1>3, <2>2 DEF DropOrphanRefs
  <2>4. /\ seqs \in [1 .. m -> Seq(P)]
        /\ \A i \in 1 .. m : IsTaken(seqs, refs, i) \/ seqs[i] = <<>>
        /\ \A i \in 1 .. m : IsTaken(seqs, refs, i) => kept(i)
    <3> HIDE DEF m, P, kept
    <3>1. \A i \in 1 .. m : <<refs[i]>> \in Seq(P) /\ <<refs[i]>> # <<>>
      BY <2>2
    <3>2. <<>> \in Seq(P)
      OBVIOUS
    <3> QED
      BY <3>1, <3>2 DEF IsTaken
  <2> HIDE DEF seqs, m, P
  <2>5. IsSelection(seqs, refs, m, P)
    BY <2>2, <2>4 DEF IsSelection
  <2>6. /\ g \in Seq(ToSet(g))
        /\ \A r : r \in ToSet(g) <=> \E i \in 1 .. m : r = refs[i] /\ IsTaken(seqs, refs, i)
    BY <2>5, SelectionHolds
  <2>7. \A i \in 1 .. m : kept(i) => refs[i].from \in IdsOf(ToSet(nodes))
    BY DEF IdsOf, ToSet
  <2> HIDE DEF kept
  <2>8. refs' \in Seq(ToSet(refs')) /\ \A r \in ToSet(refs') : r.from \in IdsOf(ToSet(nodes))
    BY <2>3, <2>4, <2>6, <2>7
  <2> QED
    BY <1>0, <2>1, <2>8 DEF FileInv, FromDeclared
<1>4. CASE UNCHANGED treeVars
  BY <1>4 DEF treeVars, FileInv
<1> QED
  BY <1>1, <1>2, <1>3, <1>4, CallsKeepFile DEF ExtractionNext

\* A step of the Go plugin's walks keeps to it.
LEMMA GoFileStep ==
    ASSUME ExtractInv, FileInv, NoRefsYet, [GoNext]_<<treeVars, typedVars>>
    PROVE  FileInv' /\ NoRefsYet'
<1>0. /\ AreDeclarations(nodes) /\ WellBased(bases) /\ refs \in Seq(ToSet(refs))
  BY DEF FileInv
<1>1. ASSUME VisitGo PROVE FileInv' /\ NoRefsYet'
  <2>1. walk = "declare" /\ walk' = "declare" /\ refs' = refs
    BY <1>1, Zenon DEF VisitGo
  <2> DEFINE n(s, up) == [k |-> s.k, name |-> s.name, of |-> s.of, recv |-> s.recv, up |-> up]
             at == Len(tree) + 1
  <2>2. PICK s \in GoSyntax, up \in Parents :
           \/ ImportSpec(n(s, up)) \/ TypeSpec(n(s, up), at) \/ FieldDeclaration(n(s, up)) \/ MethodElem(n(s, up))
           \/ TypeIdentifier(n(s, up)) \/ GoFuncDecl(n(s, up), at) \/ MethodDecl(n(s, up), at) \/ Variable(n(s, up))
           \/ PassGo(n(s, up))
    BY <1>1, ZenonT(60) DEF VisitGo
  <2> DEFINE x == n(s, up)
  <2> HIDE DEF x, at
  <2>3. AreDeclarations(nodes')
    <3>1. CASE ImportSpec(x) \/ FieldDeclaration(x) \/ MethodElem(x) \/ TypeIdentifier(x) \/ Variable(x) \/ PassGo(x)
      <4>1. UNCHANGED nodes
        BY <3>1, Zenon DEF ImportSpec, FieldDeclaration, MethodElem, TypeIdentifier, Variable, PassGo
      <4> QED
        BY <1>0, <4>1
    <3>2. CASE TypeSpec(x, at)
      BY <1>0, <3>2, DeclsAreDeclarations, OneMoreDeclared, Zenon DEF TypeSpec
    <3>3. CASE GoFuncDecl(x, at)
      BY <1>0, <3>3, DeclsAreDeclarations, OneMoreDeclared, Zenon DEF GoFuncDecl
    <3>4. CASE MethodDecl(x, at)
      BY <1>0, <3>4, DeclsAreDeclarations, OneMoreDeclared, Zenon DEF MethodDecl
    <3> QED
      BY <2>2, <3>1, <3>2, <3>3, <3>4 DEF x, at
  <2>4. WellBased(bases')
    <3>1. CASE TypeIdentifier(x)
      <4> DEFINE type == tree[Nearest({"interface"}, x.up)].name
                 list == Append(bases[type], x.name)
                 m == Len(NameOrder)
                 seqs == [i \in 1 .. m |-> Only(list, {NameOrder[i]})]
                 g == FlattenSeq(seqs)
                 B == ToSet(list)
      <4>1. m \in Nat /\ DOMAIN NameOrder = 1 .. m
        BY ExtractionAssumption
      <4>2. bases' = bases \/ bases' = [bases EXCEPT ![type] = g]
        BY <3>1, <4>1 DEF TypeIdentifier
      <4>3. CASE type \in DOMAIN bases
        <5>1. list \in Seq(ToSet(list))
          BY <1>0, <4>3, AppendHolds DEF WellBased
        <5> HIDE DEF list, type, m, B
        <5>2. \A i \in 1 .. m : seqs[i] \in Seq(B)
          BY <5>1, OnlyIsAList DEF B
        <5>3. seqs \in [1 .. m -> Seq(B)]
          BY <5>2
        <5>4. g \in Seq(B)
          BY <4>1, <5>3, FlattenHolds
        <5>5. g \in Seq(ToSet(g))
          BY <5>4, RangesAreFinite
        <5> HIDE DEF g
        <5>6. WellBased([bases EXCEPT ![type] = g])
          BY <1>0, <5>5, OneMoreBase
        <5> QED
          BY <1>0, <4>2, <5>6
      <4>4. CASE type \notin DOMAIN bases
        <5> HIDE DEF g, type
        <5>1. WellBased([bases EXCEPT ![type] = g])
          BY <1>0, <4>4 DEF WellBased
        <5> QED
          BY <1>0, <4>2, <5>1
      <4> QED
        BY <4>3, <4>4
    <3>2. CASE ~ TypeIdentifier(x)
      <4>1. bases' = bases
        BY <2>2, <3>2, Zenon DEF x, at, ImportSpec, TypeSpec, FieldDeclaration, MethodElem, GoFuncDecl, MethodDecl, Variable, PassGo
      <4> QED
        BY <1>0, <4>1
    <3> QED
      BY <3>1, <3>2
  <2> QED
    BY <1>0, <2>1, <2>3, <2>4 DEF FileInv, NoRefsYet
<1>2. CASE EndOfGoFile
  <2>1. /\ walk = "declare" /\ walk' = "calls" /\ tree' = tree /\ nodes' = nodes /\ refs' = refs /\ bases' = bases
        /\ refs = <<>>
    BY <1>2, Zenon DEF EndOfGoFile, NoRefsYet
  <2>2. ToSet(<<>>) = {}
    BY DEF ToSet
  <2> QED
    BY <1>0, <2>1, <2>2 DEF FileInv, NoRefsYet, FromDeclared
<1>3. CASE UNCHANGED <<treeVars, typedVars>>
  BY <1>3 DEF treeVars, FileInv, NoRefsYet
<1>4. Calls => NoRefsYet'
  BY DEF Calls, NoRefsYet
<1> QED
  BY <1>1, <1>2, <1>3, <1>4, CallsKeepFile DEF GoNext

\* What a plugin parses of a complete tree.
LEMMA ParsedFile ==
    ASSUME IsTree(tree), NEW decls, decls \in Seq(1 .. Len(tree)), NEW decl,
           \A k \in DOMAIN decls : IsDeclaration(decl[decls[k]])
    PROVE  AreDeclarations([k \in DOMAIN decls |-> decl[decls[k]]])
<1> DEFINE ns == [k \in DOMAIN decls |-> decl[decls[k]]]
           B == {decl[decls[k]] : k \in DOMAIN decls}
<1>1. DOMAIN decls = 1 .. Len(decls) /\ Len(decls) \in Nat
  OBVIOUS
<1>2. ns \in Seq(B)
  BY <1>1
<1>3. ns \in Seq(ToSet(ns))
  <2> HIDE DEF ns, B
  <2> QED
    BY <1>2, RangesAreFinite
<1>4. \A d \in ToSet(ns) : \E k \in DOMAIN decls : d = decl[decls[k]]
  BY DEF ToSet
<1> HIDE DEF ns
<1> QED
  BY <1>3, <1>4 DEF AreDeclarations, ns

\* A step of the Python plugin's walks keeps to it.
LEMMA PyFileStep ==
    ASSUME ParseInv, FileInv, [PyNext]_<<treeVars, typedVars>>
    PROVE  FileInv'
<1>0. /\ AreDeclarations(nodes) /\ WellBased(bases) /\ refs \in Seq(ToSet(refs)) /\ ExtractInv
  BY DEF FileInv, ParseInv
<1>1. ASSUME ParsePy PROVE FileInv'
  <2> DEFINE classes == NodesOf({"class"})
             decls == InOrder(ToSet(classes \o FuncDefs))
             decl == [i \in 1 .. Len(tree) |-> PyDecl(i)]
             under(t) == UNION {ToSet(tree[i].recv) : i \in {c \in ToSet(classes) : tree[c].name = t}}
  <2>1. /\ walk = "declare" /\ walk' = "calls" /\ nodes' = [k \in DOMAIN decls |-> PyDecl(decls[k])]
        /\ bases' = [t \in ToSet(NameOrder) |-> Only(NameOrder, under(t))]
    BY <1>1, Zenon DEF ParsePy
  <2>2. IsTree(tree) /\ IsWalked(tree, nodes', refs') /\ FromDeclared(refs', nodes')
    <3>1. IsWalked(tree, nodes, refs) /\ HasNames(tree)
      BY <2>1 DEF ParseInv, ExtractInv
    <3> QED
      BY <1>1, <3>1, PyParsed DEF IsWalked, FromDeclared
  <2>3. decls \in Seq(1 .. Len(tree))
    BY <2>2, InOrderHolds
  <2> HIDE DEF decls, classes
  <2>4. \A i : IsDeclaration(PyDecl(i))
    BY DeclsAreDeclarations, Zenon DEF PyDecl
  <2>5. \A k \in DOMAIN decls : decls[k] \in 1 .. Len(tree)
    BY <2>3
  <2>6. nodes' = [k \in DOMAIN decls |-> decl[decls[k]]]
    BY <2>1, <2>5
  <2>7. \A k \in DOMAIN decls : IsDeclaration(decl[decls[k]])
    BY <2>4, <2>5
  <2> HIDE DEF decl
  <2>8. AreDeclarations(nodes')
    BY <2>2, <2>3, <2>6, <2>7, ParsedFile
  <2>9. WellBased(bases')
    <3>1. NameOrder \in Seq(ToSet(NameOrder))
      BY ExtractionAssumption
    <3>2. \A t : Only(NameOrder, under(t)) \in Seq(ToSet(Only(NameOrder, under(t))))
      BY <3>1, OnlyIsAList
    <3> HIDE DEF under
    <3> QED
      BY <2>1, <3>2 DEF WellBased
  <2> QED
    BY <2>1, <2>2, <2>8, <2>9 DEF FileInv, IsWalked
<1>2. CASE VisitPy
  <2>1. /\ walk' = walk /\ nodes' = nodes /\ refs' = refs /\ bases' = bases
    BY <1>2, Zenon DEF VisitPy
  <2> QED
    BY <2>1 DEF FileInv
<1>3. CASE UNCHANGED <<treeVars, typedVars>>
  BY <1>3 DEF treeVars, FileInv
<1> QED
  BY <1>0, <1>1, <1>2, <1>3, CallsKeepFile DEF PyNext

\* A step of the TypeScript plugin's walks keeps to it.
LEMMA TsFileStep ==
    ASSUME ParseInv, FileInv, [TsNext]_<<treeVars, typedVars>>
    PROVE  FileInv'
<1>0. /\ AreDeclarations(nodes) /\ WellBased(bases) /\ refs \in Seq(ToSet(refs)) /\ ExtractInv
  BY DEF FileInv, ParseInv
<1>1. ASSUME ParseTs PROVE FileInv'
  <2> DEFINE classes == NodesOf({"class"})
             decls == InOrder({i \in DOMAIN tree : IsDeclared(i)})
             decl == [i \in 1 .. Len(tree) |-> TsDecl(i)]
             under(t) == UNION {HeritageOf(i) : i \in {c \in ToSet(classes) : tree[c].name = t}}
  <2>1. /\ walk = "declare" /\ walk' = "calls" /\ nodes' = [k \in DOMAIN decls |-> TsDecl(decls[k])]
        /\ bases' = [t \in ToSet(NameOrder) |-> Only(NameOrder, under(t))]
    BY <1>1, Zenon DEF ParseTs
  <2>2. IsTree(tree) /\ IsWalked(tree, nodes', refs') /\ FromDeclared(refs', nodes')
    <3>1. IsWalked(tree, nodes, refs) /\ HasNames(tree)
      BY <2>1 DEF ParseInv, ExtractInv
    <3> QED
      BY <1>1, <3>1, TsParsed DEF IsWalked, FromDeclared
  <2>3. /\ decls \in Seq(1 .. Len(tree))
        /\ \A k \in DOMAIN decls : decls[k] \in {i \in DOMAIN tree : IsDeclared(i)}
    BY <2>2, InOrderHolds
  <2> HIDE DEF decls, classes
  <2>4. \A i : IsDeclared(i) => IsDeclaration(TsDecl(i))
    <3>1. ASSUME NEW i, IsDeclared(i) PROVE IsDeclaration(TsDecl(i))
      <4>1. tree[i].k \in {"class", "interface", "alias", "method", "arrow", "function"}
        BY <3>1 DEF IsDeclared
      <4>2. \/ TsDecl(i) \in {PlainDecl(kind, tree[i].name, <<tree[i].name>>, i) : kind \in {"class", "interface", "function"}}
            \/ TsDecl(i) = PlainDecl("method", tree[i].name, <<ClassOf(i), tree[i].name>>, i)
        BY <4>1 DEF TsDecl
      <4> QED
        BY <4>2, DeclsAreDeclarations, Zenon
    <3> QED
      BY <3>1
  <2>5. \A k \in DOMAIN decls : decls[k] \in 1 .. Len(tree) /\ IsDeclared(decls[k])
    BY <2>3
  <2>6. nodes' = [k \in DOMAIN decls |-> decl[decls[k]]]
    BY <2>1, <2>5
  <2>7. \A k \in DOMAIN decls : IsDeclaration(decl[decls[k]])
    BY <2>4, <2>5
  <2> HIDE DEF decl
  <2>8. AreDeclarations(nodes')
    BY <2>2, <2>3, <2>6, <2>7, ParsedFile
  <2>9. WellBased(bases')
    <3>1. NameOrder \in Seq(ToSet(NameOrder))
      BY ExtractionAssumption
    <3>2. \A t : Only(NameOrder, under(t)) \in Seq(ToSet(Only(NameOrder, under(t))))
      BY <3>1, OnlyIsAList
    <3> HIDE DEF under
    <3> QED
      BY <2>1, <3>2 DEF WellBased
  <2> QED
    BY <2>1, <2>2, <2>8, <2>9 DEF FileInv, IsWalked
<1>2. CASE VisitTs
  <2>1. /\ walk' = walk /\ nodes' = nodes /\ refs' = refs /\ bases' = bases
    BY <1>2, Zenon DEF VisitTs
  <2> QED
    BY <2>1 DEF FileInv
<1>3. CASE UNCHANGED <<treeVars, typedVars>>
  BY <1>3 DEF treeVars, FileInv
<1> QED
  BY <1>0, <1>1, <1>2, <1>3, CallsKeepFile DEF TsNext

\* What is asked of each file of a repository, one by one.
SoundFile(f) ==
    /\ f.path # "external" /\ f.family \in ToSet(Families)
    /\ f.nodes \in Seq(ToSet(f.nodes)) /\ f.refs \in Seq(ToSet(f.refs))
    /\ \A t \in DOMAIN f.bases : f.bases[t] \in Seq(ToSet(f.bases[t]))
    /\ IsFiniteSet(DOMAIN f.bases)
    /\ \A x \in f.methods : x = <<x[1], x[2]>>
    /\ \A i \in DOMAIN f.nodes : f.nodes[i].id.file = f.path /\ f.nodes[i].id.q \in Seq(ToSet(f.nodes[i].id.q))
    /\ \A i, j \in DOMAIN f.nodes : f.nodes[i].id = f.nodes[j].id => f.nodes[i].name = f.nodes[j].name
    /\ \A i \in DOMAIN f.refs : \E j \in DOMAIN f.nodes : f.refs[i].from = f.nodes[j].id

\* A repository is sound if its files are, and each has a path of its own.
LEMMA SoundFiles ==
    \A fs : Sound(fs) <=> /\ IsFiniteSet(fs) /\ \A f \in fs : SoundFile(f)
                         /\ \A f, g \in fs : f.path = g.path => f = g
BY Zenon DEF Sound, SoundFile

\* Files of two paths make a repository.
LEMMA SoundTogether ==
    ASSUME NEW f, NEW g, Sound({f}), Sound({g}), f.path # g.path
    PROVE  Sound({f, g})
<1>1. IsFiniteSet({f, g})
  BY FS_EmptySet, FS_AddElement
<1>2. \A h, k \in {f, g} : h.path = k.path => h = k
  OBVIOUS
<1> QED
  BY <1>1, <1>2, SoundFiles

\* What is handed over of a file that is read.
IsHandedOver(f) ==
    /\ f.path = Path /\ f.family = Family /\ f.nodes = nodes /\ f.refs = refs /\ f.bases = bases
    /\ \A x \in f.methods : x = <<x[1], x[2]>>

\* It is sound: pass 2 gets what it relies on.
LEMMA ReadFilesAreSound ==
    ASSUME FileInv, walk = "done", NEW f, IsHandedOver(f)
    PROVE  Sound({f})
<1>1. /\ f.path = Path /\ f.family = Family /\ f.nodes = nodes /\ f.refs = refs /\ f.bases = bases
      /\ \A x \in f.methods : x = <<x[1], x[2]>>
  BY DEF IsHandedOver
<1>2. IsFiniteSet({f})
  BY FS_EmptySet, FS_AddElement
<1>3. f.path # "external" /\ f.family \in ToSet(Families)
  BY <1>1, PassesAssumption
<1>4. f.nodes \in Seq(ToSet(f.nodes)) /\ f.refs \in Seq(ToSet(f.refs))
  BY <1>1 DEF FileInv, AreDeclarations
<1>5. \A t \in DOMAIN f.bases : f.bases[t] \in Seq(ToSet(f.bases[t]))
  BY <1>1 DEF FileInv, WellBased
<1>6. IsFiniteSet(DOMAIN f.bases)
  <2>1. DOMAIN f.bases = ToSet(NameOrder)
    BY <1>1 DEF FileInv, WellBased
  <2>2. NameOrder \in Seq(ToSet(NameOrder))
    BY ExtractionAssumption
  <2> QED
    BY <2>1, <2>2, RangesAreFinite
<1>7. \A i \in DOMAIN f.nodes : IsDeclaration(f.nodes[i])
  BY <1>1 DEF FileInv, AreDeclarations, ToSet
<1>8. \A i \in DOMAIN f.nodes : f.nodes[i].id.file = f.path /\ f.nodes[i].id.q \in Seq(ToSet(f.nodes[i].id.q))
  BY <1>1, <1>7 DEF IsDeclaration
<1>9. \A i, j \in DOMAIN f.nodes : f.nodes[i].id = f.nodes[j].id => f.nodes[i].name = f.nodes[j].name
  BY <1>7, Zenon DEF IsDeclaration
<1>10. \A i \in DOMAIN f.refs : \E j \in DOMAIN f.nodes : f.refs[i].from = f.nodes[j].id
  <2> SUFFICES ASSUME NEW i \in DOMAIN f.refs PROVE \E j \in DOMAIN f.nodes : f.refs[i].from = f.nodes[j].id
    OBVIOUS
  <2>1. f.refs[i] \in ToSet(refs)
    BY <1>1 DEF ToSet
  <2>2. PICK d \in ToSet(nodes) : d.id = f.refs[i].from
    BY <2>1 DEF FileInv, FromDeclared, IdsOf
  <2>3. PICK j \in DOMAIN nodes : nodes[j] = d
    BY DEF ToSet
  <2> QED
    BY <1>1, <2>2, <2>3
<1>11. SoundFile(f)
  BY <1>1, <1>3, <1>4, <1>5, <1>6, <1>8, <1>9, <1>10, Zenon DEF SoundFile
<1> QED
  BY <1>2, <1>11, SoundFiles

\* The generic plugins and the others hand over such files.
LEMMA FilesAreHandedOver == IsHandedOver(Extracted) /\ IsHandedOver(TypedExtracted)
<1>1. IsHandedOver(Extracted)
  <2>1. \A x \in Extracted.methods : \E d : x = <<d.id.q[1], d.name>>
    BY DEF Extracted
  <2> QED
    BY <2>1 DEF IsHandedOver, Extracted
<1>2. IsHandedOver(TypedExtracted)
  <2>1. /\ TypedExtracted.methods = {<<m.type, m.name>> : m \in types.methods}
        /\ TypedExtracted.path = Path /\ TypedExtracted.family = Family
        /\ TypedExtracted.nodes = nodes /\ TypedExtracted.refs = refs /\ TypedExtracted.bases = bases
    BY DEF TypedExtracted, Extracted
  <2>2. \A x \in TypedExtracted.methods : \E m : x = <<m.type, m.name>>
    BY <2>1
  <2> QED
    BY <2>1, <2>2 DEF IsHandedOver
<1> QED
  BY <1>1, <1>2

-----------------------------------------------------------------------------
(* Both passes.                                                            *)

Unresolved == /\ files = <<>> /\ pick = <<>> /\ todo = {} /\ edges = [e \in {} |-> "exact"]
              /\ external = {} /\ runs = 0 /\ answers = {}

\* The walks of the plugin chosen, until the file is handed over.
ReadInv ==
    /\ plugin \in {"generic", "go", "python", "typescript"} /\ ExtractInv /\ FileInv
    /\ plugin = "go" => NoRefsYet
    /\ plugin \in {"python", "typescript"} => ParseInv

PassesInv ==
    /\ ReadInv /\ stage \in {"extract", "resolve"}
    /\ stage = "extract" => Unresolved
    /\ Inv /\ Recorded /\ InJobOrder

\* A run of the resolver that has not begun.
StartsWell == \A fs : Sound(fs) /\ ResolverInit(fs) => Inv /\ Recorded /\ InJobOrder

\* Whatever sound repository it is given.
LEMMA RunsStartWell == StartsWell
BY InvInit, RecordedInit, OrderInit DEF StartsWell

\* At the beginning nothing is read, or a repository is given.
LEMMA PassesStart == Init => PassesInv
<1> SUFFICES ASSUME Init PROVE PassesInv
  OBVIOUS
<1>1. ReadInv
  <2>1. walk = "declare" /\ refs = <<>>
    BY Zenon DEF Init, ExtractionInit
  <2>2. HasNames(tree) /\ ExtractInv /\ FileInv
    BY NoNamesYet, NothingWalked, NothingInFile DEF Init
  <2>3. plugin \in {"generic", "go", "python", "typescript"}
    BY DEF Init
  <2> QED
    BY <2>1, <2>2, <2>3 DEF ReadInv, ParseInv, NoRefsYet
<1>2. CASE stage = "extract" /\ ResolverInit({})
  <2>1. Sound({})
    BY SoundFiles, FS_EmptySet
  <2>2. Inv /\ Recorded /\ InJobOrder
    BY <1>2, <2>1, RunsStartWell DEF StartsWell
  <2>3. Unresolved
    BY <1>2, Zenon DEF ResolverInit, Unresolved
  <2> QED
    BY <1>1, <1>2, <2>2, <2>3 DEF PassesInv
<1>3. CASE stage = "resolve" /\ \E fs \in Repos : ResolverInit(fs)
  <2>1. Inv /\ Recorded /\ InJobOrder
    BY <1>3, RunsStartWell, ResolverAssumption DEF StartsWell
  <2> QED
    BY <1>1, <1>3, <2>1 DEF PassesInv
<1> QED
  BY <1>2, <1>3 DEF Init

\* Each step of a plugin reads on.
LEMMA ReadOn == ReadInv /\ Extract /\ plugin' = plugin => ReadInv'
<1> SUFFICES ASSUME ReadInv, Extract, plugin' = plugin PROVE ReadInv'
  OBVIOUS
<1>0. ExtractInv /\ FileInv /\ plugin' \in {"generic", "go", "python", "typescript"}
  BY DEF ReadInv
<1>1. CASE plugin = "generic" /\ ExtractionNext
  <2>1. ExtractInv' /\ FileInv'
    BY <1>0, <1>1, ExtractionStep, FileStep
  <2> QED
    BY <1>0, <1>1, <2>1 DEF ReadInv
<1>2. CASE plugin = "go" /\ GoNext
  <2>1. ExtractInv' /\ FileInv' /\ NoRefsYet'
    BY <1>0, <1>2, GoStep, GoFileStep DEF ReadInv
  <2> QED
    BY <1>0, <1>2, <2>1 DEF ReadInv
<1>3. CASE plugin = "python" /\ PyNext
  <2>1. ParseInv' /\ FileInv'
    BY <1>0, <1>3, PyStep, PyFileStep DEF ReadInv
  <2>2. ParseInv' => ExtractInv'
    BY DEF ParseInv
  <2> QED
    BY <1>0, <1>3, <2>1, <2>2 DEF ReadInv
<1>4. CASE plugin = "typescript" /\ TsNext
  <2>1. ParseInv' /\ FileInv'
    BY <1>0, <1>4, TsStep, TsFileStep DEF ReadInv
  <2>2. ParseInv' => ExtractInv'
    BY DEF ParseInv
  <2> QED
    BY <1>0, <1>4, <2>1, <2>2 DEF ReadInv
<1> QED
  BY <1>1, <1>2, <1>3, <1>4, Zenon DEF Extract

\* A file that was read stays as it is.
LEMMA ReadStays == ReadInv /\ UNCHANGED <<plugin, treeVars, typedVars>> => ReadInv'
<1> SUFFICES ASSUME ReadInv, UNCHANGED <<plugin, treeVars, typedVars>> PROVE ReadInv'
  OBVIOUS
<1>1. ExtractInv'
  BY NothingHappens DEF ReadInv
<1>2. /\ plugin' = plugin /\ tree' = tree /\ nodes' = nodes /\ refs' = refs /\ bases' = bases /\ walk' = walk
  BY DEF treeVars
<1> QED
  BY <1>1, <1>2 DEF ReadInv, FileInv, NoRefsYet, ParseInv

\* Between the passes: what is handed over is sound, with the other file.
LEMMA HandOverIsSound == PassesInv /\ HandOver => \E fs : Sound(fs) /\ ResolverInit(fs)'
<1> SUFFICES ASSUME PassesInv, HandOver PROVE \E fs : Sound(fs) /\ ResolverInit(fs)'
  OBVIOUS
<1>1. FileInv /\ walk = "done" /\ Unresolved
  BY DEF PassesInv, ReadInv, HandOver
<1> DEFINE mine == IF plugin = "generic" THEN Extracted ELSE TypedExtracted
<1>2. PICK f \in Others[plugin] : repo' = {f, mine}
  BY Zenon DEF HandOver
<1>3. Sound({f}) /\ f.path # Path
  <2>1. plugin \in {"generic", "go", "python", "typescript"}
    BY <1>1, Zenon DEF PassesInv, ReadInv
  <2> QED
    BY <1>2, <2>1, PassesAssumption
<1>4. IsHandedOver(mine)
  BY FilesAreHandedOver
<1> HIDE DEF mine
<1>5. Sound({mine}) /\ mine.path = Path
  BY <1>1, <1>4, ReadFilesAreSound DEF IsHandedOver
<1>6. Sound({f, mine})
  BY <1>3, <1>5, SoundTogether
<1>7. /\ files' = <<>> /\ pick' = <<>> /\ todo' = {} /\ edges' = [e \in {} |-> "exact"]
      /\ external' = {} /\ runs' = 0 /\ answers' = {}
  BY <1>1, Zenon DEF Unresolved, HandOver
<1>8. PICK fs : fs = {f, mine}
  OBVIOUS
<1>9. ResolverInit(fs)'
  BY <1>2, <1>7, <1>8, Zenon DEF ResolverInit
<1> QED
  BY <1>6, <1>8, <1>9

\* One step of both.
LEMMA PassesStep == PassesInv /\ [Next]_<<passVars, treeVars, typedVars, vars>> => PassesInv'
<1> SUFFICES ASSUME PassesInv, [Next]_<<passVars, treeVars, typedVars, vars>> PROVE PassesInv'
  OBVIOUS
<1>0. ReadInv /\ stage \in {"extract", "resolve"} /\ Inv /\ Recorded /\ InJobOrder
  BY DEF PassesInv
<1>1. CASE stage = "extract" /\ Extract /\ UNCHANGED <<passVars, vars>>
  <2>1. plugin' = plugin /\ stage' = stage
    BY <1>1 DEF passVars
  <2>2. ReadInv'
    BY <1>0, <1>1, <2>1, ReadOn
  <2>3. Inv' /\ Recorded' /\ InJobOrder'
    BY <1>0, <1>1, InvStep, RecordedStep, OrderStep
  <2>4. Unresolved'
    BY <1>1 DEF PassesInv, Unresolved, vars
  <2> QED
    BY <1>0, <2>1, <2>2, <2>3, <2>4 DEF PassesInv
<1>2. CASE HandOver
  <2>1. stage' = "resolve" /\ ReadInv'
    BY <1>0, <1>2, ReadStays DEF HandOver
  <2>2. StartsWell'
    BY RunsStartWell, PTL
  <2>3. Inv' /\ Recorded' /\ InJobOrder'
    BY <1>2, <2>2, HandOverIsSound DEF StartsWell
  <2> QED
    BY <2>1, <2>3 DEF PassesInv
<1>3. CASE stage = "resolve" /\ ResolverNext /\ UNCHANGED <<passVars, treeVars, typedVars>>
  <2>1. ReadInv' /\ stage' = "resolve"
    BY <1>0, <1>3, ReadStays DEF passVars
  <2>2. Inv' /\ Recorded' /\ InJobOrder'
    BY <1>0, <1>3, InvStep, RecordedStep, OrderStep
  <2> QED
    BY <2>1, <2>2 DEF PassesInv
<1>4. CASE UNCHANGED <<passVars, treeVars, typedVars, vars>>
  <2>1. ReadInv' /\ stage' = stage
    BY <1>0, <1>4, ReadStays DEF passVars
  <2>2. Inv' /\ Recorded' /\ InJobOrder'
    BY <1>0, <1>4, InvStep, RecordedStep, OrderStep
  <2>3. Unresolved' = Unresolved
    BY <1>4 DEF Unresolved, vars
  <2> QED
    BY <1>0, <2>1, <2>2, <2>3 DEF PassesInv
<1> QED
  BY <1>1, <1>2, <1>3, <1>4 DEF Next

\* Both passes together: whatever a file of any of the languages holds, pass 1 hands it over
\* sound, as pass 2 takes it to be, and the invariants of both hold throughout.
THEOREM PassesInvHolds == Spec => []PassesInv
BY PassesStart, PassesStep, PTL DEF Spec

\* So what is proved of each pass holds of both: calls are attributed, and of the file read
\* and any other one the graph is whole, in every run, and has the nearest methods, the
\* classes with all methods, and is the same again.
THEOREM BothPassesHold ==
    Spec => [](CallsAreAttributed /\ GraphIsWhole /\ CallsTheNearest /\ ImplementsIsStructural /\ SameGraphAgain)
<1>1. PassesInv => Inv /\ Recorded /\ InJobOrder /\ ExtractInv
  BY DEF PassesInv, ReadInv
<1>2. ExtractInv => CallsAreAttributed
  BY DEF ExtractInv, CallsAreAttributed
<1> QED
  BY <1>1, <1>2, AnswersAreWhole, NearestIsReached, MethodsDecide, OrderIsOneGraph, PassesInvHolds, PTL

-----------------------------------------------------------------------------
(* What a Go file tells of types.                                          *)

Locals == {"param", "var", "short"}

\* Functions are declared at the top of a file; around a variable or a closure are one of
\* them and closures, and nothing else; a field is in a class, or deeper in it.
IsGoTree(t) ==
    /\ IsTree(t) /\ HasNames(t) /\ \A i \in 1 .. Len(t) : t[i].k # "file"
    /\ \A i \in 1 .. Len(t) :
          /\ t[i].k \in Decls => t[i].up = 0
          /\ t[i].k \in Locals \cup {"closure"} => /\ \E d \in Around(t, i) : t[d].k \in Decls
                                                  /\ \A a \in Around(t, i) : t[a].k \in Decls \cup {"closure"}
          /\ t[i].k = "field" => \E a \in Around(t, i) : t[a].k = "class"

\* Each function that is declared has a node, and each node is of one declaration.
HasItsDecls(t, ns) ==
    /\ ns \in Seq(ToSet(ns))
    /\ \A d \in ToSet(ns) : d.line \in 1 .. Len(t) /\ t[d.line].k = d.kind /\ d.kind # "closure"
    /\ \A d, e \in ToSet(ns) : d.line = e.line => d = e
    /\ \A i \in 1 .. Len(t) : t[i].k \in Decls => \E d \in ToSet(ns) : d.line = i

\* Node j declares a variable of a known type in the function d: its receiver, or a local.
DeclaresIn(t, d, j) ==
    \/ t[j].k = "method" /\ t[j].recv # <<>> /\ d.line = j
    \/ t[j].k \in Locals /\ t[j].of # None /\ d.line \in Around(t, j) /\ t[d.line].k \in Decls
VarKey(t, d, j) == <<d.id, IF t[j].k = "method" THEN t[j].recv[1] ELSE t[j].name>>

\* Node j is a field that is recorded: it has a name and a type; and it is one of the class
\* that is nearest around it.
IsKept(t, j) == t[j].k = "field" /\ None \notin {t[j].name, t[j].of}
ItsClass(t, j) == Max({0} \cup {a \in Around(t, j) : t[a].k \in {"class"}})
FieldKey(t, j) == <<t[ItsClass(t, j)].name, t[j].name>>

\* Of each variable so declared a type is recorded, and no other but of one of them.
TellsVars(t, ns, vs) ==
    /\ \A x \in DOMAIN vs : \E j \in 1 .. Len(t), d \in ToSet(ns) :
          DeclaresIn(t, d, j) /\ x = VarKey(t, d, j) /\ vs[x] = BaseTypeName(t[j].of)
    /\ \A j \in 1 .. Len(t), d \in ToSet(ns) : DeclaresIn(t, d, j) => VarKey(t, d, j) \in DOMAIN vs

\* Likewise of each field that is recorded.
TellsFields(t, fs) ==
    /\ \A x \in DOMAIN fs : \E j \in 1 .. Len(t) : IsKept(t, j) /\ x = FieldKey(t, j) /\ fs[x] = BaseTypeName(t[j].of)
    /\ \A j \in 1 .. Len(t) : IsKept(t, j) => FieldKey(t, j) \in DOMAIN fs

\* The references are the calls, each from the nearest function around it.
CallRef(t, i, d) == Ref("calls", t[i].name, t[i].recv, d.id, i)
TellsCalls(t, ns, rs) ==
    /\ \A r \in ToSet(rs) : \E i \in 1 .. Len(t) : t[i].k = "call" /\ \E d \in NearestIn(t, ns, i) : r = CallRef(t, i, d)
    /\ \A i \in 1 .. Len(t) : t[i].k = "call" => \A d \in NearestIn(t, ns, i) : CallRef(t, i, d) \in ToSet(rs)

GoInv ==
    /\ IsGoTree(tree) /\ HasItsDecls(tree, nodes)
    /\ types = [fields |-> types.fields, methods |-> types.methods, vars |-> types.vars]
    /\ TellsVars(tree, nodes, types.vars) /\ TellsFields(tree, types.fields)
    /\ walk = "done" => TellsCalls(tree, nodes, refs)

\* A tree u that is t and a node x more: around that are its parent and what is around it.
IsGrown(t, x, u, n) ==
    /\ IsTree(u) /\ n \in Nat /\ Len(u) = n + 1 /\ u[n + 1] = x /\ \A i \in 1 .. n : u[i] = t[i]
    /\ x.up \in 0 .. n
    /\ \A i \in 1 .. n : Around(u, i) = Around(t, i) /\ Around(t, i) \subseteq 1 .. i - 1
    /\ Around(u, n + 1) = IF x.up = 0 THEN {} ELSE {x.up} \cup Around(t, x.up)

\* A node where the tree is open makes it such a tree.
LEMMA OneNodeMore ==
    ASSUME NEW t, IsTree(t), NEW x, x.up \in OpenIn(t)
    PROVE  IsGrown(t, x, Append(t, x), Len(t))
<1> DEFINE u == Append(t, x)
           n == Len(t)
<1>1. n \in Nat /\ t \in Seq(ToSet(t)) /\ \A i \in 1 .. n : t[i].up \in 0 .. i - 1
  BY DEF IsTree
<1>2. /\ Len(u) = n + 1 /\ u[n + 1] = x /\ \A i \in 1 .. n : u[i] = t[i]
      /\ u \in Seq(ToSet(u))
  BY <1>1, AppendHolds
<1>3. \A i \in 1 .. n : Around(t, i) \subseteq 1 .. i - 1
  BY AroundIs
<1>4. x.up \in 0 .. n
  <2>1. CASE n = 0
    BY <2>1 DEF OpenIn
  <2>2. CASE n # 0
    <3>1. n \in 1 .. n
      BY <1>1, <2>2
    <3>2. Around(t, n) \subseteq 1 .. n - 1
      BY <1>3, <3>1
    <3>3. x.up = 0 \/ x.up = n \/ x.up \in 1 .. n - 1
      BY <2>2, <3>2 DEF OpenIn
    <3> QED
      BY <1>1, <3>3
  <2> QED
    BY <2>1, <2>2
<1> HIDE DEF u, n
<1>5. IsTree(u)
  <2>1. ASSUME NEW i \in 1 .. n + 1 PROVE u[i].up \in 0 .. i - 1
    <3>1. CASE i = n + 1
      BY <1>1, <1>2, <1>4, <3>1
    <3>2. CASE i # n + 1
      <4>1. i \in 1 .. n
        BY <1>1, <3>2
      <4> QED
        BY <1>1, <1>2, <4>1
    <3> QED
      BY <3>1, <3>2
  <2> QED
    BY <1>2, <2>1 DEF IsTree
<1>6. \A i \in 1 .. n : Around(u, i) = Around(t, i)
  <2>1. Len(t) <= Len(u) /\ \A i \in 1 .. Len(t) : u[i].up = t[i].up
    BY <1>1, <1>2 DEF n
  <2> QED
    BY <1>5, <2>1, AroundStays DEF n
<1>7. Around(u, n + 1) = IF x.up = 0 THEN {} ELSE {x.up} \cup Around(t, x.up)
  <2>1. n + 1 \in 1 .. Len(u)
    BY <1>1, <1>2
  <2>2. Around(u, n + 1) = IF x.up = 0 THEN {} ELSE {x.up} \cup Around(u, x.up)
    BY <1>2, <1>5, <2>1, AroundIs
  <2>3. x.up # 0 => x.up \in 1 .. n
    BY <1>1, <1>4
  <2> QED
    BY <1>6, <2>2, <2>3
<1> QED
  BY <1>1, <1>2, <1>3, <1>4, <1>5, <1>6, <1>7 DEF IsGrown, u, n

\* Of two nodes around one, the one before is around the other.
LEMMA AroundInLine ==
    ASSUME NEW t, IsTree(t), NEW j \in 1 .. Len(t), NEW b \in Around(t, j), t[b].up = 0
    PROVE  \A a \in Around(t, j) : b <= a
<1> DEFINE n == Len(t)
           T == {k \in 0 .. n : \A i \in 1 .. k : \A y \in Around(t, i) : t[y].up = 0 => \A a \in Around(t, i) : y <= a}
<1>1. n \in Nat /\ \A i \in 1 .. n : t[i].up \in 0 .. i - 1
  BY DEF IsTree
<1>2. 0 .. n \subseteq T
  <2>1. 0 \in T
    BY <1>1
  <2>2. ASSUME NEW k \in 1 .. n, k - 1 \in T PROVE k \in T
    <3>1. ASSUME NEW y \in Around(t, k), t[y].up = 0, NEW a \in Around(t, k) PROVE y <= a
      <4>1. t[k].up # 0 /\ Around(t, k) = {t[k].up} \cup Around(t, t[k].up)
        BY <3>1, AroundIs
      <4> DEFINE p == t[k].up
      <4>2. p \in 1 .. k - 1 /\ p \in 1 .. n
        BY <1>1, <4>1
      <4>3. Around(t, p) = IF t[p].up = 0 THEN {} ELSE {t[p].up} \cup Around(t, t[p].up)
        BY <4>2, AroundIs
      <4>4. Around(t, p) \subseteq 1 .. p - 1
        BY <4>2, AroundIs
      <4> HIDE DEF p
      <4>5. CASE y = p
        <5>1. a = p
          BY <3>1, <4>1, <4>3, <4>5 DEF p
        <5> QED
          BY <4>2, <4>5, <5>1
      <4>6. CASE y \in Around(t, p)
        <5>1. CASE a = p
          BY <4>2, <4>4, <4>6, <5>1
        <5>2. CASE a \in Around(t, p)
          BY <2>2, <3>1, <4>2, <4>6, <5>2
        <5> QED
          BY <3>1, <4>1, <5>1, <5>2 DEF p
      <4> QED
        BY <3>1, <4>1, <4>5, <4>6 DEF p
    <3>2. k \in 0 .. n /\ \A j2 \in 1 .. k : j2 = k \/ j2 \in 1 .. k - 1
      BY <1>1
    <3> QED
      BY <2>2, <3>1, <3>2
  <2> HIDE DEF T
  <2> QED
    BY <1>1, <2>1, <2>2, StepByStep
<1>3. n \in 0 .. n
  BY <1>1
<1> QED
  BY <1>2, <1>3

\* One function only is declared around a variable: that which Nearest finds.
LEMMA OneFunctionAround ==
    ASSUME NEW t, IsGoTree(t), NEW j \in 1 .. Len(t),
           NEW a \in Around(t, j), NEW b \in Around(t, j), t[a].k \in Decls, t[b].k \in Decls
    PROVE  a = b
<1>0. IsTree(t)
  BY DEF IsGoTree
<1>1. Around(t, j) \subseteq 1 .. j - 1 /\ Len(t) \in Nat
  <2>1. Around(t, j) \subseteq 1 .. j - 1
    BY Zenon, <1>0, AroundIs
  <2>2. Len(t) \in Nat
    BY <1>0 DEF IsTree
  <2> QED
    BY <2>1, <2>2
<1>2. a \in 1 .. Len(t) /\ b \in 1 .. Len(t)
  BY <1>1
<1>3. t[a].up = 0 /\ t[b].up = 0
  BY <1>2 DEF IsGoTree
<1>4. a <= b /\ b <= a
  BY SMTT(40), <1>0, <1>3, AroundInLine
<1> QED
  BY <1>2, <1>4

\* A node where the grammar has it leaves a tree of Go.
LEMMA GoTreeGrows ==
    ASSUME IsGoTree(tree), NEW s \in GoSyntax, NEW up \in Parents, Fits(s, up)
    PROVE  IsGoTree(Append(tree, [k |-> s.k, name |-> s.name, of |-> s.of, recv |-> s.recv, up |-> up]))
<1> DEFINE x == [k |-> s.k, name |-> s.name, of |-> s.of, recv |-> s.recv, up |-> up]
           u == Append(tree, x)
           n == Len(tree)
<1>1. x.k = s.k /\ x.recv = s.recv /\ x.up = up
  OBVIOUS
<1>2. IsTree(tree) /\ HasNames(tree) /\ up \in OpenIn(tree)
  BY ParentsAre DEF IsGoTree
<1>3. /\ s.recv \in Seq(STRING)
      /\ s.k \in {"import", "class", "interface", "field", "signature", "typename", "function",
                  "method", "param", "var", "short", "closure", "call"}
  BY GoPluginAssumption
<1> DEFINE within == IF up = 0 THEN "file" ELSE tree[up].k
<1>4. /\ s.k \in Decls => within = "file"
      /\ s.k = "field" => within \in {"class", "field"}
      /\ s.k = "param" => within \in Decls
      /\ s.k \in {"var", "short", "closure"} => within \in {"closure"} \cup Decls
  BY <1>3 DEF Fits, Decls
<1> HIDE DEF x
<1>5. /\ IsTree(u) /\ n \in Nat /\ Len(u) = n + 1 /\ u[n + 1] = x /\ \A i \in 1 .. n : u[i] = tree[i]
      /\ x.up \in 0 .. n
      /\ \A i \in 1 .. n : Around(u, i) = Around(tree, i) /\ Around(tree, i) \subseteq 1 .. i - 1
      /\ Around(u, n + 1) = IF x.up = 0 THEN {} ELSE {x.up} \cup Around(tree, x.up)
  BY <1>1, <1>2, OneNodeMore DEF IsGrown
<1>6. HasNames(u)
  BY <1>1, <1>2, <1>3, NamesGrow
<1>7. u[n + 1].k # "file"
  BY <1>1, <1>3, <1>5
<1> HIDE DEF u, n
<1>8. \A i \in 1 .. n :
          /\ tree[i].k \in Decls => tree[i].up = 0
          /\ tree[i].k \in Locals \cup {"closure"} => /\ \E d \in Around(tree, i) : tree[d].k \in Decls
                                                     /\ \A a \in Around(tree, i) : tree[a].k \in Decls \cup {"closure"}
          /\ tree[i].k = "field" => \E a \in Around(tree, i) : tree[a].k = "class"
  BY DEF IsGoTree, n
<1>9. ASSUME NEW i \in 1 .. n
      PROVE  /\ u[i].k \in Decls => u[i].up = 0
             /\ u[i].k \in Locals \cup {"closure"} => /\ \E d \in Around(u, i) : u[d].k \in Decls
                                                     /\ \A a \in Around(u, i) : u[a].k \in Decls \cup {"closure"}
             /\ u[i].k = "field" => \E a \in Around(u, i) : u[a].k = "class"
  <2>1. \A a \in Around(tree, i) : a \in 1 .. n
    BY <1>5
  <2>2. u[i] = tree[i] /\ Around(u, i) = Around(tree, i) /\ \A a \in Around(tree, i) : u[a] = tree[a]
    BY <1>5, <2>1
  <2> QED
    BY <1>8, <2>2
<1>10. x.up # 0 => x.up \in 1 .. n /\ u[x.up] = tree[x.up]
  BY <1>5
<1>11. \A i \in 1 .. n : tree[i].k # "file"
  BY DEF IsGoTree, n
<1>12. /\ x.k \in Decls => x.up = 0
       /\ x.k = "field" => x.up # 0 /\ u[x.up].k \in {"class", "field"}
       /\ x.k \in Locals \cup {"closure"} => x.up # 0 /\ tree[x.up].k \in {"closure"} \cup Decls
  <2>1. up # 0 => tree[up].k # "file" /\ u[up].k = tree[up].k
    BY <1>1, <1>10, <1>11
  <2> QED
    BY <1>1, <1>4, <2>1 DEF Decls, Locals
<1>13. x.k \in Locals \cup {"closure"} => /\ \E d \in Around(u, n + 1) : u[d].k \in Decls
                                         /\ \A a \in Around(u, n + 1) : u[a].k \in Decls \cup {"closure"}
  <2> SUFFICES ASSUME x.k \in Locals \cup {"closure"}
               PROVE  /\ \E d \in Around(u, n + 1) : u[d].k \in Decls
                      /\ \A a \in Around(u, n + 1) : u[a].k \in Decls \cup {"closure"}
    OBVIOUS
  <2>1. x.up \in 1 .. n /\ u[x.up] = tree[x.up] /\ tree[x.up].k \in {"closure"} \cup Decls
    BY <1>10, <1>12
  <2>2. Around(u, n + 1) = {x.up} \cup Around(tree, x.up) /\ Around(u, x.up) = Around(tree, x.up)
    BY <1>5, <1>12
  <2>3. u[x.up].k = "closure" => /\ \E d \in Around(u, x.up) : u[d].k \in Decls
                                 /\ \A a \in Around(u, x.up) : u[a].k \in Decls \cup {"closure"}
    BY <1>9, <2>1
  <2>4. u[x.up].k \in Decls => Around(u, x.up) = {}
    <3>1. u[x.up].k \in Decls => u[x.up].up = 0
      BY <1>9, <2>1
    <3>2. u[x.up].up = 0 => Around(tree, x.up) = {}
      BY <1>2, <2>1, AroundIs DEF n
    <3> QED
      BY <2>2, <3>1, <3>2
  <2> QED
    BY <2>1, <2>2, <2>3, <2>4
<1>14. x.k = "field" => \E a \in Around(u, n + 1) : u[a].k = "class"
  <2> SUFFICES ASSUME x.k = "field" PROVE \E a \in Around(u, n + 1) : u[a].k = "class"
    OBVIOUS
  <2>1. x.up \in 1 .. n /\ u[x.up].k \in {"class", "field"}
    BY <1>10, <1>12
  <2>2. Around(u, n + 1) = {x.up} \cup Around(u, x.up)
    BY <1>5, <1>12, <2>1
  <2>3. u[x.up].k = "field" => \E a \in Around(u, x.up) : u[a].k = "class"
    BY <1>9, <2>1
  <2> QED
    BY <2>1, <2>2, <2>3
<1> DEFINE Holds(i) == /\ u[i].k # "file"
                       /\ u[i].k \in Decls => u[i].up = 0
                       /\ u[i].k \in Locals \cup {"closure"} => /\ \E d \in Around(u, i) : u[d].k \in Decls
                                                               /\ \A a \in Around(u, i) : u[a].k \in Decls \cup {"closure"}
                       /\ u[i].k = "field" => \E a \in Around(u, i) : u[a].k = "class"
<1>15. \A i \in 1 .. n : Holds(i)
  BY <1>5, <1>9, <1>11
<1>16. Holds(n + 1)
  BY <1>5, <1>12, <1>7, <1>13, <1>14
<1> HIDE DEF Holds
<1>17. \A i \in 1 .. Len(u) : Holds(i)
  <2>1. \A i \in 1 .. Len(u) : i \in 1 .. n \/ i = n + 1
    BY <1>5
  <2> QED
    BY <1>15, <1>16, <2>1
<1> QED
  BY <1>5, <1>6, <1>17 DEF IsGoTree, Holds, u, x

\* A node that declares is added with its declaration, any other with none.
NodeAdded(x, at, ns, ns2) ==
    \/ x.k \notin Decls /\ ns2 = ns
    \/ \E d : d.line = at /\ d.kind = x.k /\ d.kind # "closure" /\ ns2 = Append(ns, d)

\* So the declarations stay those of the tree.
LEMMA DeclsGrow ==
    ASSUME NEW t, IsTree(t), NEW ns, HasItsDecls(t, ns), NEW x, x.up \in OpenIn(t),
           NEW ns2, NodeAdded(x, Len(t) + 1, ns, ns2)
    PROVE  HasItsDecls(Append(t, x), ns2) /\ \A d \in ToSet(ns2) : d \in ToSet(ns) \/ d.line = Len(t) + 1
<1> DEFINE u == Append(t, x)
           n == Len(t)
<1>1. n \in Nat /\ Len(u) = n + 1 /\ u[n + 1] = x /\ \A i \in 1 .. n : u[i] = t[i]
  BY OneNodeMore DEF IsGrown
<1>2. /\ ns \in Seq(ToSet(ns))
      /\ \A d \in ToSet(ns) : d.line \in 1 .. n /\ t[d.line].k = d.kind /\ d.kind # "closure"
      /\ \A d, e \in ToSet(ns) : d.line = e.line => d = e
      /\ \A i \in 1 .. n : t[i].k \in Decls => \E d \in ToSet(ns) : d.line = i
  BY DEF HasItsDecls
<1> HIDE DEF u, n
<1>3. \A i : i \in 1 .. n + 1 <=> i \in 1 .. n \/ i = n + 1
  BY <1>1
<1>4. CASE x.k \notin Decls /\ ns2 = ns
  <2>1. \A d \in ToSet(ns) : d.line \in 1 .. n + 1 /\ u[d.line].k = d.kind
    BY <1>1, <1>2, <1>3
  <2>2. \A i \in 1 .. n + 1 : u[i].k \in Decls => \E d \in ToSet(ns) : d.line = i
    BY <1>1, <1>2, <1>3, <1>4
  <2> QED
    BY <1>1, <1>2, <1>4, <2>1, <2>2 DEF HasItsDecls, u, n
<1>5. ASSUME NEW d, d.line = n + 1, d.kind = x.k, d.kind # "closure", ns2 = Append(ns, d)
      PROVE  HasItsDecls(u, ns2) /\ \A e \in ToSet(ns2) : e \in ToSet(ns) \/ e.line = n + 1
  <2>1. ns2 \in Seq(ToSet(ns2)) /\ ToSet(ns2) = ToSet(ns) \cup {d}
    BY <1>2, <1>5, AppendHolds
  <2>2. \A e \in ToSet(ns) : e.line \in 1 .. n + 1 /\ e.line # n + 1 /\ u[e.line].k = e.kind
    BY <1>1, <1>2, <1>3
  <2>3. \A e \in ToSet(ns2) : e.line \in 1 .. n + 1 /\ u[e.line].k = e.kind /\ e.kind # "closure"
    BY <1>1, <1>2, <1>3, <1>5, <2>1, <2>2
  <2>4. \A e, f \in ToSet(ns2) : e.line = f.line => e = f
    BY <1>2, <1>5, <2>1, <2>2
  <2>5. \A i \in 1 .. n + 1 : u[i].k \in Decls => \E e \in ToSet(ns2) : e.line = i
    BY <1>1, <1>2, <1>3, <1>5, <2>1
  <2> QED
    BY <1>1, <1>5, <2>1, <2>3, <2>4, <2>5 DEF HasItsDecls
<1> QED
  BY <1>4, <1>5 DEF NodeAdded, u, n

\* What earlier nodes declare stays as it was, and none of it is in a later function.
LEMMA DeclaresAsBefore ==
    ASSUME NEW t, IsGoTree(t), NEW ns, HasItsDecls(t, ns), NEW x, x.up \in OpenIn(t), NEW j \in 1 .. Len(t)
    PROVE  LET u == Append(t, x)
           IN /\ \A d \in ToSet(ns) : (DeclaresIn(u, d, j) <=> DeclaresIn(t, d, j))
              /\ \A d : d.line = Len(t) + 1 => ~ DeclaresIn(u, d, j)
              /\ \A d : VarKey(u, d, j) = VarKey(t, d, j)
              /\ u[j] = t[j]
<1> DEFINE u == Append(t, x)
           n == Len(t)
<1>1. /\ n \in Nat /\ u[j] = t[j] /\ \A i \in 1 .. n : u[i] = t[i]
      /\ Around(u, j) = Around(t, j) /\ Around(t, j) \subseteq 1 .. j - 1
  <2>1. IsTree(t)
    BY DEF IsGoTree
  <2>2. IsGrown(t, x, u, n) /\ j \in 1 .. n
    BY <2>1, OneNodeMore
  <2> HIDE DEF u, n
  <2> QED
    BY <2>2 DEF IsGrown
<1>2. \A d \in ToSet(ns) : d.line \in 1 .. n
  BY DEF HasItsDecls
<1>3. n + 1 # j /\ n + 1 \notin Around(t, j)
  BY <1>1
<1> HIDE DEF u, n
<1>4. ASSUME NEW d \in ToSet(ns) PROVE DeclaresIn(u, d, j) <=> DeclaresIn(t, d, j)
  <2>1. u[d.line] = t[d.line]
    BY <1>1, <1>2
  <2> QED
    BY <1>1, <2>1 DEF DeclaresIn
<1>5. ASSUME NEW d, d.line = n + 1 PROVE ~ DeclaresIn(u, d, j)
  BY <1>1, <1>3, <1>5 DEF DeclaresIn
<1>6. \A d : VarKey(u, d, j) = VarKey(t, d, j)
  BY <1>1 DEF VarKey
<1> QED
  BY <1>1, <1>4, <1>5, <1>6 DEF u, n

\* What is recorded of the variable that a node declares, if it does.
VarAdded(u, at, ns, vs, vs2) ==
    \/ vs2 = vs /\ \A d \in ToSet(ns) : ~ DeclaresIn(u, d, at)
    \/ \E d \in ToSet(ns) : /\ DeclaresIn(u, d, at) /\ \A e \in ToSet(ns) : DeclaresIn(u, e, at) => e = d
                            /\ vs2 = Written(vs, VarKey(u, d, at), BaseTypeName(u[at].of))

\* So the types of variables are told as before.
LEMMA VarsGrow ==
    ASSUME NEW t, IsGoTree(t), NEW ns, HasItsDecls(t, ns), NEW x, x.up \in OpenIn(t),
           NEW ns2, NodeAdded(x, Len(t) + 1, ns, ns2),
           NEW vs, TellsVars(t, ns, vs), NEW vs2, VarAdded(Append(t, x), Len(t) + 1, ns2, vs, vs2)
    PROVE  TellsVars(Append(t, x), ns2, vs2)
<1> DEFINE u == Append(t, x)
           n == Len(t)
<1>1. /\ n \in Nat /\ Len(u) = n + 1
      /\ \A i : i \in 1 .. n + 1 <=> i \in 1 .. n \/ i = n + 1
  <2>1. IsTree(t)
    BY DEF IsGoTree
  <2>2. n \in Nat /\ Len(u) = n + 1
    BY <2>1, OneNodeMore DEF IsGrown
  <2> QED
    BY <2>2
<1>2. /\ \A d \in ToSet(ns2) : d \in ToSet(ns) \/ d.line = n + 1
      /\ ToSet(ns) \subseteq ToSet(ns2)
  <2>1. \A d \in ToSet(ns2) : d \in ToSet(ns) \/ d.line = n + 1
    BY DeclsGrow DEF IsGoTree
  <2>2. ns \in Seq(ToSet(ns))
    BY DEF HasItsDecls
  <2>3. ToSet(ns) \subseteq ToSet(ns2)
    <3>1. ns2 = ns \/ \E d : ns2 = Append(ns, d)
      BY DEF NodeAdded
    <3>2. \A d : ToSet(Append(ns, d)) = ToSet(ns) \cup {d}
      BY <2>2, AppendHolds
    <3> QED
      BY <3>1, <3>2
  <2> QED
    BY <2>1, <2>3
<1>3. \A j \in 1 .. n : /\ \A d \in ToSet(ns) : (DeclaresIn(u, d, j) <=> DeclaresIn(t, d, j))
                        /\ \A d : d.line = n + 1 => ~ DeclaresIn(u, d, j)
                        /\ \A d : VarKey(u, d, j) = VarKey(t, d, j)
                        /\ u[j] = t[j]
  BY DeclaresAsBefore
<1>4. /\ \A y \in DOMAIN vs : \E j \in 1 .. n, d \in ToSet(ns) :
            DeclaresIn(t, d, j) /\ y = VarKey(t, d, j) /\ vs[y] = BaseTypeName(t[j].of)
      /\ \A j \in 1 .. n, d \in ToSet(ns) : DeclaresIn(t, d, j) => VarKey(t, d, j) \in DOMAIN vs
  BY DEF TellsVars
<1>5. VarAdded(u, n + 1, ns2, vs, vs2)
  OBVIOUS
<1> HIDE DEF u, n
<1>6. \A y \in DOMAIN vs : \E j \in 1 .. n + 1, d \in ToSet(ns2) :
            DeclaresIn(u, d, j) /\ y = VarKey(u, d, j) /\ vs[y] = BaseTypeName(u[j].of)
  <2> SUFFICES ASSUME NEW y \in DOMAIN vs
               PROVE  \E j \in 1 .. n + 1, d \in ToSet(ns2) :
                         DeclaresIn(u, d, j) /\ y = VarKey(u, d, j) /\ vs[y] = BaseTypeName(u[j].of)
    OBVIOUS
  <2>1. PICK j \in 1 .. n, d \in ToSet(ns) : DeclaresIn(t, d, j) /\ y = VarKey(t, d, j) /\ vs[y] = BaseTypeName(t[j].of)
    BY <1>4
  <2>2. j \in 1 .. n + 1 /\ d \in ToSet(ns2)
    BY <1>1, <1>2
  <2>3. DeclaresIn(u, d, j) /\ VarKey(u, d, j) = VarKey(t, d, j) /\ u[j] = t[j]
    BY <1>3, <2>1
  <2> QED
    BY <2>1, <2>2, <2>3
<1>7. \A j \in 1 .. n, d \in ToSet(ns2) : DeclaresIn(u, d, j) => VarKey(u, d, j) \in DOMAIN vs
  <2> SUFFICES ASSUME NEW j \in 1 .. n, NEW d \in ToSet(ns2), DeclaresIn(u, d, j)
               PROVE  VarKey(u, d, j) \in DOMAIN vs
    OBVIOUS
  <2>1. d \in ToSet(ns)
    BY <1>2, <1>3
  <2>2. DeclaresIn(t, d, j) /\ VarKey(u, d, j) = VarKey(t, d, j)
    BY <1>3, <2>1
  <2> QED
    BY <1>4, <2>1, <2>2
<1>8. CASE vs2 = vs /\ \A d \in ToSet(ns2) : ~ DeclaresIn(u, d, n + 1)
  <2>1. \A j \in 1 .. n + 1, d \in ToSet(ns2) : DeclaresIn(u, d, j) => VarKey(u, d, j) \in DOMAIN vs2
    BY <1>1, <1>7, <1>8
  <2> QED
    BY <1>1, <1>6, <1>8, <2>1 DEF TellsVars, u
<1>9. ASSUME NEW d \in ToSet(ns2), DeclaresIn(u, d, n + 1), \A e \in ToSet(ns2) : DeclaresIn(u, e, n + 1) => e = d,
             vs2 = Written(vs, VarKey(u, d, n + 1), BaseTypeName(u[n + 1].of))
      PROVE  TellsVars(u, ns2, vs2)
  <2> DEFINE key == VarKey(u, d, n + 1)
  <2>1. DOMAIN vs2 = DOMAIN vs \cup {key} /\ \A y \in DOMAIN vs2 : vs2[y] = IF y = key THEN BaseTypeName(u[n + 1].of) ELSE vs[y]
    BY <1>9 DEF Written
  <2>2. ASSUME NEW y \in DOMAIN vs2
        PROVE  \E j \in 1 .. n + 1, e \in ToSet(ns2) : DeclaresIn(u, e, j) /\ y = VarKey(u, e, j) /\ vs2[y] = BaseTypeName(u[j].of)
    <3>1. CASE y = key
      <4>1. n + 1 \in 1 .. n + 1 /\ vs2[y] = BaseTypeName(u[n + 1].of)
        BY <1>1, <2>1, <3>1
      <4> QED
        BY <1>9, <3>1, <4>1
    <3>2. CASE y # key
      <4>1. y \in DOMAIN vs /\ vs2[y] = vs[y]
        BY <2>1, <3>2
      <4> HIDE DEF key
      <4> QED
        BY <1>6, <4>1
    <3> QED
      BY <3>1, <3>2
  <2>3. \A j \in 1 .. n + 1, e \in ToSet(ns2) : DeclaresIn(u, e, j) => VarKey(u, e, j) \in DOMAIN vs2
    BY <1>1, <1>7, <1>9, <2>1
  <2> HIDE DEF key
  <2> QED
    BY <1>1, <2>2, <2>3 DEF TellsVars
<1>10. TellsVars(u, ns2, vs2)
  BY <1>5, <1>8, <1>9, Zenon DEF VarAdded, u
<1> QED
  BY <1>10 DEF u

\* The greatest number of a set is its maximum.
LEMMA GreatestIsMax ==
    ASSUME NEW S \in SUBSET Nat, NEW k \in S, \A l \in S : l <= k
    PROVE  Max(S) = k
<1>1. \A x \in S : (\A l \in S : l <= x) => x = k
  BY SMT
<1> QED
  BY <1>1, Zenon DEF Max

\* Zero is not the maximum if there are others.
LEMMA ZeroAside ==
    ASSUME NEW n \in Nat, NEW S \in SUBSET (1 .. n), S # {}
    PROVE  Max({0} \cup S) \in S /\ Max(S) = Max({0} \cup S)
<1>1. S \in SUBSET (0 .. n) /\ S \in SUBSET Nat /\ {0} \cup S \in SUBSET Nat
  OBVIOUS
<1>2. PICK m \in S : \A k \in S : k <= m
  BY <1>1, GreatestNumber
<1>3. Max(S) = m
  BY <1>1, <1>2, GreatestIsMax
<1>4. m \in {0} \cup S /\ \A k \in {0} \cup S : k <= m
  BY <1>1, <1>2
<1>5. Max({0} \cup S) = m
  BY <1>1, <1>4, GreatestIsMax
<1> QED
  BY <1>2, <1>3, <1>5

\* What is recorded of a field.
FieldAdded(u, at, fs, fs2) ==
    \/ fs2 = fs /\ ~ IsKept(u, at)
    \/ IsKept(u, at) /\ fs2 = Written(fs, FieldKey(u, at), BaseTypeName(u[at].of))

\* The class that a field is in is one around it, and stays that.
LEMMA TheClassStays ==
    ASSUME NEW t, IsGoTree(t), NEW x, x.up \in OpenIn(t), NEW j \in 1 .. Len(t), t[j].k = "field"
    PROVE  LET u == Append(t, x) IN u[j] = t[j] /\ IsKept(u, j) = IsKept(t, j) /\ FieldKey(u, j) = FieldKey(t, j)
<1> DEFINE u == Append(t, x)
           n == Len(t)
           S == {a \in Around(t, j) : t[a].k \in {"class"}}
<1>1. /\ n \in Nat /\ \A i \in 1 .. n : u[i] = t[i]
      /\ Around(u, j) = Around(t, j) /\ Around(t, j) \subseteq 1 .. j - 1 /\ j \in 1 .. n
  <2>1. IsTree(t)
    BY DEF IsGoTree
  <2>2. IsGrown(t, x, u, n) /\ j \in 1 .. n
    BY <2>1, OneNodeMore
  <2> HIDE DEF u, n
  <2> QED
    BY <2>2 DEF IsGrown
<1> HIDE DEF u, n
<1>2. \A a \in Around(t, j) : u[a] = t[a]
  BY <1>1
<1>3. S = {a \in Around(u, j) : u[a].k \in {"class"}}
  BY <1>1, <1>2
<1>4. ItsClass(t, j) = Max({0} \cup S) /\ ItsClass(u, j) = Max({0} \cup S)
  BY <1>3, Zenon DEF ItsClass
<1>5. Max({0} \cup S) \in S
  <2>1. PICK a \in S : TRUE
    BY <1>1 DEF IsGoTree, n
  <2>2. S \in SUBSET (1 .. n) /\ n \in Nat
    BY <1>1
  <2> HIDE DEF S
  <2> QED
    BY <2>1, <2>2, ZeroAside
<1>6. u[ItsClass(u, j)] = t[ItsClass(t, j)] /\ u[j] = t[j]
  BY <1>1, <1>2, <1>4, <1>5
<1> QED
  BY <1>6 DEF FieldKey, IsKept, u

\* So the types of fields are told as before.
LEMMA FieldsGrow ==
    ASSUME NEW t, IsGoTree(t), NEW x, x.up \in OpenIn(t),
           NEW fs, TellsFields(t, fs), NEW fs2, FieldAdded(Append(t, x), Len(t) + 1, fs, fs2)
    PROVE  TellsFields(Append(t, x), fs2)
<1> DEFINE u == Append(t, x)
           n == Len(t)
<1>1. /\ n \in Nat /\ Len(u) = n + 1 /\ u[n + 1] = x /\ \A i \in 1 .. n : u[i] = t[i]
      /\ \A i : i \in 1 .. n + 1 <=> i \in 1 .. n \/ i = n + 1
  BY OneNodeMore DEF IsGoTree, IsGrown
<1>2. \A j \in 1 .. n : t[j].k = "field" => IsKept(u, j) = IsKept(t, j) /\ FieldKey(u, j) = FieldKey(t, j)
  BY TheClassStays
<1>3. /\ \A y \in DOMAIN fs : \E j \in 1 .. n : IsKept(t, j) /\ y = FieldKey(t, j) /\ fs[y] = BaseTypeName(t[j].of)
      /\ \A j \in 1 .. n : IsKept(t, j) => FieldKey(t, j) \in DOMAIN fs
  BY DEF TellsFields
<1>4. FieldAdded(u, n + 1, fs, fs2)
  OBVIOUS
<1> HIDE DEF u, n
<1>5. \A j \in 1 .. n : u[j] = t[j] /\ IsKept(u, j) = IsKept(t, j) /\ (IsKept(t, j) => FieldKey(u, j) = FieldKey(t, j))
  BY <1>1, <1>2 DEF IsKept
<1>6. \A y \in DOMAIN fs : \E j \in 1 .. n + 1 : IsKept(u, j) /\ y = FieldKey(u, j) /\ fs[y] = BaseTypeName(u[j].of)
  <2> SUFFICES ASSUME NEW y \in DOMAIN fs
               PROVE  \E j \in 1 .. n + 1 : IsKept(u, j) /\ y = FieldKey(u, j) /\ fs[y] = BaseTypeName(u[j].of)
    OBVIOUS
  <2>1. PICK j \in 1 .. n : IsKept(t, j) /\ y = FieldKey(t, j) /\ fs[y] = BaseTypeName(t[j].of)
    BY <1>3
  <2> QED
    BY <1>1, <1>5, <2>1
<1>7. \A j \in 1 .. n : IsKept(u, j) => FieldKey(u, j) \in DOMAIN fs
  BY <1>3, <1>5
<1>8. CASE fs2 = fs /\ ~ IsKept(u, n + 1)
  <2>1. \A j \in 1 .. n + 1 : IsKept(u, j) => FieldKey(u, j) \in DOMAIN fs2
    BY <1>1, <1>7, <1>8
  <2> QED
    BY <1>1, <1>6, <1>8, <2>1 DEF TellsFields, u
<1>9. CASE IsKept(u, n + 1) /\ fs2 = Written(fs, FieldKey(u, n + 1), BaseTypeName(u[n + 1].of))
  <2> DEFINE key == FieldKey(u, n + 1)
  <2>1. DOMAIN fs2 = DOMAIN fs \cup {key} /\ \A y \in DOMAIN fs2 : fs2[y] = IF y = key THEN BaseTypeName(u[n + 1].of) ELSE fs[y]
    BY <1>9 DEF Written
  <2>2. ASSUME NEW y \in DOMAIN fs2
        PROVE  \E j \in 1 .. n + 1 : IsKept(u, j) /\ y = FieldKey(u, j) /\ fs2[y] = BaseTypeName(u[j].of)
    <3>1. CASE y = key
      <4>1. n + 1 \in 1 .. n + 1 /\ fs2[y] = BaseTypeName(u[n + 1].of)
        BY <1>1, <2>1, <3>1
      <4> QED
        BY <1>9, <3>1, <4>1
    <3>2. CASE y # key
      <4>1. y \in DOMAIN fs /\ fs2[y] = fs[y]
        BY <2>1, <3>2
      <4> HIDE DEF key
      <4> QED
        BY <1>6, <4>1
    <3> QED
      BY <3>1, <3>2
  <2>3. \A j \in 1 .. n + 1 : IsKept(u, j) => FieldKey(u, j) \in DOMAIN fs2
    BY <1>1, <1>7, <2>1
  <2> HIDE DEF key
  <2> QED
    BY <1>1, <2>2, <2>3 DEF TellsFields, u
<1>10. TellsFields(u, fs2)
  BY <1>4, <1>8, <1>9, Zenon DEF FieldAdded, u
<1> QED
  BY <1>10 DEF u

\* In an empty file nothing is declared and nothing told.
LEMMA NothingTold == ExtractionInit /\ TypedInit => GoInv
<1> SUFFICES ASSUME ExtractionInit, TypedInit PROVE GoInv
  OBVIOUS
<1>1. tree = <<>> /\ nodes = <<>> /\ walk = "declare"
  BY Zenon DEF ExtractionInit
<1>2. types = [fields |-> [x \in {} |-> None], methods |-> {}, vars |-> [x \in {} |-> None]]
  BY DEF TypedInit, NoTypes
<1>3. types = [fields |-> types.fields, methods |-> types.methods, vars |-> types.vars]
      /\ DOMAIN types.fields = {} /\ DOMAIN types.vars = {}
  BY <1>2
<1>4. ToSet(<<>>) = {} /\ <<>> \in Seq({}) /\ Len(<<>>) = 0 /\ 1 .. 0 = {}
  BY DEF ToSet
<1>5. IsGoTree(tree)
  BY <1>1, <1>4 DEF IsGoTree, IsTree, HasNames
<1>6. HasItsDecls(tree, nodes)
  BY <1>1, <1>4 DEF HasItsDecls
<1>7. TellsVars(tree, nodes, types.vars) /\ TellsFields(tree, types.fields)
  BY <1>1, <1>3, <1>4 DEF TellsVars, TellsFields
<1> QED
  BY <1>1, <1>3, <1>5, <1>6, <1>7 DEF GoInv

\* A variable of a tree of Go belongs to the one function that Nearest finds around it.
LEMMA TheOwner ==
    ASSUME NEW t, IsGoTree(t), NEW ns, HasItsDecls(t, ns), NEW j \in 1 .. Len(t), t[j].k \in Locals
    PROVE  \E d \in ToSet(ns) : /\ d.line \in Around(t, j) /\ t[d.line].k \in Decls
                                /\ \A a \in Around(t, j) : t[a].k \in Decls => a = d.line
                                /\ \A e \in ToSet(ns) : e.line \in Around(t, j) /\ t[e.line].k \in Decls => e = d
<1>1. PICK a \in Around(t, j) : t[a].k \in Decls
  BY DEF IsGoTree
<1>2. a \in 1 .. Len(t)
  <2>1. Around(t, j) \subseteq 1 .. j - 1 /\ Len(t) \in Nat
    BY AroundIs DEF IsGoTree, IsTree
  <2> QED
    BY <2>1
<1>3. PICK d \in ToSet(ns) : d.line = a
  BY <1>1, <1>2 DEF HasItsDecls
<1>4. \A b \in Around(t, j) : t[b].k \in Decls => b = a
  BY <1>1, OneFunctionAround
<1> QED
  BY <1>1, <1>3, <1>4 DEF HasItsDecls

\* The id of the function around a variable that is added.
LEMMA OwnerIs ==
    ASSUME IsGoTree(tree), HasItsDecls(tree, nodes), NEW x, x.up \in OpenIn(tree), x.k \in Locals,
           IsGoTree(Append(tree, x)),
           NEW d \in ToSet(nodes), d.line \in Around(Append(tree, x), Len(tree) + 1), tree[d.line].k \in Decls
    PROVE  OwnerID(x.up) = d.id
<1> DEFINE u == Append(tree, x)
           n == Len(tree)
           S == {j \in {x.up} \cup Around(tree, x.up) : tree[j].k \in Decls}
<1>1. /\ n \in Nat /\ Len(u) = n + 1 /\ u[n + 1] = x /\ \A i \in 1 .. n : u[i] = tree[i]
      /\ x.up \in 0 .. n
      /\ Around(u, n + 1) = IF x.up = 0 THEN {} ELSE {x.up} \cup Around(tree, x.up)
      /\ \A i \in 1 .. n : Around(tree, i) \subseteq 1 .. i - 1
  <2>1. IsTree(tree)
    BY DEF IsGoTree
  <2>2. IsGrown(tree, x, u, n)
    BY <2>1, OneNodeMore
  <2> HIDE DEF u, n
  <2> QED
    BY <2>2 DEF IsGrown
<1>2. n + 1 \in 1 .. Len(u)
  BY <1>1
<1>3. x.up # 0 /\ Around(u, n + 1) = {x.up} \cup Around(tree, x.up)
  BY <1>1
<1>4. Around(u, n + 1) \subseteq 1 .. n
  BY <1>1, <1>3
<1>5. d.line \in S
  BY <1>3
<1>6. ASSUME NEW a \in S PROVE a = d.line
  <2>1. a \in Around(u, n + 1) /\ a \in 1 .. n /\ d.line \in 1 .. n
    BY <1>3, <1>4
  <2>2. u[a].k \in Decls /\ u[d.line].k \in Decls
    BY <1>1, <2>1
  <2> HIDE DEF u, n, S
  <2> QED
    BY <1>2, <2>1, <2>2, OneFunctionAround DEF u, n
<1>7. S = {d.line} /\ d.line \in Nat
  BY <1>1, <1>4, <1>5, <1>6
<1> HIDE DEF S
<1>8. Max(S) = d.line
  BY <1>7 DEF Max
<1>9. Nearest(Decls, x.up) = d.line
  BY <1>8 DEF Nearest, S
<1>10. \A e \in ToSet(nodes) : e.line = d.line => e = d
  BY DEF HasItsDecls
<1>11. (CHOOSE e \in ToSet(nodes) : e.line = d.line) = d
  BY <1>10
<1> QED
  BY <1>9, <1>11 DEF OwnerID

\* What is recorded of types: those of fields and variables, and methods.
IsTypes(ts) == ts = [fields |-> ts.fields, methods |-> ts.methods, vars |-> ts.vars]

\* What the three ways to record do.
LEMMA TypesWritten ==
    ASSUME NEW ts, IsTypes(ts)
    PROVE  /\ \A id, name, type : LET u == WithVar(ts, id, name, type)
                                  IN IsTypes(u) /\ u.fields = ts.fields /\ u.vars = Written(ts.vars, <<id, name>>, type)
           /\ \A type, field, is : LET u == WithField(ts, type, field, is)
                                   IN IsTypes(u) /\ u.vars = ts.vars /\ u.fields = Written(ts.fields, <<type, field>>, is)
           /\ \A type, name : LET u == WithMethod(ts, type, name)
                              IN IsTypes(u) /\ u.vars = ts.vars /\ u.fields = ts.fields
<1>1. DOMAIN ts = {"fields", "methods", "vars"}
  BY DEF IsTypes
<1>2. \A id, name, type : LET u == WithVar(ts, id, name, type)
                          IN IsTypes(u) /\ u.fields = ts.fields /\ u.vars = Written(ts.vars, <<id, name>>, type)
  BY DEF IsTypes, WithVar
<1>3. \A type, field, is : LET u == WithField(ts, type, field, is)
                           IN IsTypes(u) /\ u.vars = ts.vars /\ u.fields = Written(ts.fields, <<type, field>>, is)
  BY DEF IsTypes, WithField
<1>4. \A type, name : LET u == WithMethod(ts, type, name)
                      IN IsTypes(u) /\ u.vars = ts.vars /\ u.fields = ts.fields
  BY DEF IsTypes, WithMethod
<1> QED
  BY <1>2, <1>3, <1>4, Zenon

\* The walk comes to a node of Go.
LEMMA GoTellsOn == GoInv /\ VisitGo => GoInv'
<1> SUFFICES ASSUME GoInv, VisitGo PROVE GoInv'
  OBVIOUS
<1>0. /\ IsGoTree(tree) /\ HasItsDecls(tree, nodes) /\ IsTypes(types) /\ IsTree(tree)
      /\ TellsVars(tree, nodes, types.vars) /\ TellsFields(tree, types.fields)
  BY DEF GoInv, IsTypes, IsGoTree
<1>1. walk' = "declare"
  BY Zenon DEF VisitGo
<1> DEFINE n(s, up) == [k |-> s.k, name |-> s.name, of |-> s.of, recv |-> s.recv, up |-> up]
           at == Len(tree) + 1
<1>2. PICK s \in GoSyntax, up \in Parents :
         /\ Fits(s, up) /\ tree' = Append(tree, n(s, up))
         /\ \/ ImportSpec(n(s, up)) \/ TypeSpec(n(s, up), at) \/ FieldDeclaration(n(s, up)) \/ MethodElem(n(s, up))
            \/ TypeIdentifier(n(s, up)) \/ GoFuncDecl(n(s, up), at) \/ MethodDecl(n(s, up), at) \/ Variable(n(s, up))
            \/ PassGo(n(s, up))
  BY ZenonT(60) DEF VisitGo
<1> DEFINE x == n(s, up)
<1>3. x.up \in OpenIn(tree)
  BY <1>0, ParentsAre
<1>4. IsGoTree(tree') /\ tree' = Append(tree, x)
  BY <1>0, <1>2, GoTreeGrows
<1> HIDE DEF x, at
<1>5. IsGrown(tree, x, Append(tree, x), Len(tree))
  BY <1>0, <1>3, OneNodeMore
<1>6. at = Len(tree) + 1 /\ at \in 1 .. Len(tree') /\ tree'[at] = x
  BY <1>4, <1>5 DEF IsGrown, at
<1>7. \A kind, name, q : PlainDecl(kind, name, q, at).line = at /\ PlainDecl(kind, name, q, at).kind = kind
  BY DEF PlainDecl
<1>8. NodeAdded(x, at, nodes, nodes')
  <2>1. CASE ImportSpec(x) \/ FieldDeclaration(x) \/ MethodElem(x) \/ TypeIdentifier(x) \/ Variable(x) \/ PassGo(x)
    <3>1. nodes' = nodes
      BY <2>1, Zenon DEF ImportSpec, FieldDeclaration, MethodElem, TypeIdentifier, Variable, PassGo
    <3>2. x.k \in {"import", "field", "signature", "typename", "param", "var", "short", "closure", "call"}
      BY <2>1 DEF ImportSpec, FieldDeclaration, MethodElem, TypeIdentifier, Variable, PassGo
    <3> QED
      BY <3>1, <3>2 DEF NodeAdded, Decls
  <2>2. CASE TypeSpec(x, at)
    BY <1>7, <2>2 DEF TypeSpec, NodeAdded
  <2>3. CASE GoFuncDecl(x, at)
    BY <1>7, <2>3 DEF GoFuncDecl, NodeAdded
  <2>4. CASE MethodDecl(x, at)
    BY <1>7, <2>4 DEF MethodDecl, NodeAdded
  <2> QED
    BY <1>2, <2>1, <2>2, <2>3, <2>4 DEF x, at
<1>9. HasItsDecls(tree', nodes')
  BY <1>0, <1>3, <1>4, <1>6, <1>8, DeclsGrow
<1>10. x.k \notin Locals \cup {"method"} => \A d \in ToSet(nodes') : ~ DeclaresIn(tree', d, at)
  BY <1>6 DEF DeclaresIn
<1> DEFINE Told == /\ IsTypes(types') /\ VarAdded(tree', at, nodes', types.vars, types'.vars)
                   /\ FieldAdded(tree', at, types.fields, types'.fields)
<1>11. ASSUME ImportSpec(x) \/ MethodElem(x) \/ TypeIdentifier(x) \/ PassGo(x) \/ GoFuncDecl(x, at) \/ TypeSpec(x, at) PROVE Told
  <2>1. x.k \in {"import", "signature", "typename", "closure", "call", "function", "class", "interface"}
    BY <1>11 DEF ImportSpec, MethodElem, TypeIdentifier, PassGo, GoFuncDecl, TypeSpec
  <2>2. IsTypes(types') /\ types'.vars = types.vars /\ types'.fields = types.fields
    <3>1. CASE ImportSpec(x) \/ TypeIdentifier(x) \/ PassGo(x) \/ GoFuncDecl(x, at)
      BY <1>0, <3>1, Zenon DEF ImportSpec, TypeIdentifier, PassGo, GoFuncDecl
    <3>2. CASE MethodElem(x)
      <4>1. PICK type, name : types' = WithMethod(types, type, name)
        BY <3>2 DEF MethodElem
      <4> QED
        BY <1>0, <4>1, TypesWritten
    <3>3. CASE TypeSpec(x, at)
      <4>1. types' = types \/ \E ms : types' = [types EXCEPT !.methods = ms]
        BY <3>3 DEF TypeSpec
      <4> QED
        BY <1>0, <4>1 DEF IsTypes
    <3> QED
      BY <1>11, <3>1, <3>2, <3>3
  <2>3. x.k \notin Locals \cup {"method"} /\ x.k # "field"
    BY <2>1 DEF Locals
  <2> QED
    BY <1>6, <1>10, <2>2, <2>3 DEF VarAdded, FieldAdded, IsKept
<1>12. ASSUME FieldDeclaration(x) PROVE Told
  <2> DEFINE type == tree[Nearest({"class"}, x.up)].name
  <2>1. /\ x.k = "field"
        /\ types' = IF None \in {x.name, x.of} THEN types ELSE WithField(types, type, x.name, BaseTypeName(x.of))
    BY <1>12, Zenon DEF FieldDeclaration
  <2>2. x.k \notin Locals \cup {"method"}
    BY <2>1 DEF Locals
  <2>3. VarAdded(tree', at, nodes', types.vars, types.vars)
    BY <1>10, <2>2 DEF VarAdded
  <2>4. CASE None \in {x.name, x.of}
    <3>1. ~ IsKept(tree', at)
      BY <1>6, <2>4 DEF IsKept
    <3> QED
      BY <1>0, <2>1, <2>3, <2>4, <3>1 DEF FieldAdded
  <2>5. CASE None \notin {x.name, x.of}
    <3> DEFINE S == {a \in Around(tree', at) : tree'[a].k \in {"class"}}
    <3>1. PICK a \in Around(tree', at) : tree'[a].k = "class"
      BY <1>4, <1>6, <2>1 DEF IsGoTree
    <3>2. /\ Around(tree', at) = {x.up} \cup Around(tree, x.up) /\ Around(tree', at) \subseteq 1 .. Len(tree)
          /\ \A b \in Around(tree', at) : tree'[b] = tree[b]
      <4>1. /\ Len(tree) \in Nat /\ x.up \in 0 .. Len(tree)
            /\ Around(tree', at) = IF x.up = 0 THEN {} ELSE {x.up} \cup Around(tree, x.up)
            /\ \A b \in 1 .. Len(tree) : tree'[b] = tree[b] /\ Around(tree, b) \subseteq 1 .. b - 1
        BY <1>4, <1>5, <1>6 DEF IsGrown
      <4>2. x.up \in 1 .. Len(tree) /\ Around(tree', at) = {x.up} \cup Around(tree, x.up)
        BY <3>1, <4>1
      <4>3. Around(tree, x.up) \subseteq 1 .. Len(tree)
        BY <4>1, <4>2
      <4> QED
        BY <4>1, <4>2, <4>3
    <3>3. S = {b \in {x.up} \cup Around(tree, x.up) : tree[b].k \in {"class"}}
      BY <3>2
    <3>4. a \in S /\ S \in SUBSET (1 .. Len(tree)) /\ Len(tree) \in Nat
      BY <1>0, <3>1, <3>2 DEF IsTree
    <3>5. Nearest({"class"}, x.up) = Max(S) /\ ItsClass(tree', at) = Max({0} \cup S)
      BY <3>3, Zenon DEF Nearest, ItsClass
    <3>6. Max({0} \cup S) \in Around(tree', at) /\ Max(S) = Max({0} \cup S)
      <4>1. S \subseteq Around(tree', at)
        OBVIOUS
      <4> HIDE DEF S
      <4> QED
        BY <3>4, <4>1, ZeroAside
    <3> HIDE DEF S
    <3>7. tree'[ItsClass(tree', at)].name = type
      BY <3>2, <3>5, <3>6
    <3> HIDE DEF type
    <3>8. FieldKey(tree', at) = <<type, x.name>> /\ IsKept(tree', at)
      BY <1>6, <2>1, <2>5, <3>7 DEF FieldKey, IsKept
    <3>9. /\ IsTypes(types') /\ types'.vars = types.vars
          /\ types'.fields = Written(types.fields, <<type, x.name>>, BaseTypeName(x.of))
      BY <1>0, <2>1, <2>5, TypesWritten
    <3> QED
      BY <1>6, <2>3, <3>8, <3>9 DEF FieldAdded
  <2> QED
    BY <2>4, <2>5
<1>13. ASSUME MethodDecl(x, at) PROVE Told
  <2> DEFINE type == BaseTypeName(x.of)
             d == PlainDecl("method", x.name, <<type, x.name>>, at)
             ts == WithMethod(types, type, x.name)
  <2>1. /\ x.k = "method" /\ nodes' = Append(nodes, d)
        /\ types' = IF x.recv = <<>> THEN ts ELSE WithVar(ts, d.id, x.recv[1], type)
    BY <1>13 DEF MethodDecl
  <2>2. IsTypes(ts) /\ ts.vars = types.vars /\ ts.fields = types.fields
    BY <1>0, TypesWritten
  <2>3. d \in ToSet(nodes') /\ d.line = at
    <3>1. nodes \in Seq(ToSet(nodes)) /\ d.line = at
      BY <1>0, <1>7 DEF HasItsDecls
    <3> HIDE DEF d
    <3> QED
      BY <2>1, <3>1, AppendHolds
  <2> HIDE DEF d, ts
  <2>4. FieldAdded(tree', at, types.fields, types.fields)
    BY <1>6, <2>1 DEF FieldAdded, IsKept
  <2>5. CASE x.recv = <<>>
    <3>1. \A e \in ToSet(nodes') : ~ DeclaresIn(tree', e, at)
      BY <1>6, <2>1, <2>5 DEF DeclaresIn, Locals
    <3> QED
      BY <2>1, <2>2, <2>4, <2>5, <3>1 DEF VarAdded
  <2>6. CASE x.recv # <<>>
    <3>1. IsTypes(types') /\ types'.fields = types.fields /\ types'.vars = Written(types.vars, <<d.id, x.recv[1]>>, type)
      BY <2>1, <2>2, <2>6, TypesWritten
    <3>2. DeclaresIn(tree', d, at) /\ \A e \in ToSet(nodes') : DeclaresIn(tree', e, at) => e = d
      <4>1. \A e : DeclaresIn(tree', e, at) <=> e.line = at
        BY <1>6, <2>1, <2>6 DEF DeclaresIn, Locals
      <4> QED
        BY <1>9, <2>3, <4>1 DEF HasItsDecls
    <3>3. VarKey(tree', d, at) = <<d.id, x.recv[1]>>
      BY <1>6, <2>1 DEF VarKey
    <3> QED
      BY <1>6, <2>3, <2>4, <3>1, <3>2, <3>3 DEF VarAdded
  <2> QED
    BY <2>5, <2>6
<1>14. ASSUME Variable(x) PROVE Told
  <2>1. /\ x.k \in Locals /\ x.k # "field" /\ x.k # "method" /\ nodes' = nodes
        /\ types' = IF x.of = None THEN types ELSE WithVar(types, OwnerID(x.up), x.name, BaseTypeName(x.of))
    BY <1>14 DEF Variable, Locals
  <2>2. FieldAdded(tree', at, types.fields, types.fields)
    BY <1>6, <2>1 DEF FieldAdded, IsKept
  <2>3. CASE x.of = None
    <3>1. \A e \in ToSet(nodes') : ~ DeclaresIn(tree', e, at)
      BY <1>6, <2>1, <2>3 DEF DeclaresIn
    <3> QED
      BY <1>0, <2>1, <2>2, <2>3, <3>1 DEF VarAdded
  <2>4. CASE x.of # None
    <3>1. PICK d \in ToSet(nodes') : /\ d.line \in Around(tree', at) /\ tree'[d.line].k \in Decls
                                     /\ \A a \in Around(tree', at) : tree'[a].k \in Decls => a = d.line
                                     /\ \A e \in ToSet(nodes') : e.line \in Around(tree', at) /\ tree'[e.line].k \in Decls => e = d
      <4>1. tree'[at].k \in Locals /\ at \in 1 .. Len(tree')
        BY <1>6, <2>1
      <4> QED
        BY <1>4, <1>9, <4>1, TheOwner
    <3>2. tree[d.line].k \in Decls
      <4>1. d.line \in 1 .. Len(tree)
        BY <1>0, <2>1 DEF HasItsDecls
      <4> QED
        BY <1>4, <1>5, <3>1, <4>1 DEF IsGrown
    <3>3. OwnerID(x.up) = d.id
      BY <1>0, <1>3, <1>4, <1>6, <2>1, <3>1, <3>2, OwnerIs
    <3>4. IsTypes(types') /\ types'.fields = types.fields /\ types'.vars = Written(types.vars, <<d.id, x.name>>, BaseTypeName(x.of))
      BY <1>0, <2>1, <2>4, <3>3, TypesWritten
    <3>5. DeclaresIn(tree', d, at) /\ \A e \in ToSet(nodes') : DeclaresIn(tree', e, at) => e = d
      BY <1>6, <2>1, <2>4, <3>1 DEF DeclaresIn
    <3>6. VarKey(tree', d, at) = <<d.id, x.name>>
      BY <1>6, <2>1 DEF VarKey
    <3> QED
      BY <1>6, <2>2, <3>4, <3>5, <3>6 DEF VarAdded
  <2> QED
    BY <2>3, <2>4
<1>15. Told
  BY <1>2, <1>11, <1>12, <1>13, <1>14 DEF x, at
<1>16. TellsVars(tree', nodes', types'.vars)
  BY <1>0, <1>3, <1>4, <1>6, <1>8, <1>15, VarsGrow
<1>17. TellsFields(tree', types'.fields)
  BY <1>0, <1>3, <1>4, <1>6, <1>15, FieldsGrow
<1> QED
  BY <1>1, <1>4, <1>9, <1>15, <1>16, <1>17 DEF GoInv, IsTypes

\* The reference of a call at a node is from the nearest function around it.
LEMMA CallRefsAre ==
    ASSUME IsWalked(tree, nodes, refs), NEW at \in 1 .. Len(tree), NEW r
    PROVE  r \in ToSet(CallsAt(at)) <=> tree[at].k = "call" /\ \E d \in NearestIn(tree, nodes, at) : r = CallRef(tree, at, d)
<1>0. ToSet(<<>>) = {} /\ \A y : ToSet(<<y>>) = {y}
  BY DEF ToSet
<1>1. CASE tree[at].k # "call" \/ ByRange(at) = {}
  <2>1. CallsAt(at) = <<>>
    BY <1>1 DEF CallsAt
  <2>2. tree[at].k = "call" => NearestIn(tree, nodes, at) = {}
    BY <1>1, NarrowestIsNearest
  <2> QED
    BY <1>0, <2>1, <2>2
<1>2. CASE tree[at].k = "call" /\ ByRange(at) # {}
  <2>1. PICK d \in ToSet(nodes) : ByRange(at) = {d}
    BY <1>2, NarrowestIsNearest
  <2>2. (CHOOSE e \in ByRange(at) : TRUE) = d
    BY <2>1
  <2>3. CallsAt(at) = <<CallRef(tree, at, d)>>
    BY <1>2, <2>2 DEF CallsAt, CallRef
  <2>4. NearestIn(tree, nodes, at) = {d}
    BY <1>2, <2>1, NarrowestIsNearest
  <2> QED
    BY <1>0, <1>2, <2>3, <2>4
<1> QED
  BY <1>1, <1>2

\* The second walk, which is the only one that refers to anything.
LEMMA GoCallsTell == ExtractInv /\ NoRefsYet /\ GoInv /\ Calls /\ UNCHANGED typedVars => GoInv'
<1> SUFFICES ASSUME ExtractInv, NoRefsYet, GoInv, Calls, UNCHANGED typedVars PROVE GoInv'
  OBVIOUS
<1>1. IsWalked(tree, nodes, refs) /\ refs = <<>> /\ tree' = tree /\ nodes' = nodes /\ types' = types
  BY DEF Calls, ExtractInv, NoRefsYet, typedVars
<1>2. ToSet(refs) = {}
  BY <1>1 DEF ToSet
<1>3. \A r : r \in ToSet(refs') <=> \E at \in 1 .. Len(tree) : r \in ToSet(CallsAt(at))
  BY <1>1, <1>2, CallsCollect
<1>4. \A r : r \in ToSet(refs') <=> \E at \in 1 .. Len(tree) : tree[at].k = "call"
                                       /\ \E d \in NearestIn(tree, nodes, at) : r = CallRef(tree, at, d)
  BY <1>1, <1>3, CallRefsAre
<1>5. TellsCalls(tree, nodes, refs')
  BY <1>4 DEF TellsCalls
<1> QED
  BY <1>1, <1>5 DEF GoInv

\* Each step of the plugin's walks tells on.
LEMMA GoTells == ExtractInv /\ NoRefsYet /\ GoInv /\ [GoNext]_<<treeVars, typedVars>> => GoInv'
<1> SUFFICES ASSUME ExtractInv, NoRefsYet, GoInv, [GoNext]_<<treeVars, typedVars>> PROVE GoInv'
  OBVIOUS
<1>1. CASE EndOfGoFile
  BY <1>1 DEF EndOfGoFile, GoInv, typedVars
<1>2. CASE UNCHANGED <<treeVars, typedVars>>
  BY <1>2 DEF GoInv, treeVars, typedVars
<1> QED
  BY <1>1, <1>2, GoTellsOn, GoCallsTell DEF GoNext

\* A type is recorded of a variable in the nearest function around a node.
IsToldOf(i, v, t) ==
    t # None /\ \E d \in NearestIn(tree, nodes, i) : <<d.id, v>> \in DOMAIN types.vars /\ types.vars[<<d.id, v>>] = t

\* It is the bare name of what the source shows, where that is one only.
LEMMA PlainVarsAreTold ==
    ASSUME GoInv, NEW i \in 1 .. Len(tree), NEW v, NEW t, GoTypes(i, v) = {t}
    PROVE  IsToldOf(i, v, BaseTypeName(t))
<1>0. /\ IsGoTree(tree) /\ IsTree(tree) /\ HasItsDecls(tree, nodes) /\ TellsVars(tree, nodes, types.vars)
      /\ DOMAIN tree = 1 .. Len(tree)
  BY DEF GoInv, IsGoTree, IsTree
<1> DEFINE ds == Declarations(i, v)
<1>1. ds # {} /\ (\A j \in ds : tree[j].k # "closure" /\ tree[j].of = t) /\ t # None
  BY DEF GoTypes
<1> HIDE DEF ds
<1>2. PICK j \in ds : TRUE
  BY <1>1
<1>3. PICK d \in NearestIn(tree, nodes, i) : TRUE
  <2>1. SameFunction(i) # {}
    BY <1>2 DEF ds, Declarations, InFunction
  <2>2. \E n \in FunctionsAround(i) : \A m \in FunctionsAround(i) : m.line <= n.line
    BY <2>1 DEF SameFunction
  <2> QED
    BY <2>2 DEF NearestIn, FunctionsIn, FunctionsAround
<1>4. /\ d \in ToSet(nodes) /\ d \in FunctionsAround(i) /\ \A m \in FunctionsAround(i) : m.line <= d.line
      /\ \A e \in NearestIn(tree, nodes, i) : e = d
  <2>1. \A e \in NearestIn(tree, nodes, i) : /\ e \in ToSet(nodes) /\ e \in FunctionsAround(i)
                                             /\ \A m \in FunctionsAround(i) : m.line <= e.line
    BY DEF NearestIn, FunctionsIn, FunctionsAround
  <2>2. \A e \in ToSet(nodes) : e.line \in 1 .. Len(tree) /\ (e.line = d.line => e = d)
    BY <1>0, <2>1 DEF HasItsDecls
  <2>3. ASSUME NEW e \in NearestIn(tree, nodes, i) PROVE e = d
    <3>1. e.line <= d.line /\ d.line <= e.line /\ e.line \in 1 .. Len(tree) /\ d.line \in 1 .. Len(tree)
      BY <2>1, <2>2
    <3> QED
      BY <2>1, <2>2, <3>1
  <2> QED
    BY <2>1, <2>3
<1>5. SameFunction(i) = {e.line : e \in {f \in ToSet(nodes) : f.kind \in Decls /\ f.id = d.id}}
  <2>1. \A n \in FunctionsAround(i) : (\A m \in FunctionsAround(i) : m.line <= n.line) => n = d
    BY <1>4 DEF NearestIn, FunctionsIn, FunctionsAround
  <2> QED
    BY <1>4, <2>1 DEF SameFunction, Decls
<1>6. ASSUME NEW e \in ToSet(nodes), e.id = d.id, NEW k \in 1 .. Len(tree), DeclaresIn(tree, e, k), VarKey(tree, e, k) = <<d.id, v>>
      PROVE  k \in ds
  <2>0. tree[e.line].k = e.kind /\ e.kind # "closure"
    BY <1>0 DEF HasItsDecls
  <2>1. e.line \in SameFunction(i)
    <3>1. e.kind \in Decls
      <4>1. CASE tree[k].k = "method" /\ e.line = k
        BY <2>0, <4>1 DEF Decls
      <4>2. CASE tree[k].k \in Locals /\ e.line \in Around(tree, k)
        <5>1. tree[e.line].k \in Decls \cup {"closure"}
          BY <1>0, <4>2 DEF IsGoTree
        <5> QED
          BY <2>0, <5>1
      <4> QED
        BY <1>6, <4>1, <4>2 DEF DeclaresIn
    <3> QED
      BY <1>5, <1>6, <3>1
  <2>2. CASE tree[k].k = "method" /\ tree[k].recv # <<>> /\ e.line = k
    <3>1. tree[k].recv[1] = v
      BY <1>6, <2>2 DEF VarKey
    <3> QED
      BY <2>1, <2>2, <3>1 DEF ds, Declarations
  <2>3. CASE tree[k].k \in Locals /\ e.line \in Around(tree, k)
    <3>1. tree[k].name = v
      BY <1>6, <2>3 DEF VarKey, Locals
    <3>2. k \in InFunction(i)
      BY <1>0, <2>1, <2>3 DEF InFunction
    <3> QED
      BY <2>3, <3>1, <3>2 DEF ds, Declarations, Locals
  <2> QED
    BY <1>6, <2>2, <2>3 DEF DeclaresIn
<1>7. \E e \in ToSet(nodes), k \in 1 .. Len(tree) : e.id = d.id /\ DeclaresIn(tree, e, k) /\ VarKey(tree, e, k) = <<d.id, v>>
  <2>1. CASE j \in SameFunction(i) /\ tree[j].k = "method" /\ tree[j].recv # <<>> /\ tree[j].recv[1] = v
    <3>1. PICK e \in ToSet(nodes) : e.id = d.id /\ j = e.line
      BY <1>5, <2>1
    <3>2. j \in 1 .. Len(tree)
      BY <1>0, <3>1 DEF HasItsDecls
    <3> QED
      BY <2>1, <3>1, <3>2 DEF DeclaresIn, VarKey
  <2>2. CASE j \in InFunction(i) /\ tree[j].k \in {"param", "var", "short", "closure"} /\ tree[j].name = v
    <3>1. tree[j].k \in Locals /\ tree[j].of # None /\ j \in 1 .. Len(tree) /\ tree[j].k # "method"
      BY <1>0, <1>1, <2>2 DEF InFunction, Locals
    <3>2. PICK l \in Around(tree, j) : l \in SameFunction(i)
      BY <2>2 DEF InFunction
    <3>3. PICK e \in ToSet(nodes) : e.id = d.id /\ l = e.line
      BY <1>5, <3>2
    <3>4. tree[l].k \in Decls
      <4>1. tree[l].k \in Decls \cup {"closure"}
        BY <1>0, <3>1 DEF IsGoTree
      <4>2. tree[l].k = e.kind /\ e.kind # "closure"
        BY <1>0, <3>3 DEF HasItsDecls
      <4> QED
        BY <4>1, <4>2
    <3> QED
      BY <2>2, <3>1, <3>2, <3>3, <3>4 DEF DeclaresIn, VarKey
  <2> QED
    BY <2>1, <2>2 DEF ds, Declarations
<1>8. <<d.id, v>> \in DOMAIN types.vars
  BY <1>0, <1>7 DEF TellsVars
<1>9. types.vars[<<d.id, v>>] = BaseTypeName(t)
  <2>1. PICK k \in 1 .. Len(tree), e \in ToSet(nodes) :
           DeclaresIn(tree, e, k) /\ <<d.id, v>> = VarKey(tree, e, k) /\ types.vars[<<d.id, v>>] = BaseTypeName(tree[k].of)
    BY <1>0, <1>8 DEF TellsVars
  <2>2. e.id = d.id
    BY <2>1 DEF VarKey
  <2>3. k \in ds
    BY <1>6, <2>1, <2>2
  <2> QED
    BY <1>1, <2>1, <2>3
<1>10. BaseTypeName(t) # None
  BY <1>1, TypedExtractionAssumption DEF BaseTypeName
<1> QED
  BY <1>3, <1>8, <1>9, <1>10 DEF IsToldOf

\* Where a field is plain, what is recorded of it is shown of it, and if anything is shown
\* something is recorded.
LEMMA FieldsAreTold ==
    ASSUME GoInv, NEW type, NEW field, None \notin GoFieldTypes(type, field)
    PROVE  /\ <<type, field>> \in DOMAIN types.fields
                => types.fields[<<type, field>>] \in BareNames(GoFieldTypes(type, field))
           /\ GoFieldTypes(type, field) # {} => <<type, field>> \in DOMAIN types.fields
<1>0. TellsFields(tree, types.fields) /\ DOMAIN tree = 1 .. Len(tree)
  BY DEF GoInv, IsGoTree, IsTree
<1> DEFINE within == {j \in DOMAIN tree : tree[j].k = "field" /\ tree[Innermost({"class"}, j)].name = type}
           named == {j \in within : tree[j].name = field}
<1>1. /\ named # {} => GoFieldTypes(type, field) = {tree[j].of : j \in named} /\ field # None
      /\ GoFieldTypes(type, field) # {} => named # {} /\ field # None
  BY DEF GoFieldTypes
<1>2. \A j : FieldKey(tree, j) = <<tree[Innermost({"class"}, j)].name, tree[j].name>>
  BY DEF FieldKey, ItsClass, Innermost
<1>3. ASSUME <<type, field>> \in DOMAIN types.fields
      PROVE  types.fields[<<type, field>>] \in BareNames(GoFieldTypes(type, field))
  <2>1. PICK j \in 1 .. Len(tree) : /\ IsKept(tree, j) /\ <<type, field>> = FieldKey(tree, j)
                                    /\ types.fields[<<type, field>>] = BaseTypeName(tree[j].of)
    BY <1>0, <1>3 DEF TellsFields
  <2>2. j \in named
    BY <1>0, <1>2, <2>1 DEF IsKept
  <2> HIDE DEF named
  <2>3. tree[j].of \in GoFieldTypes(type, field)
    BY <1>1, <2>2
  <2> QED
    BY <2>1, <2>3 DEF BareNames
<1>4. ASSUME GoFieldTypes(type, field) # {} PROVE <<type, field>> \in DOMAIN types.fields
  <2>1. PICK j \in named : TRUE
    BY <1>1, <1>4
  <2>2. tree[j].of # None /\ field # None
    BY <1>1, <2>1
  <2>3. j \in 1 .. Len(tree) /\ IsKept(tree, j) /\ FieldKey(tree, j) = <<type, field>>
    BY <1>0, <1>2, <2>1, <2>2 DEF IsKept
  <2> QED
    BY <1>0, <2>3 DEF TellsFields
<1> QED
  BY <1>3, <1>4

-----------------------------------------------------------------------------
(* Where a method call leads to.                                           *)

\* Of places, one at most is the last.
LEMMA OneIsLast ==
    ASSUME Reads, NEW S \in SUBSET Places
    PROVE  \A p, q \in LastOf(S) : p = q
<1> SUFFICES ASSUME NEW p \in LastOf(S), NEW q \in LastOf(S), p # q PROVE FALSE
  OBVIOUS
<1>1. Before(p, q) /\ Before(q, p) /\ p \in Places /\ q \in Places
  BY DEF LastOf
<1>2. \A r \in Places : r[1] \in Int /\ r[2] \in Int
  <2> SUFFICES ASSUME NEW r \in Places PROVE r[1] \in Int /\ r[2] \in Int
    OBVIOUS
  <2>1. r[1] \in DOMAIN files /\ r[2] \in DOMAIN files[r[1]].nodes
    BY DEF Places
  <2>2. PICK n \in Nat : files \in [1 .. n -> repo]
    BY DEF Reads
  <2>3. files[r[1]].nodes \in Seq(ToSet(files[r[1]].nodes))
    BY <2>1, <2>2 DEF Reads, Sound
  <2> QED
    BY <2>1, <2>2, <2>3
<1> QED
  BY <1>1, <1>2 DEF Before

\* The ids of the declarations of a type's method.
MethodIds(fam, type, name) == {Node(p) : p \in {h \in PlacesOf(fam) : D(h).kind = "method" /\ Node(h).q = <<type, name>>}}

\* There is one place, of a declaration of this id.
OnePlaceOf(places, id) == \E p : places = {p} /\ Node(p) = id

\* Where they are one, that is what is found.
LEMMA TheHomeIsFound ==
    ASSUME Reads, NEW fam, NEW type, NEW name, NEW home,
           MethodIds(fam, type, name) = {home}
    PROVE  OnePlaceOf(MethodInHierarchy(fam, type, <<name>>), home)
<1> DEFINE S == {h \in PlacesOf(fam) : D(h).kind = "method" /\ Node(h).q = <<type, name>>}
           q == <<type, name>>
<1>1. /\ q \in Seq(ToSet(q)) /\ Len(q) = 2 /\ Head(q) = type /\ Tail(q) = <<name>>
  <2>1. q \in Seq({type, name}) /\ Len(q) = 2 /\ Head(q) = type /\ Tail(q) = <<name>>
    OBVIOUS
  <2> QED
    BY <2>1, RangesAreFinite
<1>2. ASSUME NEW h \in PlacesOf(fam) PROVE D(h).id.q \in Seq(ToSet(D(h).id.q))
  <2>1. h[1] \in DOMAIN files /\ h[2] \in DOMAIN files[h[1]].nodes
    BY DEF PlacesOf, Places
  <2>2. files[h[1]] \in repo
    BY <2>1 DEF Reads
  <2> QED
    BY <2>1, <2>2 DEF Reads, Sound, D
<1>3. Declared(fam, type, <<name>>) = S
  <2>1. ASSUME NEW h \in PlacesOf(fam)
        PROVE  Len(D(h).id.q) >= 2 /\ Head(D(h).id.q) = type /\ Tail(D(h).id.q) = <<name>> <=> D(h).id.q = q
    <3>1. D(h).id.q = q => Len(D(h).id.q) >= 2 /\ Head(D(h).id.q) = type /\ Tail(D(h).id.q) = <<name>>
      BY <1>1
    <3>2. Len(D(h).id.q) >= 2 /\ Head(D(h).id.q) = type /\ Tail(D(h).id.q) = <<name>> => D(h).id.q = q
      <4> HIDE DEF q
      <4>1. Len(q) >= 2
        BY <1>1
      <4> QED
        BY <1>1, <1>2, <4>1, HeadAndTail
    <3> QED
      BY <3>1, <3>2
  <2> QED
    BY <2>1 DEF Declared, Node
<1>4. S # {} /\ S \in SUBSET Places /\ \A p \in S : Node(p) = home
  BY DEF PlacesOf, MethodIds
<1> HIDE DEF S, q
<1>5. LastOf(S) # {} /\ LastOf(S) \subseteq S
  BY <1>4, SomeIsLast
<1>6. PICK p \in S : LastOf(S) = {p}
  <2>1. PICK p \in LastOf(S) : TRUE
    BY <1>5
  <2>2. \A r \in LastOf(S) : r = p
    BY <1>4, OneIsLast
  <2> QED
    BY <1>5, <2>1, <2>2
<1>7. Method(fam, type, <<name>>) = LastOf(S)
  BY <1>3 DEF Method, Declared
<1>8. MethodInHierarchy(fam, type, <<name>>) = LastOf(S)
  BY <1>6, <1>7 DEF MethodInHierarchy
<1> QED
  BY <1>4, <1>6, <1>8 DEF OnePlaceOf

\* Where all that the files tell of a field is one type, that is its type.
LEMMA TheFieldIs ==
    ASSUME Reads, NEW fam, NEW type, NEW field, NEW t,
           \A f \in FilesOf(fam) : \A x \in f.fields : x.type = type /\ x.field = field => x.is = t,
           \E f \in FilesOf(fam) : \E x \in f.fields : x.type = type /\ x.field = field
    PROVE  Field(fam, type, field) = t
<1> DEFINE Of(f) == {x \in f.fields : x.type = type /\ x.field = field}
           having == {j \in InFamily(fam) : Of(files[j]) # {}}
<1>1. having # {}
  BY DEF FilesOf
<1>2. having \in SUBSET Nat
  BY DEF Reads, InFamily
<1>3. PICK n \in Nat : having \in SUBSET (0 .. n)
  <2>1. PICK n \in Nat : files \in [1 .. n -> repo]
    BY DEF Reads
  <2>2. having \in SUBSET (0 .. n)
    BY <2>1 DEF InFamily
  <2> QED
    BY <2>2
<1> HIDE DEF having
<1>4. PICK m \in having : \A k \in having : k <= m
  BY <1>1, <1>3, GreatestNumber
<1>5. Max(having) = m
  BY <1>2, <1>4, GreatestIsMax
<1>6. m \in InFamily(fam) /\ Of(files[m]) # {}
  BY <1>4 DEF having
<1>7. \A x \in Of(files[m]) : x.is = t
  BY <1>6 DEF FilesOf
<1>8. (CHOOSE x \in Of(files[m]) : TRUE) \in Of(files[m])
  BY <1>6
<1>9. Field(fam, type, field) = (CHOOSE x \in Of(files[m]) : TRUE).is
  BY <1>1, <1>5, Zenon DEF Field, having
<1> QED
  BY <1>7, <1>8, <1>9

\* Of a variable of one recorded type, that is the type, unless it is `super`.
LEMMA TheFirstTypeIs ==
    ASSUME NEW from, NEW first, NEW t, VarIn(from, first) = {t}, first # "super"
    PROVE  FirstType(from, first) = t
<1> DEFINE here == VarIn(from, first)
           there == VarIn(FileScope(from.file), first)
           self == IF here # {} THEN CHOOSE x \in here : TRUE ELSE EnclosingClass(from)
           above == BasesIn(TypeBases(FamilyOf(from.file)), EnclosingClass(from))
           super == IF above # <<>> THEN Head(above) ELSE NoType
           seen == IF here # {} THEN here ELSE there
           other == IF seen # {} THEN CHOOSE x \in seen : TRUE ELSE IF HasMethods(FamilyOf(from.file), first) THEN first ELSE NoType
<1>1. FirstType(from, first) = CASE first \in {"this", "self"} -> self [] first = "super" -> super [] OTHER -> other
  BY Zenon DEF FirstType
<1>2. (CHOOSE x \in here : TRUE) = t /\ here # {}
  OBVIOUS
<1> HIDE DEF here, super, there
<1>3. self = t /\ other = t
  BY <1>2
<1> HIDE DEF self, other
<1> QED
  BY <1>1, <1>3

\* A receiver of one part is of the type of that.
LEMMA ReceiverOfOne ==
    ASSUME NEW from, NEW recv, Len(recv) = 1
    PROVE  ReceiverType(from, recv) = FirstType(from, recv[1])
<1> DEFINE Typing(f) == [i \in 1 .. Len(recv) |->
                         IF i = 1 THEN FirstType(from, recv[1])
                         ELSE IF f[i - 1] = NoType THEN NoType
                         ELSE FieldInHierarchy(FamilyOf(from.file), f[i - 1], recv[i])]
           g == CHOOSE f : f = Typing(f)
           h == [i \in 1 .. 1 |-> FirstType(from, recv[1])]
<1>1. h = Typing(h)
  OBVIOUS
<1>2. g = Typing(g)
  BY <1>1
<1>3. g[1] = FirstType(from, recv[1])
  <2> HIDE DEF g
  <2> QED
    BY <1>2
<1>4. ReceiverType(from, recv) = g[Len(recv)]
  BY Zenon DEF ReceiverType
<1> QED
  BY <1>3, <1>4

\* A receiver of two parts, of which the first has a type, is of the type of that type's field.
LEMMA ReceiverOfTwo ==
    ASSUME NEW from, NEW recv, Len(recv) = 2, FirstType(from, recv[1]) # NoType
    PROVE  ReceiverType(from, recv) = FieldInHierarchy(FamilyOf(from.file), FirstType(from, recv[1]), recv[2])
<1> DEFINE Typing(f) == [i \in 1 .. Len(recv) |->
                         IF i = 1 THEN FirstType(from, recv[1])
                         ELSE IF f[i - 1] = NoType THEN NoType
                         ELSE FieldInHierarchy(FamilyOf(from.file), f[i - 1], recv[i])]
           g == CHOOSE f : f = Typing(f)
           first == FirstType(from, recv[1])
           second == FieldInHierarchy(FamilyOf(from.file), first, recv[2])
           h == [i \in 1 .. 2 |-> IF i = 1 THEN first ELSE second]
<1>1. h = Typing(h)
  <2> HIDE DEF first
  <2>1. \A i \in 1 .. 2 : i = 1 \/ (i = 2 /\ i - 1 = 1)
    OBVIOUS
  <2>2. h[1] = first /\ h[2] = second
    OBVIOUS
  <2> HIDE DEF h, second
  <2>3. DOMAIN h = 1 .. 2 /\ h = [i \in 1 .. 2 |-> h[i]]
    BY DEF h
  <2>4. \A i \in 1 .. 2 : h[i] = Typing(h)[i]
    BY <2>1, <2>2 DEF first, second
  <2> QED
    BY <2>3, <2>4
<1>2. g = Typing(g)
  BY <1>1
<1>3. g[1] = first /\ g[2] = second
  <2> HIDE DEF g
  <2>1. g[1] = first
    BY <1>2
  <2> QED
    BY <1>2, <2>1
<1>4. ReceiverType(from, recv) = g[Len(recv)]
  BY Zenon DEF ReceiverType
<1> QED
  BY <1>3, <1>4

-----------------------------------------------------------------------------
(* The calls of a Go file that is resolved with another.                   *)

\* The file is one of those read, and the only one of its path.
LEMMA TheGoFile ==
    ASSUME Reads, NEW f, repo = {f, TypedExtracted}
    PROVE  /\ File(Path) = TypedExtracted /\ FamilyOf(Path) = Family
           /\ \E j \in DOMAIN files : files[j] = TypedExtracted
           /\ TypedExtracted \in FilesOf(Family)
<1>1. PICK j \in DOMAIN files : files[j] = TypedExtracted
  BY DEF Reads
<1>2. TypedExtracted.path = Path /\ TypedExtracted.family = Family
  BY FilesAreHandedOver DEF IsHandedOver
<1>3. File(Path) = TypedExtracted /\ FamilyOf(Path) = Family
  BY <1>1, <1>2, FamilyOfAFile
<1>4. TypedExtracted \in FilesOf(Family)
  BY <1>1, <1>2 DEF FilesOf, InFamily
<1> QED
  BY <1>1, <1>3, <1>4

\* What pass 1 recorded of a variable is all that pass 2 sees of it.
LEMMA TheVarIs ==
    ASSUME TellsVars(tree, nodes, types.vars), File(Path) = TypedExtracted, NEW id, id.file = Path, NEW v, NEW t,
           <<id, v>> \in DOMAIN types.vars, types.vars[<<id, v>>] = t
    PROVE  VarIn(id, v) = {t}
<1> DEFINE as(x) == [scope |-> x[1], name |-> x[2], is |-> types.vars[x]]
           vs == {as(x) : x \in DOMAIN types.vars}
           of == {w \in vs : w.scope = id /\ w.name = v}
<1>1. TypedExtracted.vars = vs
  BY DEF TypedExtracted, Extracted
<1>2. \A x \in DOMAIN types.vars : x = <<x[1], x[2]>>
  <2> SUFFICES ASSUME NEW x \in DOMAIN types.vars PROVE x = <<x[1], x[2]>>
    OBVIOUS
  <2>1. PICK j \in 1 .. Len(tree), d \in ToSet(nodes) : x = VarKey(tree, d, j)
    BY DEF TellsVars
  <2> QED
    BY <2>1 DEF VarKey
<1>3. of = {as(<<id, v>>)}
  <2>1. as(<<id, v>>) \in of
    OBVIOUS
  <2>2. ASSUME NEW w \in of PROVE w = as(<<id, v>>)
    <3>1. PICK x \in DOMAIN types.vars : w = as(x)
      OBVIOUS
    <3>2. x[1] = id /\ x[2] = v
      BY <3>1
    <3>3. x = <<id, v>>
      BY <1>2, <3>2
    <3> QED
      BY <3>1, <3>3
  <2> QED
    BY <2>1, <2>2
<1>4. as(<<id, v>>).is = t
  OBVIOUS
<1> HIDE DEF vs, as
<1>5. VarIn(id, v) = {w.is : w \in of}
  BY <1>1 DEF VarIn
<1> QED
  BY <1>3, <1>4, <1>5

\* The names of CallsLeadHome.
FirstOf(i) == PlainTypes(i, tree[i].recv[1])
PlainOf(i) == IF Len(tree[i].recv) = 1 THEN BareNames(FirstOf(i))
              ELSE UNION {FieldTypes(BaseTypeName(t), tree[i].recv[2]) : t \in FirstOf(i)}
HomesOf(i) == {Node(p) : p \in {h \in PlacesOf(Family) : /\ D(h).kind = "method"
                                                         /\ \E t \in PlainOf(i) : Node(h).q = <<t, tree[i].name>>}}
LeadsOf(i) == {e \in DOMAIN edges : e[1].file = Path /\ e[3] = "calls" /\ e[4] = i}
MayLead(i) == i \in DOMAIN tree /\ tree[i].k = "call" /\ Len(tree[i].recv) \in 1 .. 2 /\ tree[i].recv[1] # "super"
LeadsHome(i) == {e[2] : e \in LeadsOf(i)} = HomesOf(i) /\ \A e \in LeadsOf(i) : edges[e] = "exact"

\* In these names CallsLeadHome follows if a call for which all this holds leads home: which
\* module is meant does not matter to that.
LEMMA TheseAreTheNames ==
    (\A i : MayLead(i) /\ IsOne(FirstOf(i)) /\ IsOne(PlainOf(i)) /\ None \notin PlainOf(i) /\ IsOne(HomesOf(i)) => LeadsHome(i))
      => CallsLeadHome
BY Zenon DEF CallsLeadHome, FirstOf, PlainOf, HomesOf, LeadsOf, MayLead, LeadsHome

\* Where both files show one type of a field, it is what is found.
LEMMA TheFieldIsPlain ==
    ASSUME Reads, NEW f, repo = {f, TypedExtracted}, GoInv, plugin = "go", NEW type, NEW field, NEW t, t # None,
           FieldTypes(type, field) = {t}
    PROVE  Field(Family, type, field) = t
<1>0. /\ File(Path) = TypedExtracted /\ TypedExtracted \in FilesOf(Family)
      /\ TellsFields(tree, types.fields)
  BY TheGoFile DEF GoInv
<1> DEFINE as(x) == [type |-> x[1], field |-> x[2], is |-> types.fields[x]]
           fs == {as(x) : x \in DOMAIN types.fields}
           own == GoFieldTypes(type, field)
           others == UNION {TypesToldIn(g, type, field) : g \in OtherFiles}
<1>1. TypedExtracted.fields = fs
  BY ZenonT(40) DEF TypedExtracted, Extracted
<1>2. FieldTypes(type, field) = BareNames(own) \cup others
  BY DEF FieldTypes, OwnFieldTypes
<1> HIDE DEF others
<1>7. None \notin own
  <2> SUFFICES ASSUME None \in own PROVE FALSE
    OBVIOUS
  <2>1. BaseTypeName(None) = None
    BY TypedExtractionAssumption DEF BaseTypeName
  <2>2. None \in BareNames(own)
    BY <2>1 DEF BareNames
  <2> QED
    BY <1>2, <2>2
<1>3. ASSUME NEW x \in DOMAIN types.fields PROVE x = <<x[1], x[2]>>
  <2>1. PICK j \in 1 .. Len(tree) : x = FieldKey(tree, j)
    BY <1>0 DEF TellsFields
  <2> QED
    BY <2>1 DEF FieldKey
<1>4. ASSUME NEW g \in FilesOf(Family), NEW y \in g.fields, y.type = type, y.field = field PROVE y.is = t
  <2>1. CASE g = File(Path)
    <3>1. PICK x \in DOMAIN types.fields : y = as(x)
      BY <1>0, <1>1, <2>1
    <3>2. x = <<type, field>>
      BY <1>3, <1>4, <3>1
    <3>3. y.is \in BareNames(own)
      BY <1>7, <3>1, <3>2, FieldsAreTold
    <3> QED
      BY <1>2, <3>3
  <2>2. CASE g # File(Path)
    <3>1. y.is \in others
      BY <1>4, <2>2 DEF others, TypesToldIn, OtherFiles
    <3> QED
      BY <1>2, <3>1
  <2> QED
    BY <2>1, <2>2
<1>5. \E g \in FilesOf(Family) : \E y \in g.fields : y.type = type /\ y.field = field
  <2>1. CASE own # {}
    <3>1. <<type, field>> \in DOMAIN types.fields
      BY <1>7, <2>1, FieldsAreTold
    <3>2. as(<<type, field>>) \in fs /\ as(<<type, field>>).type = type /\ as(<<type, field>>).field = field
      BY <3>1
    <3> HIDE DEF as, fs
    <3> QED
      BY <1>0, <1>1, <3>2
  <2>2. CASE others # {}
    <3>1. PICK g \in OtherFiles : TypesToldIn(g, type, field) # {}
      BY <2>2 DEF others
    <3> QED
      BY <3>1 DEF TypesToldIn, OtherFiles
  <2>3. own = {} => BareNames(own) = {}
    BY DEF BareNames
  <2> QED
    BY <1>2, <2>1, <2>2, <2>3
<1>6. \A g \in FilesOf(Family) : \A y \in g.fields : y.type = type /\ y.field = field => y.is = t
  BY <1>4
<1> HIDE DEF as, fs
<1> QED
  BY <1>5, <1>6, ZenonT(60), TheFieldIs

\* So pass 2 finds the type of a receiver that the source shows.
LEMMA TheReceiverIs ==
    ASSUME Reads, NEW f, repo = {f, TypedExtracted}, GoInv, FileInv, plugin = "go",
           NEW i, MayLead(i), IsOne(FirstOf(i)), NEW t, PlainOf(i) = {t}, t # None
    PROVE  \E d \in NearestIn(tree, nodes, i) : ReceiverType(d.id, tree[i].recv) = t
<1> DEFINE recv == tree[i].recv
<1>0. /\ File(Path) = TypedExtracted /\ FamilyOf(Path) = Family
      /\ TellsVars(tree, nodes, types.vars) /\ IsGoTree(tree) /\ None = NoType
  BY TheGoFile, PassesAssumption DEF GoInv
<1>1. i \in 1 .. Len(tree) /\ Len(recv) \in 1 .. 2 /\ recv[1] # "super"
  BY <1>0 DEF MayLead, IsGoTree, IsTree
<1>2. PICK t1 : FirstOf(i) = {t1}
  BY DEF IsOne
<1>3. GoTypes(i, recv[1]) = {t1}
  BY <1>2 DEF FirstOf, PlainTypes
<1> DEFINE bare == BaseTypeName(t1)
<1> HIDE DEF recv
<1>4. IsToldOf(i, recv[1], bare)
  BY <1>1, <1>3, PlainVarsAreTold, Zenon
<1>5. PICK d \in NearestIn(tree, nodes, i) : <<d.id, recv[1]>> \in DOMAIN types.vars /\ types.vars[<<d.id, recv[1]>>] = bare
  BY <1>4 DEF IsToldOf
<1>6. d.id.file = Path
  BY DEF NearestIn, FunctionsIn, FileInv, AreDeclarations, IsDeclaration
<1> HIDE DEF bare
<1>7. VarIn(d.id, recv[1]) = {bare}
  BY <1>0, <1>5, <1>6, TheVarIs
<1>8. FirstType(d.id, recv[1]) = bare
  BY <1>1, <1>7, TheFirstTypeIs
<1>9. CASE Len(recv) = 1
  <2>1. PlainOf(i) = {bare}
    BY <1>2, <1>9 DEF PlainOf, BareNames, recv, bare
  <2>2. ReceiverType(d.id, recv) = bare
    BY <1>8, <1>9, ReceiverOfOne
  <2> QED
    BY <2>1, <2>2 DEF recv
<1>10. CASE Len(recv) = 2
  <2>1. PlainOf(i) = FieldTypes(bare, recv[2])
    BY <1>2, <1>10 DEF PlainOf, recv, bare
  <2>2. Field(Family, bare, recv[2]) = t
    BY <2>1, TheFieldIsPlain
  <2>3. FieldInHierarchy(Family, bare, recv[2]) = t
    BY <1>0, <2>2, Zenon DEF FieldInHierarchy
  <2>4. ReceiverType(d.id, recv) = t
    BY <1>0, <1>4, <1>6, <1>8, <1>10, <2>3, ReceiverOfTwo DEF IsToldOf
  <2> QED
    BY <2>4 DEF recv
<1> QED
  BY <1>1, <1>9, <1>10

\* Of a type that declares the method once, that is where the call leads, and surely.
LEMMA TheCallIsDecided ==
    ASSUME Reads, NEW ref, ref.kind = "calls", ref.recv # <<>>, FamilyOf(Path) = Family, NEW t, t # NoType,
           ReceiverType(ref.from, ref.recv) = t, NEW home,
           MethodIds(Family, t, ref.name) = {home}
    PROVE  Decide(RulesFor(Path, ref)) = [to |-> {home}, conf |-> "exact"]
<1> DEFINE rules == ReceiverRules(Path, ref)
           found == MethodInHierarchy(Family, t, <<ref.name>>)
<1>1. OnePlaceOf(MethodInHierarchy(Family, t, <<ref.name>>), home)
  BY TheHomeIsFound, Zenon
<1>2. RulesFor(Path, ref) = rules
  BY DEF RulesFor
<1>3. DOMAIN rules = 1 .. 4 /\ rules[1] = Candidates(found, "exact")
  BY DEF ReceiverRules
<1> HIDE DEF found, rules
<1>4. Candidates(found, "exact") = [to |-> {home}, conf |-> "exact"]
  <2>1. PICK p : found = {p} /\ Node(p) = home
    BY <1>1 DEF found, OnePlaceOf
  <2>2. Cardinality(found) = 1
    BY <2>1, FS_Singleton
  <2>3. {Node(q) : q \in found} = {home}
    BY <2>1
  <2> QED
    BY <2>2, <2>3 DEF Candidates, Found, Rule
<1>5. Decide(rules) = rules[1]
  BY <1>3, <1>4, TheFirstDecides
<1> QED
  BY <1>2, <1>3, <1>4, <1>5

\* What is recorded when a run is over: the edges of each reference, and no others from the
\* place of a reference with one line of its own.
LEMMA TheEdgesAre ==
    ASSUME Inv, Recorded, InJobOrder, Reads, todo = {}, NEW f \in repo, NEW ref \in ToSet(f.refs), ref.kind = "calls",
           \A r \in ToSet(f.refs) : r.line = ref.line /\ r.kind = "calls" => r = ref, NEW rule, Decide(RulesFor(f.path, ref)) = rule
    PROVE  /\ \A n \in rule.to : Edge(ref.from, n, "calls", ref.line) \in DOMAIN edges
           /\ \A e \in DOMAIN edges : e[1].file = f.path /\ e[3] = "calls" /\ e[4] = ref.line
                 => e[1] = ref.from /\ e[2] \in rule.to /\ edges[e] = rule.conf
<1>1. PICK k \in DOMAIN f.refs : ref = f.refs[k]
  BY DEF ToSet
<1>2. PICK x \in RefJobs(files) : files[x[2]] = f /\ x[3] = k
  BY RefsHaveJobs
<1>3. OfRef(x[2], x[3]) = {Edge(ref.from, n, "calls", ref.line) : n \in rule.to} /\ OfRef(x[2], x[3]) \subseteq DOMAIN edges
  BY <1>1, <1>2 DEF OfRef, Recorded
<1>4. ASSUME NEW e \in DOMAIN edges, e[1].file = f.path, e[3] = "calls", e[4] = ref.line
      PROVE  e[1] = ref.from /\ e[2] \in rule.to /\ edges[e] = rule.conf
  <2>1. PICK y \in Jobs : e \in Gives(y) /\ edges[e] = Surety(y)
    BY DEF InJobOrder, LastGiver
  <2>2. y[2] \in DOMAIN files
    <3> SUFFICES ASSUME y[2] \notin DOMAIN files PROVE FALSE
      OBVIOUS
    <3>1. e \in Implements(Families[y[1]])
      BY <2>1 DEF Gives
    <3>2. e[3] = "implements"
      BY <3>1 DEF Implements, Edge
    <3> QED
      BY <1>4, <3>2
  <2>3. y \in RefJobs(files)
    <3>1. Len(files) + 1 \notin DOMAIN files
      BY RefsHaveJobs
    <3>2. y \notin InterfaceJobs(files)
      <4> SUFFICES ASSUME y \in InterfaceJobs(files) PROVE FALSE
        OBVIOUS
      <4>1. y[2] = Len(files) + 1
        BY DEF InterfaceJobs
      <4> QED
        BY <2>2, <3>1, <4>1
    <3> QED
      BY <3>2 DEF Jobs
  <2> DEFINE g == files[y[2]]
             r == g.refs[y[3]]
  <2>4. g \in repo /\ y[3] \in DOMAIN g.refs
    BY <2>3, RefsHaveJobs
  <2>5. e \in EdgesAt(g, y[3]) /\ edges[e] = RuleAt(g, y[3]).conf
    BY <2>1, <2>2 DEF Gives, Surety
  <2>6. PICK n \in RuleAt(g, y[3]).to : e = Edge(r.from, n, r.kind, r.line)
    BY SMTT(40), <2>5 DEF EdgesAt
  <2>7. e[1] = r.from /\ e[2] = n /\ r.kind = "calls" /\ r.line = ref.line
    BY SMTT(40), <1>4, <2>6 DEF Edge
  <2>8. g = f
    <3>1. PICK m \in DOMAIN g.nodes : r.from = g.nodes[m].id
      BY <2>4 DEF Reads, Sound
    <3>2. r.from.file = g.path
      BY SMTT(40), <2>4, <3>1 DEF Reads, Sound
    <3> QED
      BY <1>4, <2>4, <2>7, <3>2 DEF Reads, Sound
  <2>9. r = ref
    <3>1. r \in ToSet(f.refs)
      BY <2>4, <2>8 DEF ToSet
    <3> QED
      BY <2>7, <3>1
  <2>10. RuleAt(g, y[3]) = rule
    BY <2>8, <2>9 DEF RuleAt
  <2> QED
    BY <2>5, <2>6, <2>7, <2>9, <2>10
<1> QED
  BY <1>3, <1>4

\* All together: where the source shows the type and the files one method, the call leads there.
LEMMA TheCallLeadsHome ==
    ASSUME Inv, Recorded, InJobOrder, GoInv, FileInv, plugin = "go", walk = "done", todo = {},
           NEW f, repo = {f, TypedExtracted},
           NEW i, MayLead(i), IsOne(FirstOf(i)), IsOne(PlainOf(i)), None \notin PlainOf(i), IsOne(HomesOf(i))
    PROVE  LeadsHome(i)
<1>1. PICK t : PlainOf(i) = {t}
  BY DEF IsOne
<1>2. PICK home : HomesOf(i) = {home}
  BY DEF IsOne
<1>3. MethodIds(Family, t, tree[i].name) = {home}
  BY <1>1, <1>2 DEF HomesOf, MethodIds
<1>4. Reads
  <2>1. PlacesOf(Family) # {}
    BY <1>3 DEF MethodIds
  <2>2. files # <<>>
    BY <2>1 DEF PlacesOf, Places
  <2> QED
    BY <2>2 DEF Recorded
<1>5. t # None /\ None = NoType
  BY <1>1, PassesAssumption
<1>6. PICK d \in NearestIn(tree, nodes, i) : ReceiverType(d.id, tree[i].recv) = t
  BY <1>1, <1>4, <1>5, TheReceiverIs
<1>7. /\ TypedExtracted.path = Path /\ TypedExtracted.refs = refs /\ TypedExtracted \in repo
      /\ FamilyOf(Path) = Family
  BY <1>4, FilesAreHandedOver, TheGoFile DEF IsHandedOver
<1>8. i \in 1 .. Len(tree) /\ tree[i].k = "call" /\ TellsCalls(tree, nodes, refs) /\ HasItsDecls(tree, nodes)
  BY DEF GoInv, MayLead, IsGoTree, IsTree
<1> DEFINE ref == CallRef(tree, i, d)
<1>9. ref \in ToSet(refs)
  BY <1>8 DEF TellsCalls
<1>10. /\ ref.kind = "calls" /\ ref.recv = tree[i].recv /\ ref.name = tree[i].name /\ ref.from = d.id
       /\ ref.line = i
  BY DEF CallRef, Ref
<1>11. ASSUME NEW r \in ToSet(refs), r.line = i PROVE r = ref
  <2>1. PICK j \in 1 .. Len(tree) : tree[j].k = "call" /\ \E e \in NearestIn(tree, nodes, j) : r = CallRef(tree, j, e)
    BY <1>8 DEF TellsCalls
  <2>2. PICK e \in NearestIn(tree, nodes, j) : r = CallRef(tree, j, e)
    BY <2>1
  <2>3. j = i
    BY <1>11, <2>2 DEF CallRef, Ref
  <2>4. d \in ToSet(nodes) /\ e \in ToSet(nodes) /\ d.line <= e.line /\ e.line <= d.line
    BY <2>3 DEF NearestIn, FunctionsIn
  <2>5. d.line \in 1 .. Len(tree) /\ e.line \in 1 .. Len(tree)
    BY <1>8, <2>4 DEF HasItsDecls
  <2>6. e = d
    BY <1>8, <2>4, <2>5 DEF HasItsDecls
  <2> QED
    BY <2>2, <2>3, <2>6
<1>12. tree[i].recv # <<>>
  BY DEF MayLead
<1> HIDE DEF ref
<1> DEFINE rule == [to |-> {home}, conf |-> "exact"]
<1>13. Decide(RulesFor(Path, ref)) = rule
  BY <1>3, <1>4, <1>5, <1>6, <1>7, <1>10, <1>12, TheCallIsDecided
<1>14. /\ \A n \in rule.to : Edge(ref.from, n, "calls", ref.line) \in DOMAIN edges
       /\ \A e \in DOMAIN edges : e[1].file = Path /\ e[3] = "calls" /\ e[4] = ref.line
                => e[1] = ref.from /\ e[2] \in rule.to /\ edges[e] = rule.conf
  <2> HIDE DEF rule
  <2> QED
    BY <1>4, <1>7, <1>9, <1>10, <1>11, <1>13, TheEdgesAre
<1>15. d.id.file = Path
  BY DEF NearestIn, FunctionsIn, FileInv, AreDeclarations, IsDeclaration
<1>16. Edge(ref.from, home, "calls", i) \in LeadsOf(i)
  <2>1. Edge(ref.from, home, "calls", i) \in DOMAIN edges
    BY <1>10, <1>14
  <2> QED
    BY <1>10, <1>15, <2>1 DEF LeadsOf, Edge
<1>17. \A e \in LeadsOf(i) : e[2] = home /\ edges[e] = "exact"
  BY <1>10, <1>14 DEF LeadsOf
<1>18. {e[2] : e \in LeadsOf(i)} = {home}
  <2>1. Edge(ref.from, home, "calls", i)[2] = home
    BY DEF Edge
  <2> QED
    BY <1>16, <1>17, <2>1
<1> QED
  BY <1>2, <1>17, <1>18 DEF LeadsHome

-----------------------------------------------------------------------------
(* Both passes of a Go file.                                               *)

\* What the file tells, and from the second pass on that it is the file resolved.
GoPassesInv ==
    plugin = "go" => GoInv /\ (stage = "resolve" => walk = "done" /\ \E f : repo = {f, TypedExtracted})

\* At first a file tells nothing; a repository that is given is of no Go plugin.
LEMMA GoPassesStart == Init => GoPassesInv
<1> SUFFICES ASSUME Init, plugin = "go" PROVE GoInv /\ stage # "resolve"
  BY DEF GoPassesInv
<1> QED
  BY NothingTold DEF Init

\* A step of either pass.
LEMMA GoPassesStep ==
    PassesInv /\ GoPassesInv /\ [Next]_<<passVars, treeVars, typedVars, vars>> => GoPassesInv'
<1> SUFFICES ASSUME PassesInv, GoPassesInv, [Next]_<<passVars, treeVars, typedVars, vars>>, plugin' = "go"
             PROVE  GoInv' /\ (stage' = "resolve" => walk' = "done" /\ (\E f : repo = {f, TypedExtracted})')
  BY DEF GoPassesInv
<1>1. plugin = "go"
  BY DEF Next, HandOver, passVars
<1>2. ExtractInv /\ NoRefsYet /\ GoInv
  BY <1>1 DEF PassesInv, ReadInv, GoPassesInv
<1>3. ASSUME UNCHANGED <<treeVars, typedVars>> PROVE GoInv' /\ walk' = walk /\ TypedExtracted' = TypedExtracted
  <2>1. /\ tree' = tree /\ nodes' = nodes /\ refs' = refs /\ bases' = bases /\ walk' = walk
        /\ types' = types /\ imports' = imports
    BY <1>3 DEF treeVars, typedVars
  <2>2. Extracted' = Extracted
    BY <2>1 DEF Extracted
  <2>3. TypedExtracted' = TypedExtracted
    BY <2>1, <2>2 DEF TypedExtracted
  <2> QED
    BY <1>2, <1>3, <2>1, <2>3, GoTells
<1>4. CASE stage = "extract" /\ Extract /\ UNCHANGED <<passVars, vars>>
  <2>1. GoNext /\ stage' = "extract"
    BY <1>1, <1>4 DEF Extract, passVars
  <2> QED
    BY <1>2, <2>1, GoTells
<1>5. CASE HandOver
  <2>1. UNCHANGED <<treeVars, typedVars>> /\ walk = "done"
    BY <1>5 DEF HandOver
  <2>2. PICK f : repo' = {f, TypedExtracted}
    BY <1>1, <1>5 DEF HandOver
  <2> QED
    BY <1>3, <2>1, <2>2
<1>6. CASE stage = "resolve" /\ ResolverNext /\ UNCHANGED <<passVars, treeVars, typedVars>>
  <2>1. repo' = repo
    BY ZenonT(40), <1>6 DEF ResolverNext, Begin, ResolveRef, MatchInterfaces, Return
  <2>2. walk = "done" /\ \E f : repo = {f, TypedExtracted}
    BY <1>1, <1>6 DEF GoPassesInv
  <2> QED
    BY <1>3, <1>6, <2>1, <2>2
<1>7. CASE UNCHANGED <<passVars, treeVars, typedVars, vars>>
  <2>1. repo' = repo /\ stage' = stage
    BY <1>7 DEF vars, passVars
  <2>2. stage = "resolve" => walk = "done" /\ \E f : repo = {f, TypedExtracted}
    BY <1>1 DEF GoPassesInv
  <2> QED
    BY <1>3, <1>7, <2>1, <2>2
<1> QED
  BY <1>4, <1>5, <1>6, <1>7 DEF Next

\* What the invariants say of a Go file's calls.
LEMMA GoLeadsHome == PassesInv /\ GoPassesInv => (plugin = "go" => CallsLeadHome)
<1> SUFFICES ASSUME PassesInv, GoPassesInv, plugin = "go", stage = "resolve", todo = {} PROVE CallsLeadHome
  BY DEF CallsLeadHome
<1>1. PICK f : repo = {f, TypedExtracted}
  BY DEF GoPassesInv
<1>2. Inv /\ Recorded /\ InJobOrder /\ GoInv /\ FileInv /\ walk = "done"
  BY DEF PassesInv, ReadInv, GoPassesInv
<1> QED
  BY <1>1, <1>2, TheCallLeadsHome, TheseAreTheNames

\* In Go a method call is exact from what is written: for any file, with any other one and in
\* every run, where the source shows one type of the receiver and the files have one method of
\* the name for it, the call leads there and nowhere else.
THEOREM GoCallsLeadHome == Spec => [](plugin = "go" => CallsLeadHome)
<1>1. Spec => []GoPassesInv
  BY GoPassesStart, GoPassesStep, PassesInvHolds, PTL DEF Spec
<1> QED
  BY <1>1, GoLeadsHome, PassesInvHolds, PTL
=============================================================================
