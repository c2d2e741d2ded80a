---------------------------- MODULE AnalysisProofs ----------------------------
(***************************************************************************)
(* Proofs about Reach, Tools, CallPaths and Components, for every graph and *)
(* everything that may be asked of it.                                     *)
(***************************************************************************)
EXTENDS Reach, Tools, Components, CallPaths, ListProofs

-----------------------------------------------------------------------------
(* Reach: walks.                                                           *)

\* What the search starts from is reached by the empty walk.
LEMMA WalkStarts ==
    ASSUME NEW g, NEW q, NEW n \in Nodes, n \in Seeds(g, q)
    PROVE  WalkIn(g, q, n, 0)
<1> DEFINE w == [i \in 0 .. 0 |-> n]
<1>1. w \in [0 .. 0 -> Nodes] /\ w[0] = n /\ 0 .. 0 - 1 = {}
  OBVIOUS
<1> QED
  BY <1>1 DEF WalkIn

\* A walk goes on along every edge of the search.
LEMMA WalkGoesOn ==
    ASSUME NEW g, NEW q, NEW m \in Nodes, NEW n \in Nodes, NEW k \in Nat,
           WalkIn(g, q, m, k), Leads(g, q, m, n)
    PROVE  WalkIn(g, q, n, k + 1)
<1>1. PICK w \in [0 .. k -> Nodes] :
         /\ w[0] \in Seeds(g, q) /\ w[k] = m
         /\ \A i \in 0 .. k - 1 : Leads(g, q, w[i], w[i + 1])
  BY DEF WalkIn
<1> DEFINE v == [i \in 0 .. k + 1 |-> IF i = k + 1 THEN n ELSE w[i]]
<1>2. v \in [0 .. k + 1 -> Nodes] /\ v[0] = w[0] /\ v[k + 1] = n
  OBVIOUS
<1>3. ASSUME NEW i \in 0 .. (k + 1) - 1 PROVE Leads(g, q, v[i], v[i + 1])
  <2>1. CASE i = k
    <3>1. v[i] = m /\ v[i + 1] = n
      BY <1>1, <2>1
    <3> QED
      BY <3>1
  <2>2. CASE i # k
    <3>1. i \in 0 .. k - 1 /\ v[i] = w[i] /\ v[i + 1] = w[i + 1]
      BY <2>2
    <3> QED
      BY <1>1, <3>1
  <2> QED
    BY <2>1, <2>2
<1> QED
  BY <1>1, <1>2, <1>3 DEF WalkIn
-----------------------------------------------------------------------------
(* Reach: the inductive invariant.                                         *)

Bound == IF query.limit < 0 THEN 0 ELSE query.limit

\* Level 0 is where the search starts.
Rooted == \A n \in Nodes : level[n] = 0 <=> n \in Seeds(graph, query)

\* Each node seen is reached by a walk as long as its level.
Walked == \A n \in Seen : Walk(n, level[n])

\* Nothing is seen beyond the depth the search is at, nor beyond the one asked for.
Depths ==
    /\ \A n \in Seen : level[n] <= depth
    /\ query.task # "dead" => \A n \in Seen : level[n] >= 1 => level[n] <= query.maxDepth
    /\ outcome = "search" => query.task = "dead" \/ depth <= query.maxDepth

\* All edges that leave levels below b have been followed.
FollowedBelow(b) ==
    \A m \in Seen, n \in Nodes :
       level[m] < b /\ Leads(graph, query, m, n) => n \in Seen /\ level[n] <= level[m] + 1

Behind == FollowedBelow(depth - 1)

\* The edges that leave the frontier have been followed, or are still to be.
Ahead ==
    outcome = "search" =>
       /\ next = {n \in Seen : level[n] = depth}
       /\ \A p \in todo : /\ p[1] \in Seen /\ level[p[1]] = depth - 1
                          /\ Leads(graph, query, p[1], p[2])
       /\ \A m \in Seen, n \in Nodes :
             level[m] = depth - 1 /\ Leads(graph, query, m, n) => n \in Seen \/ <<m, n>> \in todo

\* The search ends at the depth asked for, or for want of a frontier.
Over ==
    /\ outcome # "search" => todo = {}
    /\ outcome = "done" =>
          /\ \A n \in Seen : level[n] < depth
          /\ \/ query.task # "dead" /\ query.maxDepth < depth
             \/ \A n \in Seen : level[n] # depth - 1

Found == {n \in Seen \cap graph.nodes : level[n] >= 1}

\* The results are what was found, but for the node the search was cut at.
Collected ==
    /\ outcome # "cut" => results = Found /\ (Limited => Cardinality(results) <= Bound)
    /\ outcome = "cut" => /\ Limited /\ Cardinality(results) = Bound
                          /\ \E x \in Seen : level[x] = depth /\ results = Found \ {x}

\* A set that holds the roots, and that no call leaves, holds all that is seen.
Called ==
    query.task = "dead" =>
       \A S \in SUBSET Nodes : graph.roots \subseteq S /\ HoldsCalls(S) => Seen \subseteq S

\* Nodes are ranked in the order they were found, which is that of their levels; only
\* where there is one root.
Ranked ==
    query.task # "dead" =>
       \A n \in Seen :
          /\ rank[n] < Cardinality(Seen)
          /\ \A m \in Seen : /\ rank[m] = rank[n] => m = n
                             /\ rank[m] < rank[n] => level[m] <= level[n]

ReachInv == /\ graph \in Graph /\ ReachTypeOK
       /\ Rooted /\ Walked /\ Depths /\ Behind /\ Ahead /\ Over /\ Collected /\ Called /\ Ranked

\* What a walk reaches within the levels that were followed was seen, and at a level
\* no higher than the walk is long.
LEMMA WalkIsSeen ==
    ASSUME ReachTypeOK, Rooted, NEW b \in Int, FollowedBelow(b),
           NEW k \in Nat, k <= b, NEW n \in Nodes, Walk(n, k)
    PROVE  n \in Seen /\ level[n] <= k
<1>1. PICK w \in [0 .. k -> Nodes] :
         /\ w[0] \in Seeds(graph, query) /\ w[k] = n
         /\ \A i \in 0 .. k - 1 : Leads(graph, query, w[i], w[i + 1])
  BY DEF Walk, WalkIn
<1> DEFINE Good(i) == w[i] \in Seen /\ level[w[i]] <= i
           T == {i \in 0 .. k : ~ Good(i)}
<1>2. SUFFICES ASSUME T # {} PROVE FALSE
  <2>1. k \in 0 .. k
    OBVIOUS
  <2> QED
    BY <1>1, <1>2, <2>1
<1>3. T \in SUBSET Nat
  OBVIOUS
<1>4. PICK i \in T : \A j \in T : i <= j
  <2> HIDE DEF T
  <2> QED
    BY <1>2, <1>3, LeastNumber
<1>5. i \in 0 .. k /\ w[i] \in Nodes
  OBVIOUS
<1>6. CASE i = 0
  <2>1. level[w[0]] = 0
    BY <1>1, <1>5, <1>6 DEF Rooted
  <2>2. Good(0)
    BY <1>5, <1>6, <2>1 DEF Seen, Unseen
  <2> QED
    BY <1>6, <2>2
<1>7. CASE i # 0
  <2>1. i - 1 \in 0 .. k - 1 /\ i - 1 \in 0 .. k /\ w[i - 1] \in Nodes /\ (i - 1) + 1 = i
    BY <1>5, <1>7
  <2>2. i - 1 \notin T
    BY <1>4, <2>1
  <2>3. Good(i - 1)
    BY <2>1, <2>2
  <2>4. Leads(graph, query, w[i - 1], w[i])
    BY <1>1, <2>1
  <2>5. level[w[i - 1]] \in Int /\ level[w[i]] \in Int
    BY <1>5, <2>1 DEF ReachTypeOK, Unseen
  <2>6. level[w[i - 1]] < b
    BY <2>1, <2>3, <2>5
  <2>7. w[i] \in Seen /\ level[w[i]] <= level[w[i - 1]] + 1
    BY <1>5, <2>3, <2>4, <2>6 DEF FollowedBelow
  <2>8. Good(i)
    BY <1>5, <2>3, <2>5, <2>7
  <2> QED
    BY <2>8
<1> QED
  BY <1>6, <1>7

-----------------------------------------------------------------------------
(* Reach: every step keeps the invariant.                                  *)

\* The sets a search keeps are finite, and counting them gives numbers.
LEMMA Counting ==
    ASSUME ReachTypeOK, graph \in Graph
    PROVE  /\ IsFiniteSet(results) /\ Cardinality(results) \in Nat
           /\ Cardinality(Seen) \in Nat
<1>1. graph.nodes \subseteq Nodes
  BY DEF Graph
<1>2. results \subseteq Nodes /\ Seen \subseteq Nodes
  BY <1>1 DEF ReachTypeOK, Seen
<1> QED
  BY <1>2, CodeGraphAssumption, FS_Subset, FS_CardinalityType

\* The search starts with its invariant.
LEMMA ReachInitInv == graph \in Graphs /\ ReachInit => ReachInv
<1> SUFFICES ASSUME graph \in Graphs, ReachInit PROVE ReachInv
  OBVIOUS
<1> DEFINE S == Seeds(graph, query)
<1>1. graph \in Graph /\ graph.roots \subseteq graph.nodes /\ query \in Query
  BY CodeGraphAssumption, ReachAssumption DEF ReachInit
<1>2. S \subseteq Nodes
  BY <1>1 DEF Seeds, Graph, Query
<1>3. level = [n \in Nodes |-> IF n \in S THEN 0 ELSE Unseen] /\ rank = [n \in Nodes |-> 0]
  BY DEF ReachInit
<1>4. Seen = S /\ \A n \in Nodes : level[n] = 0 <=> n \in S
  BY <1>2, <1>3 DEF Seen, Unseen
<1>level. \A n \in Seen : n \in Nodes /\ level[n] = 0
  BY <1>2, <1>4
<1>5. depth = 1 /\ next = {} /\ results = {} /\ todo = Todo(graph, query, S, 1)
      /\ outcome = IF GoesOn(query, S, 1) THEN "search" ELSE "done"
  BY DEF ReachInit
<1>6. ReachTypeOK
  BY <1>1, <1>2, <1>3, <1>5 DEF ReachTypeOK, Todo, Unseen
<1>7. Rooted
  BY <1>4 DEF Rooted
<1>8. Walked
  BY <1>2, <1>4, WalkStarts DEF Walked, Walk
<1>9. Depths
  BY <1>level, <1>1, <1>5 DEF Depths, GoesOn, Query
<1>10. Behind
  BY <1>4, <1>5 DEF Behind, FollowedBelow, Seen
<1>11. Ahead
  BY <1>4, <1>5, <1>2 DEF Ahead, Todo, Seen
<1>12. Over
  <2>1. outcome = "done" => S = {} \/ (query.task # "dead" /\ ~ (1 <= query.maxDepth))
    BY <1>5 DEF GoesOn
  <2>2. query.maxDepth \in Int
    BY <1>1 DEF Query
  <2> QED
    BY <1>level, <1>4, <1>5, <2>1, <2>2 DEF Over, Todo
<1>13. Collected
  <2>1. results = Found
    BY <1>level, <1>5 DEF Found
  <2>2. Cardinality(results) <= Bound
    BY <1>1, <1>5, FS_EmptySet DEF Bound, Query
  <2> QED
    BY <1>5, <2>1, <2>2 DEF Collected
<1>14. Called
  BY <1>4 DEF Called, Seeds
<1>15. Ranked
  <2>1. SUFFICES ASSUME query.task # "dead" PROVE Ranked
    BY DEF Ranked
  <2>2. Seen = {query.seed} /\ query.seed \in Nodes /\ rank[query.seed] = 0
    BY <1>1, <1>3, <1>4, <2>1 DEF Seeds, Query
  <2>3. Cardinality(Seen) = 1
    BY <2>2, FS_Singleton
  <2> QED
    BY <1>level, <2>2, <2>3 DEF Ranked
<1> QED
  BY <1>1, <1>6, <1>7, <1>8, <1>9, <1>10, <1>11, <1>12, <1>13, <1>14, <1>15 DEF ReachInv

\* A node that was seen before changes nothing but what is still to be looked at.
LEMMA PassOverInv ==
    ASSUME ReachInv, NEW p \in todo, PassOver(p), UNCHANGED graph
    PROVE  ReachInv'
<1>1. p \in Nodes \X Nodes /\ p[2] \in Seen /\ p = <<p[1], p[2]>>
  BY DEF ReachInv, ReachTypeOK, PassOver, Seen
<1>2. UNCHANGED <<graph, query, level, rank, depth, next, results, outcome, Seen>> /\ todo' = todo \ {p}
  BY DEF PassOver, Seen
<1>3. ReachInv
  OBVIOUS
<1>4. ReachTypeOK' /\ (graph \in Graph)'
  BY <1>2, <1>3 DEF ReachInv, ReachTypeOK
<1>5. Rooted' /\ Walked' /\ Depths' /\ Behind'
  BY <1>2, <1>3 DEF ReachInv, Rooted, Walked, Walk, Depths, Behind, FollowedBelow
<1>6. Ahead'
  BY <1>1, <1>2, <1>3 DEF ReachInv, Ahead
<1>7. Over' /\ Collected'
  BY <1>2, <1>3 DEF ReachInv, Over, Collected, Found, Bound, Limited
<1>8. Called' /\ Ranked'
  BY <1>2, <1>3 DEF ReachInv, Called, HoldsCalls, Ranked
<1> QED
  BY <1>4, <1>5, <1>6, <1>7, <1>8 DEF ReachInv

\* What marking a node, found from the frontier, changes and keeps.
LEMMA Marked ==
    ASSUME ReachInv, NEW p \in todo, level[p[2]] = Unseen, Mark(p[2]), UNCHANGED graph
    PROVE  /\ outcome = "search"
           /\ p[2] \in Nodes /\ p[2] \notin Seen /\ Seen' = Seen \cup {p[2]}
           /\ level'[p[2]] = depth /\ \A m \in Nodes \ {p[2]} : level'[m] = level[m]
           /\ p[1] \in Seen /\ level[p[1]] = depth - 1 /\ Leads(graph, query, p[1], p[2])
           /\ level' \in [Nodes -> Nat \cup {Unseen}] /\ rank' \in [Nodes -> Nat]
           /\ Rooted' /\ Walked' /\ Behind' /\ Called' /\ Ranked'
<1> DEFINE n == p[2]
<1>1. outcome = "search"
  BY DEF ReachInv, Over
<1>2. n \in Nodes /\ p[1] \in Nodes /\ n \notin Seen
  BY DEF ReachInv, ReachTypeOK, Seen
<1>3. p[1] \in Seen /\ level[p[1]] = depth - 1 /\ Leads(graph, query, p[1], n)
  BY <1>1 DEF ReachInv, Ahead
<1>4. depth \in Nat \ {0} /\ level \in [Nodes -> Nat \cup {Unseen}] /\ rank \in [Nodes -> Nat]
  BY DEF ReachInv, ReachTypeOK
<1>5. level' = [level EXCEPT ![n] = depth] /\ rank' = [rank EXCEPT ![n] = Cardinality(Seen)]
      /\ UNCHANGED <<graph, query, depth>>
  BY DEF Mark
<1>6. level'[n] = depth /\ \A m \in Nodes \ {n} : level'[m] = level[m]
  BY <1>2, <1>4, <1>5
<1>7. level' \in [Nodes -> Nat \cup {Unseen}]
  BY <1>2, <1>4, <1>5
<1>8. rank' \in [Nodes -> Nat]
  <2>1. Cardinality(Seen) \in Nat
    BY Counting DEF ReachInv
  <2> QED
    BY <2>1, <1>2, <1>4, <1>5
<1>9. Seen' = Seen \cup {n}
  BY <1>2, <1>4, <1>6 DEF Seen, Unseen
<1>10. Rooted'
  <2>1. ASSUME NEW m \in Nodes PROVE level'[m] = 0 <=> m \in Seeds(graph, query)
    <3>1. level[m] = 0 <=> m \in Seeds(graph, query)
      BY DEF ReachInv, Rooted
    <3> QED
      BY <3>1, <1>2, <1>4, <1>6 DEF Seen, Unseen
  <2> QED
    BY <2>1, <1>5 DEF Rooted
<1>11. Walked'
  <2>1. ASSUME NEW m \in Seen' PROVE WalkIn(graph, query, m, level'[m])
    <3>1. CASE m = n
      <4>1. WalkIn(graph, query, p[1], depth - 1)
        BY <1>3 DEF ReachInv, Walked, Walk
      <4>2. WalkIn(graph, query, n, (depth - 1) + 1)
        <5>1. depth - 1 \in Nat
          BY <1>4
        <5> QED
          BY <1>2, <1>3, <4>1, <5>1, WalkGoesOn
      <4> QED
        BY <3>1, <4>2, <1>4, <1>6
    <3>2. CASE m # n
      <4>1. m \in Seen /\ m \in Nodes
        BY <1>9, <3>2 DEF Seen
      <4>2. WalkIn(graph, query, m, level[m])
        BY <4>1 DEF ReachInv, Walked, Walk
      <4> QED
        BY <3>2, <4>1, <4>2, <1>6
    <3> QED
      BY <3>1, <3>2
  <2> QED
    BY <2>1, <1>5 DEF Walked, Walk
<1>12. Behind'
  <2>1. ASSUME NEW m \in Seen', NEW l \in Nodes, level'[m] < depth - 1, Leads(graph, query, m, l)
        PROVE  l \in Seen' /\ level'[l] <= level'[m] + 1
    <3>1. m # n /\ m \in Seen /\ m \in Nodes
      BY <1>4, <1>6, <1>9, <2>1 DEF Seen
    <3>2. level'[m] = level[m] /\ level[m] < depth - 1
      BY <1>6, <2>1, <3>1
    <3>3. l \in Seen /\ level[l] <= level[m] + 1
      BY <2>1, <3>1, <3>2 DEF ReachInv, Behind, FollowedBelow
    <3> QED
      BY <1>2, <1>6, <1>9, <3>2, <3>3
  <2> QED
    BY <2>1, <1>5 DEF Behind, FollowedBelow
<1>13. Called'
  <2>1. ASSUME query.task = "dead", NEW S \in SUBSET Nodes, graph.roots \subseteq S, HoldsCalls(S)
        PROVE  Seen' \subseteq S
    <3>1. p[1] \in S
      BY <1>3, <2>1 DEF ReachInv, Called
    <3>2. n \in S
      BY <1>3, <2>1, <3>1 DEF Leads, HoldsCalls
    <3> QED
      BY <1>9, <2>1, <3>2 DEF ReachInv, Called
  <2> QED
    BY <2>1, <1>5 DEF Called, HoldsCalls
<1>14. Ranked'
  <2>1. SUFFICES ASSUME query.task # "dead" PROVE Ranked'
    BY <1>5 DEF Ranked
  <2>2. Seen \subseteq Nodes /\ IsFiniteSet(Seen) /\ Cardinality(Seen) \in Nat
    <3>1. Seen \subseteq Nodes
      BY DEF Seen
    <3> QED
      BY <3>1, CodeGraphAssumption, FS_Subset, FS_CardinalityType
  <2>3. Cardinality(Seen') = Cardinality(Seen) + 1
    BY <1>2, <1>9, <2>2, FS_AddElement
  <2>4. rank'[n] = Cardinality(Seen) /\ \A m \in Seen : rank'[m] = rank[m] /\ level'[m] = level[m]
    BY <1>2, <1>4, <1>5, <1>6, <2>2
  <2>5. \A m \in Seen : rank[m] \in Nat /\ rank[m] < Cardinality(Seen) /\ level[m] \in Nat
                       /\ level[m] <= depth
    BY <1>4, <2>1, <2>2 DEF ReachInv, Ranked, Depths, Seen
  <2>6. \A l, m \in Seen : (rank[l] = rank[m] => l = m) /\ (rank[l] < rank[m] => level[l] <= level[m])
    BY <2>1 DEF ReachInv, Ranked
  <2> QED
    BY <1>4, <1>6, <1>9, <2>2, <2>3, <2>4, <2>5, <2>6 DEF Ranked
<1> QED
  BY <1>1, <1>2, <1>3, <1>6, <1>7, <1>8, <1>9, <1>10, <1>11, <1>12, <1>13, <1>14

\* A node found is marked, collected if it has a row, and part of the next frontier.
LEMMA FindInv ==
    ASSUME ReachInv, NEW p \in todo, Find(p), UNCHANGED graph
    PROVE  ReachInv'
<1> DEFINE n == p[2]
<1>1. level[n] = Unseen /\ ~ (Limited /\ Full) /\ Mark(n)
      /\ todo' = todo \ {p} /\ results' = results \cup ({n} \cap graph.nodes)
      /\ next' = next \cup {n} /\ UNCHANGED outcome
  BY DEF Find
<1>2. /\ outcome = "search"
      /\ n \in Nodes /\ n \notin Seen /\ Seen' = Seen \cup {n}
      /\ level'[n] = depth /\ \A m \in Nodes \ {n} : level'[m] = level[m]
      /\ p[1] \in Seen /\ level[p[1]] = depth - 1 /\ Leads(graph, query, p[1], n)
      /\ level' \in [Nodes -> Nat \cup {Unseen}] /\ rank' \in [Nodes -> Nat]
      /\ Rooted' /\ Walked' /\ Behind' /\ Called' /\ Ranked'
  BY <1>1, Marked
<1>3. UNCHANGED <<graph, query, depth, outcome>>
  BY <1>1 DEF Mark
<1>4. ReachTypeOK /\ graph \in Graph /\ depth \in Nat \ {0}
  BY DEF ReachInv, ReachTypeOK
<1>5. Seen \subseteq Nodes /\ \A m \in Seen : m # n /\ level'[m] = level[m]
  BY <1>2 DEF Seen
<1>6. ReachTypeOK' /\ (graph \in Graph)'
  BY <1>1, <1>2, <1>3, <1>4 DEF ReachTypeOK
<1>7. Depths'
  BY <1>2, <1>3, <1>4, <1>5 DEF ReachInv, Depths, ReachTypeOK, Query
<1>8. Ahead'
  <2>1. next = {m \in Seen : level[m] = depth}
    BY <1>2 DEF ReachInv, Ahead
  <2>2. next' = {m \in Seen' : level'[m] = depth'}
    BY <1>1, <1>2, <1>3, <1>5, <2>1
  <2>3. \A t \in todo' : /\ t[1] \in Seen' /\ level'[t[1]] = depth - 1
                         /\ Leads(graph, query, t[1], t[2])
    BY <1>1, <1>2, <1>5 DEF ReachInv, Ahead
  <2>4. ASSUME NEW m \in Seen', NEW l \in Nodes, level'[m] = depth - 1, Leads(graph, query, m, l)
        PROVE  l \in Seen' \/ <<m, l>> \in todo'
    <3>1. m \in Seen /\ level[m] = depth - 1
      BY <1>2, <1>4, <1>5, <2>4
    <3>2. l \in Seen \/ <<m, l>> \in todo
      BY <1>2, <2>4, <3>1 DEF ReachInv, Ahead
    <3>3. p = <<p[1], n>>
      BY <1>4 DEF ReachTypeOK
    <3>4. <<m, l>> = p => l = n
      BY <3>3
    <3> QED
      BY <1>1, <1>2, <3>2, <3>4
  <2> QED
    BY <1>3, <2>2, <2>3, <2>4 DEF Ahead
<1>9. Over'
  BY <1>2, <1>3 DEF Over
<1>10. Collected'
  <2>1. results = Found /\ (Limited => Cardinality(results) <= Bound)
    BY <1>2 DEF ReachInv, Collected
  <2>2. results' = Found'
    BY <1>1, <1>2, <1>3, <1>4, <1>5, <2>1 DEF Found
  <2>3. ASSUME Limited PROVE Cardinality(results') <= Bound
    <3>1. IsFiniteSet(results) /\ Cardinality(results) \in Nat /\ query.limit \in Int
      BY <1>4, Counting DEF ReachTypeOK, Query
    <3>2. Cardinality(results) < query.limit
      BY <1>1, <2>3, <3>1 DEF Full
    <3>3. results' = results \/ results' = results \cup {n}
      BY <1>1
    <3>4. n \notin results
      BY <1>2, <2>1 DEF Found
    <3>5. Cardinality(results \cup {n}) = Cardinality(results) + 1
      BY <3>1, <3>4, FS_AddElement
    <3>6. query.limit = Bound /\ Cardinality(results) + 1 <= query.limit
      BY <3>1, <3>2 DEF Bound
    <3>7. CASE results' = results
      BY <3>1, <3>6, <3>7
    <3>8. CASE results' = results \cup {n}
      BY <3>5, <3>6, <3>8
    <3> QED
      BY <3>3, <3>7, <3>8
  <2> QED
    BY <1>2, <1>3, <2>2, <2>3 DEF Collected, Limited, Bound
<1> QED
  BY <1>2, <1>6, <1>7, <1>8, <1>9, <1>10 DEF ReachInv

\* A search is cut at a node that does not fit any more.
LEMMA CutInv ==
    ASSUME ReachInv, NEW p \in todo, Cut(p), UNCHANGED graph
    PROVE  ReachInv'
<1> DEFINE n == p[2]
<1>1. level[n] = Unseen /\ Limited /\ Full /\ Mark(n)
      /\ todo' = {} /\ outcome' = "cut" /\ UNCHANGED <<next, results>>
  BY DEF Cut
<1>2. /\ outcome = "search"
      /\ n \in Nodes /\ n \notin Seen /\ Seen' = Seen \cup {n}
      /\ level'[n] = depth /\ \A m \in Nodes \ {n} : level'[m] = level[m]
      /\ level' \in [Nodes -> Nat \cup {Unseen}] /\ rank' \in [Nodes -> Nat]
      /\ Rooted' /\ Walked' /\ Behind' /\ Called' /\ Ranked'
  BY <1>1, Marked
<1>3. UNCHANGED <<graph, query, depth>>
  BY <1>1 DEF Mark
<1>4. ReachTypeOK /\ graph \in Graph /\ depth \in Nat \ {0}
  BY DEF ReachInv, ReachTypeOK
<1>5. Seen \subseteq Nodes /\ \A m \in Seen : m # n /\ level'[m] = level[m]
  BY <1>2 DEF Seen
<1>6. ReachTypeOK' /\ (graph \in Graph)'
  BY <1>1, <1>2, <1>3, <1>4 DEF ReachTypeOK
<1>7. Depths'
  BY <1>1, <1>2, <1>3, <1>4, <1>5 DEF ReachInv, Depths, ReachTypeOK, Query
<1>8. Ahead' /\ Over'
  BY <1>1 DEF Ahead, Over
<1>9. Collected'
  <2>1. results = Found /\ Cardinality(results) <= Bound
    BY <1>1, <1>2 DEF ReachInv, Collected
  <2>2. Cardinality(results) = Bound
    <3>1. Cardinality(results) \in Nat /\ query.limit \in Int
      BY <1>4, Counting DEF ReachTypeOK, Query
    <3> QED
      BY <1>1, <2>1, <3>1 DEF Full, Bound
  <2>3. results = Found' \ {n}
    BY <1>2, <1>3, <1>5, <2>1 DEF Found
  <2>4. n \in Seen' /\ level'[n] = depth'
    BY <1>2, <1>3
  <2> QED
    BY <1>1, <1>3, <2>2, <2>3, <2>4 DEF Collected, Limited, Bound
<1> QED
  BY <1>2, <1>6, <1>7, <1>8, <1>9 DEF ReachInv

\* The next level: its frontier is what was found on this one.
LEMMA DeepenInv ==
    ASSUME ReachInv, Deepen, UNCHANGED graph
    PROVE  ReachInv'
<1>1. /\ outcome = "search" /\ todo = {} /\ depth' = depth + 1
      /\ todo' = Todo(graph, query, next, depth + 1) /\ next' = {}
      /\ outcome' = IF GoesOn(query, next, depth + 1) THEN "search" ELSE "done"
      /\ UNCHANGED <<graph, query, level, rank, results, Seen>>
  BY DEF Deepen, Seen
<1>2. /\ ReachTypeOK /\ graph \in Graph /\ depth \in Nat \ {0} /\ next \subseteq Nodes
      /\ query.maxDepth \in Int
  BY DEF ReachInv, ReachTypeOK, Query
<1>3. Seen \subseteq Nodes /\ \A m \in Seen : level[m] \in Nat /\ level[m] <= depth
  BY <1>2 DEF ReachInv, Depths, ReachTypeOK, Seen
<1>4. next = {m \in Seen : level[m] = depth}
  BY <1>1 DEF ReachInv, Ahead
<1>5. ReachTypeOK' /\ (graph \in Graph)'
  BY <1>1, <1>2 DEF ReachTypeOK, Todo
<1>6. Rooted' /\ Walked' /\ Called' /\ Ranked'
  BY <1>1 DEF ReachInv, Rooted, Walked, Walk, Called, HoldsCalls, Ranked
<1>7. Depths'
  <2>1. outcome' = "search" => query.task = "dead" \/ depth + 1 <= query.maxDepth
    BY <1>1 DEF GoesOn
  <2>2. \A m \in Seen : level[m] <= depth + 1
    BY <1>2, <1>3
  <2> QED
    BY <1>1, <2>1, <2>2 DEF ReachInv, Depths
<1>8. Behind'
  <2>1. ASSUME NEW m \in Seen, NEW l \in Nodes, level[m] < (depth + 1) - 1, Leads(graph, query, m, l)
        PROVE  l \in Seen /\ level[l] <= level[m] + 1
    <3>1. CASE level[m] < depth - 1
      BY <2>1, <3>1 DEF ReachInv, Behind, FollowedBelow
    <3>2. CASE level[m] = depth - 1
      <4>1. l \in Seen
        BY <1>1, <2>1, <3>2 DEF ReachInv, Ahead
      <4> QED
        BY <1>2, <1>3, <3>2, <4>1
    <3> QED
      BY <1>2, <1>3, <2>1, <3>1, <3>2
  <2> QED
    BY <1>1, <2>1 DEF Behind, FollowedBelow
<1>9. Ahead'
  <2>1. SUFFICES ASSUME outcome' = "search" PROVE Ahead'
    BY DEF Ahead
  <2>2. todo' = {p \in next \X Nodes : Leads(graph, query, p[1], p[2])}
    BY <1>1, <2>1 DEF Todo
  <2>3. {m \in Seen : level[m] = depth + 1} = {}
    BY <1>2, <1>3
  <2>4. \A p \in todo' : /\ p[1] \in Seen /\ level[p[1]] = (depth + 1) - 1
                         /\ Leads(graph, query, p[1], p[2])
    BY <1>2, <1>4, <2>2
  <2>5. \A m \in Seen, l \in Nodes :
           level[m] = (depth + 1) - 1 /\ Leads(graph, query, m, l) => <<m, l>> \in todo'
    BY <1>2, <1>4, <2>2
  <2> QED
    BY <1>1, <2>3, <2>4, <2>5 DEF Ahead
<1>10. Over'
  <2>1. outcome' # "search" => todo' = {}
    BY <1>1 DEF Todo
  <2>2. outcome' = "done" =>
          next = {} \/ (query.task # "dead" /\ ~ (depth + 1 <= query.maxDepth))
    BY <1>1 DEF GoesOn
  <2>3. \A m \in Seen : level[m] < depth + 1
    BY <1>2, <1>3
  <2>4. next = {} => \A m \in Seen : level[m] # (depth + 1) - 1
    BY <1>2, <1>4
  <2>5. ~ (depth + 1 <= query.maxDepth) => query.maxDepth < depth + 1
    BY <1>2
  <2> QED
    BY <1>1, <2>1, <2>2, <2>3, <2>4, <2>5 DEF Over
<1>11. Collected'
  <2>1. results = Found /\ (Limited => Cardinality(results) <= Bound)
    BY <1>1 DEF ReachInv, Collected
  <2>2. outcome' # "cut" /\ Found' = Found /\ Bound' = Bound /\ (Limited' <=> Limited)
    BY <1>1 DEF Found, Bound, Limited
  <2> QED
    BY <1>1, <2>1, <2>2 DEF Collected
<1> QED
  BY <1>5, <1>6, <1>7, <1>8, <1>9, <1>10, <1>11 DEF ReachInv

\* The invariant holds whatever is asked of whatever graph.
THEOREM ReachInvHolds == ReachSpec => []ReachInv
<1> DEFINE vars == <<graph, reachVars>>
<1>1. graph \in Graphs /\ ReachInit => ReachInv
  BY ReachInitInv
<1>2. ReachInv /\ [ReachNext /\ UNCHANGED graph]_vars => ReachInv'
  <2> SUFFICES ASSUME ReachInv, [ReachNext /\ UNCHANGED graph]_vars PROVE ReachInv'
    OBVIOUS
  <2>1. ASSUME UNCHANGED graph, NEW p \in todo, Look(p) PROVE ReachInv'
    BY <2>1, PassOverInv, FindInv, CutInv DEF Look
  <2>2. ASSUME UNCHANGED graph, Deepen PROVE ReachInv'
    BY <2>2, DeepenInv
  <2>3. CASE UNCHANGED vars
    BY <2>3 DEF reachVars, ReachInv, ReachTypeOK, Rooted, Walked, Walk, Depths, Behind, FollowedBelow,
                Ahead, Over, Collected, Found, Bound, Limited, Called, HoldsCalls, Ranked, Seen
  <2> QED
    BY <2>1, <2>2, <2>3 DEF ReachNext
<1> QED
  BY <1>1, <1>2, PTL DEF ReachSpec

\* A search keeps its types, whatever is asked.
THEOREM ReachTypeCorrect == ReachSpec => []ReachTypeOK
<1>1. ReachInv => ReachTypeOK
  BY DEF ReachInv
<1> QED
  BY <1>1, ReachInvHolds, PTL

-----------------------------------------------------------------------------
(* Reach: what the answers are.                                            *)

\* When a search is done, what any walk reaches within the depth asked for was seen,
\* and at a level no higher than the walk is long.
LEMMA DoneSeesAll ==
    ASSUME ReachInv, outcome = "done", NEW n \in Nodes, NEW k \in Nat, Walk(n, k),
           query.task = "dead" \/ k <= query.maxDepth
    PROVE  n \in Seen /\ level[n] <= k
<1>1. ReachTypeOK /\ Rooted /\ depth \in Nat \ {0} /\ query.maxDepth \in Int
  BY DEF ReachInv, ReachTypeOK, Query
<1>2. CASE query.task # "dead" /\ query.maxDepth < depth
  <2>1. k <= depth - 1 /\ depth - 1 \in Int
    BY <1>1, <1>2
  <2> QED
    BY <1>1, <2>1, WalkIsSeen DEF ReachInv, Behind
<1>3. CASE \A m \in Seen : level[m] # depth - 1
  <2>1. \A m \in Seen : level[m] \in Nat /\ level[m] < depth - 1
    BY <1>1, <1>3 DEF ReachInv, Over, ReachTypeOK, Seen
  <2>2. FollowedBelow(k)
    BY <2>1 DEF ReachInv, Behind, FollowedBelow
  <2> QED
    BY <1>1, <2>2, WalkIsSeen
<1> QED
  BY <1>2, <1>3 DEF ReachInv, Over

\* ReverseReach and ForwardReach, when they are not truncated, return exactly the
\* symbols within the depth asked for, each with its distance, on every graph.
THEOREM ReachesExactly == ReachSpec => []ReachIsExact
<1>1. ReachInv => ReachIsExact
  <2> SUFFICES ASSUME ReachInv, Limited, outcome = "done"
               PROVE  /\ results = {n \in graph.nodes \ {query.seed} : Within(n)}
                      /\ \A n \in results : Distance(n, level[n])
    BY DEF ReachIsExact
  <2>1. ReachTypeOK /\ graph.nodes \subseteq Nodes /\ query.task # "dead" /\ query.maxDepth \in Int
        /\ Seeds(graph, query) = {query.seed} /\ query.seed \in Nodes
    BY DEF ReachInv, ReachTypeOK, Graph, Query, Limited, Seeds
  <2>2. results = Found
    BY DEF ReachInv, Collected
  <2>3. ASSUME NEW n \in results
        PROVE  n \in graph.nodes \ {query.seed} /\ Within(n) /\ Distance(n, level[n])
    <3>1. n \in Nodes /\ n \in Seen /\ n \in graph.nodes /\ level[n] >= 1 /\ level[n] \in Nat
      BY <2>1, <2>2 DEF Found, ReachTypeOK, Seen
    <3>2. level[n] \in 1 .. query.maxDepth /\ n # query.seed
      BY <2>1, <3>1 DEF ReachInv, Depths, Rooted
    <3>3. Walk(n, level[n])
      BY <3>1 DEF ReachInv, Walked
    <3>4. ASSUME NEW j \in 0 .. level[n] - 1, Walk(n, j) PROVE FALSE
      <4>1. j \in Nat /\ j <= query.maxDepth /\ j < level[n]
        BY <2>1, <3>1, <3>2
      <4>2. level[n] <= j
        BY <3>1, <3>4, <4>1, DoneSeesAll
      <4> QED
        BY <3>1, <4>1, <4>2
    <3> QED
      BY <3>1, <3>2, <3>3, <3>4 DEF Within, Distance
  <2>4. ASSUME NEW n \in graph.nodes \ {query.seed}, Within(n) PROVE n \in results
    <3>1. PICK k \in 1 .. query.maxDepth : Walk(n, k)
      BY <2>4 DEF Within
    <3>2. k \in Nat /\ k <= query.maxDepth /\ n \in Nodes
      BY <2>1
    <3>3. n \in Seen
      BY <3>1, <3>2, DoneSeesAll
    <3>4. level[n] # 0 /\ level[n] \in Nat
      BY <2>1, <3>2, <3>3 DEF ReachInv, Rooted, ReachTypeOK, Seen
    <3> QED
      BY <2>2, <3>3, <3>4 DEF Found
  <2> QED
    BY <2>3, <2>4
<1> QED
  BY <1>1, ReachInvHolds, PTL

\* When they are truncated, there was more, and what they return is the nearest.
THEOREM CutsKeepNearest == ReachSpec => []CutKeepsNearest
<1>1. ReachInv => CutKeepsNearest
  <2> SUFFICES ASSUME ReachInv, outcome = "cut"
               PROVE  /\ Cardinality(results) = Bound
                      /\ \E n \in Nodes \ results : n # query.seed /\ Within(n)
                      /\ \A n \in results :
                            /\ level[n] \in 1 .. query.maxDepth /\ Distance(n, level[n])
                            /\ \A m \in graph.nodes \ ({query.seed} \cup results), k \in 0 .. level[n] - 1 :
                                  ~ Walk(m, k)
    BY DEF CutKeepsNearest, Bound
  <2>1. ReachTypeOK /\ Rooted /\ graph.nodes \subseteq Nodes /\ query.task # "dead"
        /\ query.maxDepth \in Int /\ depth \in Nat \ {0} /\ query.seed \in Nodes
        /\ Seeds(graph, query) = {query.seed}
    BY DEF ReachInv, ReachTypeOK, Graph, Query, Limited, Collected, Seeds
  <2>2. Cardinality(results) = Bound
    BY DEF ReachInv, Collected
  <2>3. PICK x \in Seen : level[x] = depth /\ results = Found \ {x}
    BY DEF ReachInv, Collected
  <2>4. \A m \in Seen : m \in Nodes /\ level[m] \in Nat /\ level[m] <= depth
                        /\ (level[m] >= 1 => level[m] <= query.maxDepth /\ m # query.seed)
    BY <2>1 DEF ReachInv, ReachTypeOK, Seen, Depths, Rooted
  <2>5. x \notin results /\ x # query.seed /\ Within(x)
    <3>1. depth \in 1 .. query.maxDepth /\ x # query.seed
      BY <2>1, <2>3, <2>4
    <3>2. Walk(x, depth)
      BY <2>3 DEF ReachInv, Walked
    <3> QED
      BY <2>3, <3>1, <3>2 DEF Within
  <2>6. ASSUME NEW m \in Nodes, NEW k \in Nat, k <= depth - 1, Walk(m, k)
        PROVE  m \in Seen /\ level[m] <= k
    <3>1. depth - 1 \in Int /\ FollowedBelow(depth - 1)
      BY <2>1 DEF ReachInv, Behind
    <3> QED
      BY <2>1, <2>6, <3>1, WalkIsSeen
  <2>7. ASSUME NEW n \in results
        PROVE  level[n] \in 1 .. query.maxDepth /\ Distance(n, level[n])
    <3>1. n \in Seen /\ level[n] \in 1 .. query.maxDepth /\ level[n] <= depth
      BY <2>1, <2>3, <2>4 DEF Found
    <3>2. ASSUME NEW j \in 0 .. level[n] - 1, Walk(n, j) PROVE FALSE
      <4>1. j \in Nat /\ j <= depth - 1 /\ n \in Nodes /\ j < level[n]
        BY <2>1, <2>4, <3>1
      <4>2. level[n] <= j
        BY <2>6, <3>2, <4>1
      <4> QED
        BY <2>4, <3>1, <4>1, <4>2
    <3> QED
      BY <3>1, <3>2 DEF ReachInv, Walked, Distance
  <2>8. ASSUME NEW n \in results, NEW m \in graph.nodes \ ({query.seed} \cup results),
               NEW k \in 0 .. level[n] - 1, Walk(m, k)
        PROVE  FALSE
    <3>1. level[n] \in Nat /\ level[n] <= depth
      BY <2>3, <2>4 DEF Found
    <3>2. k \in Nat /\ k <= depth - 1 /\ m \in Nodes
      BY <2>1, <3>1
    <3>3. m \in Seen /\ level[m] <= k
      BY <2>6, <2>8, <3>2
    <3>4. level[m] # depth /\ level[m] # 0
      BY <2>1, <2>4, <3>1, <3>2, <3>3 DEF Rooted
    <3>5. m \in Found /\ m # x
      BY <2>3, <2>4, <3>3, <3>4 DEF Found
    <3> QED
      BY <2>3, <3>5
  <2> QED
    BY <2>2, <2>3, <2>4, <2>5, <2>7, <2>8
<1> QED
  BY <1>1, ReachInvHolds, PTL

\* DeadCandidates offers exactly the callables that no chain of calls from a root reaches.
THEOREM DeadIsDead == ReachSpec => []DeadIsUnreached
<1>1. ReachInv => DeadIsUnreached
  <2> SUFFICES ASSUME ReachInv, query.task = "dead", outcome = "done"
               PROVE  Dead = {n \in graph.callables :
                               \E S \in SUBSET Nodes : graph.roots \subseteq S /\ HoldsCalls(S) /\ n \notin S}
    BY DEF DeadIsUnreached
  <2>1. ReachTypeOK /\ depth \in Nat \ {0} /\ Seen \subseteq Nodes /\ graph.roots \subseteq Nodes
        /\ graph.callables \subseteq Nodes /\ graph.edges \subseteq Edge
    BY DEF ReachInv, ReachTypeOK, Seen, Graph
  <2>2. graph.roots \subseteq Seen
    BY <2>1 DEF ReachInv, Rooted, Seeds, Seen, Unseen
  <2>3. HoldsCalls(Seen)
    <3>1. ASSUME NEW e \in graph.edges, e.kind = "calls", e.src \in Seen PROVE e.tgt \in Seen
      <4>1. e.tgt \in Nodes /\ Leads(graph, query, e.src, e.tgt)
        BY <2>1, <3>1 DEF Edge, Leads
      <4>2. level[e.src] < depth - 1
        BY <2>1, <3>1 DEF ReachInv, Over, ReachTypeOK, Seen
      <4> QED
        BY <3>1, <4>1, <4>2 DEF ReachInv, Behind, FollowedBelow
    <3> QED
      BY <3>1 DEF HoldsCalls
  <2>4. \A S \in SUBSET Nodes : graph.roots \subseteq S /\ HoldsCalls(S) => Seen \subseteq S
    BY DEF ReachInv, Called
  <2>5. ASSUME NEW n \in graph.callables
        PROVE  n \in Dead <=> \E S \in SUBSET Nodes : graph.roots \subseteq S /\ HoldsCalls(S) /\ n \notin S
    <3>1. n \in Dead <=> n \notin Seen
      BY <2>1 DEF Dead, Seen
    <3> QED
      BY <2>1, <2>2, <2>3, <2>4, <3>1
  <2> QED
    BY <2>5 DEF Dead
<1> QED
  BY <1>1, ReachInvHolds, PTL

\* Neighborhood shows every symbol within the radius, or says that it is truncated and
\* shows the nearest ones, as many as it may.
THEOREM NeighborhoodsAreExact == ReachSpec => []NeighborhoodIsExact
<1>1. ReachInv => NeighborhoodIsExact
  <2> DEFINE S == Seen \cap graph.nodes
             R == {p \in Nodes \X Nodes : rank[p[1]] < rank[p[2]]}
  <2> SUFFICES ASSUME ReachInv, query.task = "neighborhood", outcome = "done"
               PROVE  IF Truncated
                      THEN /\ Cardinality(Shown) = Bound
                           /\ \A n \in Shown, m \in graph.nodes \ Shown :
                                 \A k \in 0 .. level[n] - 1 : ~ Walk(m, k)
                      ELSE Shown = {n \in graph.nodes : n = query.seed \/ Within(n)}
    BY DEF NeighborhoodIsExact, Bound
  <2>1. /\ ReachTypeOK /\ graph.nodes \subseteq Nodes /\ query.maxDepth \in Int /\ query.limit \in Int
        /\ query.seed \in Nodes /\ Seeds(graph, query) = {query.seed} /\ Seen \subseteq Nodes
        /\ \A n \in Nodes : rank[n] \in Nat
        /\ \A n \in Seen : level[n] \in Nat
    BY DEF ReachInv, ReachTypeOK, Graph, Query, Seeds, Seen
  <2>2. \A l, m \in Seen : (rank[l] = rank[m] => l = m) /\ (rank[l] < rank[m] => level[l] <= level[m])
    BY DEF ReachInv, Ranked
  <2>3. S \subseteq Nodes /\ IsFiniteSet(S) /\ Cardinality(S) \in Nat
    BY <2>1, CodeGraphAssumption, FS_Subset, FS_CardinalityType
  <2>4. \A m, n \in S : <<m, n>> \in R <=> rank[m] < rank[n]
    BY <2>3
  <2>5. \A n \in Nodes : FoundBefore(n) = {m \in S : rank[m] < rank[n]}
    BY DEF FoundBefore
  <2>6. Shown = Firsts(S, R, query.limit)
    <3>1. \A n \in S : FoundBefore(n) = {m \in S : <<m, n>> \in R}
      BY <2>3, <2>4, <2>5
    <3> QED
      BY <3>1 DEF Shown, Firsts
  <2>7. /\ \A n \in Shown, m \in S : rank[m] < rank[n] => m \in Shown
        /\ 0 <= query.limit /\ query.limit <= Cardinality(S) => Cardinality(Shown) = query.limit
        /\ Shown \subseteq S
    <3>1. \A m, n \in S : m = n \/ <<m, n>> \in R \/ <<n, m>> \in R
      BY <2>1, <2>2, <2>3
    <3>2. \A n \in S : <<n, n>> \notin R
      BY <2>1
    <3>3. \A l, m, n \in S : <<l, m>> \in R /\ <<m, n>> \in R => <<l, n>> \in R
      BY <2>1, <2>3
    <3>4. /\ \A n \in Shown, m \in S : <<m, n>> \in R => m \in Shown
          /\ 0 <= query.limit /\ query.limit <= Cardinality(S) => Cardinality(Shown) = query.limit
      <4> HIDE DEF S, R
      <4> QED
        BY <2>1, <2>3, <2>6, <3>1, <3>2, <3>3, FirstOnes
    <3> QED
      BY <2>4, <2>6, <3>4 DEF Firsts
  <2> HIDE DEF R
  <2>8. \A n \in Nodes : IsFiniteSet(FoundBefore(n)) /\ Cardinality(FoundBefore(n)) \in Nat
                         /\ Cardinality(FoundBefore(n)) <= Cardinality(S)
    <3>1. ASSUME NEW n \in Nodes PROVE FoundBefore(n) \in SUBSET S
      BY <2>5
    <3> HIDE DEF S
    <3> QED
      BY <2>3, <3>1, FS_Subset, FS_CardinalityType
  <2>9. ASSUME NEW m \in graph.nodes, NEW k \in Nat, Walk(m, k), k <= query.maxDepth
        PROVE  m \in S /\ level[m] <= k
    BY <2>1, <2>9, DoneSeesAll
  <2>10. CASE Truncated
    <3>1. PICK n \in Seen : Cardinality(FoundBefore(n)) >= query.limit
      BY <2>10 DEF Truncated
    <3>2. query.limit <= Cardinality(S)
      <4>1. n \in Nodes
        BY <2>1
      <4>2. Cardinality(FoundBefore(n)) \in Nat /\ Cardinality(FoundBefore(n)) <= Cardinality(S)
        BY <2>8, <4>1
      <4> HIDE DEF S
      <4> QED
        BY <2>1, <2>3, <3>1, <4>2
    <3>3. Cardinality(Shown) = Bound
      <4>1. CASE query.limit < 0
        <5>1. Shown = {}
          BY <2>1, <2>8, <4>1 DEF Shown
        <5> QED
          BY <4>1, <5>1, FS_EmptySet DEF Bound
      <4>2. CASE 0 <= query.limit
        BY <2>1, <2>7, <3>2, <4>2 DEF Bound
      <4> QED
        BY <2>1, <4>1, <4>2
    <3>4. ASSUME NEW s \in Shown, NEW m \in graph.nodes \ Shown, NEW k \in 0 .. level[s] - 1, Walk(m, k)
          PROVE  FALSE
      <4>1. s \in S /\ s \in Seen /\ level[s] \in Nat
        BY <2>1, <2>7
      <4>2. k \in Nat /\ k < level[s] /\ level[s] <= query.maxDepth /\ k <= query.maxDepth
        BY <2>1, <4>1 DEF ReachInv, Depths
      <4>3. m \in S /\ level[m] <= k
        BY <2>1, <2>9, <3>4, <4>2
      <4>4. level[m] \in Nat /\ level[m] < level[s] /\ m \in Seen /\ m # s
        BY <2>1, <4>1, <4>2, <4>3
      <4>5. rank[m] < rank[s]
        <5>1. rank[m] \in Nat /\ rank[s] \in Nat /\ rank[m] # rank[s]
          BY <2>1, <2>2, <4>1, <4>4
        <5>2. ~ (rank[s] < rank[m])
          BY <2>2, <4>1, <4>4
        <5> QED
          BY <5>1, <5>2
      <4> QED
        BY <2>7, <4>3, <4>5
    <3> QED
      BY <2>10, <3>3, <3>4
  <2>11. CASE ~ Truncated
    <3>1. Shown = S
      <4>1. ASSUME NEW n \in S PROVE Cardinality(FoundBefore(n)) < query.limit
        <5>1. ~ (Cardinality(FoundBefore(n)) >= query.limit) /\ n \in Nodes
          BY <2>1, <2>11 DEF Truncated
        <5> QED
          BY <2>1, <2>8, <5>1
      <4> QED
        BY <4>1 DEF Shown
    <3>2. ASSUME NEW n \in S PROVE n = query.seed \/ Within(n)
      <4>1. CASE level[n] = 0
        BY <2>1, <2>3, <4>1 DEF ReachInv, Rooted
      <4>2. CASE level[n] # 0
        <5>1. level[n] \in 1 .. query.maxDepth /\ Walk(n, level[n])
          BY <2>1, <4>2 DEF ReachInv, Depths, Walked
        <5> QED
          BY <5>1 DEF Within
      <4> QED
        BY <4>1, <4>2
    <3>3. query.seed \in Seen
      BY <2>1 DEF ReachInv, Rooted, Seen, Unseen
    <3>4. ASSUME NEW n \in graph.nodes, Within(n) PROVE n \in S
      <4>1. PICK k \in 1 .. query.maxDepth : Walk(n, k)
        BY <3>4 DEF Within
      <4> QED
        BY <2>1, <2>9, <4>1
    <3> QED
      BY <2>11, <3>1, <3>2, <3>3, <3>4
  <2> QED
    BY <2>10, <2>11
<1> QED
  BY <1>1, ReachInvHolds, PTL

-----------------------------------------------------------------------------
(* get_task_context.                                                       *)

\* The lesser of two numbers.
LEMMA MinOfTwo ==
    ASSUME NEW i \in Int, NEW j \in Int
    PROVE  Min({i, j}) = IF i <= j THEN i ELSE j
<1>1. PICK k \in {i, j} : \A l \in {i, j} : k <= l
  OBVIOUS
<1>2. Min({i, j}) \in {i, j} /\ \A l \in {i, j} : Min({i, j}) <= l
  BY <1>1 DEF Min
<1> QED
  BY <1>2

\* The greater of two numbers.
LEMMA MaxOfTwo ==
    ASSUME NEW i \in Int, NEW j \in Int
    PROVE  Max({i, j}) = IF i >= j THEN i ELSE j
<1>1. PICK k \in {i, j} : \A l \in {i, j} : k >= l
  OBVIOUS
<1>2. Max({i, j}) \in {i, j} /\ \A l \in {i, j} : Max({i, j}) >= l
  BY <1>1 DEF Max
<1> QED
  BY <1>2

\* Filling set F from sub adds nothing else, goes up to the limit if sub has that many,
\* and never beyond it; a set that is beyond the limit stays as it is.
LEMMA FillStopsAtLimit ==
    ASSUME NEW F \in SUBSET Nodes, NEW sub \in SUBSET Nodes, Limit \in Nat
    PROVE  /\ F \subseteq Fill(F, sub) /\ Fill(F, sub) \subseteq F \cup sub
           /\ Cardinality(Fill(F, sub)) <= Limit \/ Fill(F, sub) = F
           /\ Cardinality(Fill(F, sub)) >= Limit \/ Fill(F, sub) = F \cup sub
<1> DEFINE new == sub \ F
           R == {p \in Nodes \X Nodes : Place[p[1]] < Place[p[2]]}
           room == Limit - Cardinality(F)
           Sooner(n) == {m \in sub : Place[m] < Place[n]}
<1>1. /\ IsFiniteSet(F) /\ Cardinality(F) \in Nat
      /\ IsFiniteSet(new) /\ Cardinality(new) \in Nat /\ room \in Int
  BY CodeGraphAssumption, FS_Subset, FS_CardinalityType
<1>2. /\ \A m \in Nodes : Place[m] \in Nat
      /\ \A m, n \in Nodes : (Place[m] = Place[n] => m = n) /\ (<<m, n>> \in R <=> Place[m] < Place[n])
  BY ToolsAssumption DEF IsInjective
<1>3. ASSUME NEW n \in new
      PROVE  Cardinality(F \cup Sooner(n)) = Cardinality(F) + Cardinality({m \in new : <<m, n>> \in R})
  <2> DEFINE B == {m \in new : <<m, n>> \in R}
  <2>1. F \cup Sooner(n) = F \cup B
    BY <1>2
  <2>2. B \in SUBSET new /\ F \cap B = {}
    OBVIOUS
  <2> HIDE DEF B, new
  <2>3. IsFiniteSet(B) /\ Cardinality(B) \in Nat
    BY <1>1, <2>2, FS_Subset, FS_CardinalityType
  <2>4. Cardinality(F \cup B) = Cardinality(F) + Cardinality(B) - Cardinality({})
    BY <1>1, <2>2, <2>3, FS_Union
  <2>5. Cardinality(F \cup B) = Cardinality(F) + Cardinality(B)
    BY <1>1, <2>3, <2>4, FS_EmptySet
  <2> QED
    BY <2>1, <2>5 DEF B
<1>4. Fill(F, sub) = F \cup Firsts(new, R, room)
  <2>1. ASSUME NEW n \in new
        PROVE  Cardinality(F \cup Sooner(n)) < Limit <=> Cardinality({m \in new : <<m, n>> \in R}) < room
    <3>1. {m \in new : <<m, n>> \in R} \in SUBSET new
      OBVIOUS
    <3>2. Cardinality({m \in new : <<m, n>> \in R}) \in Nat
      <4> HIDE DEF R, new
      <4> QED
        BY <1>1, <3>1, FS_Subset, FS_CardinalityType
    <3> QED
      BY <1>1, <1>3, <3>2
  <2>2. Fill(F, sub) = F \cup {n \in new : Cardinality(F \cup Sooner(n)) < Limit}
    BY DEF Fill
  <2> QED
    BY <2>1, <2>2 DEF Firsts
<1>5. /\ 0 <= room /\ room <= Cardinality(new) => Cardinality(Firsts(new, R, room)) = room
      /\ Cardinality(new) <= room => Firsts(new, R, room) = new
  <2>1. \A m, n \in new : m = n \/ <<m, n>> \in R \/ <<n, m>> \in R
    <3>1. ASSUME NEW m \in new, NEW n \in new PROVE m = n \/ <<m, n>> \in R \/ <<n, m>> \in R
      <4>1. m \in Nodes /\ n \in Nodes
        OBVIOUS
      <4> HIDE DEF R, new
      <4>2. Place[m] \in Nat /\ Place[n] \in Nat
        BY <1>2, <4>1
      <4> QED
        BY <1>2, <4>1, <4>2
    <3> QED
      BY <3>1
  <2>2. \A n \in new : <<n, n>> \notin R
    BY <1>2
  <2>3. \A l, m, n \in new : <<l, m>> \in R /\ <<m, n>> \in R => <<l, n>> \in R
    <3>1. new \subseteq Nodes
      OBVIOUS
    <3> HIDE DEF R, new
    <3> QED
      BY <1>2, <3>1
  <2> HIDE DEF new, R, room
  <2> QED
    BY <1>1, <2>1, <2>2, <2>3, FirstOnes
<1>6. Firsts(new, R, room) \in SUBSET new
  BY DEF Firsts
<1>7. F \cup new = F \cup sub
  OBVIOUS
<1>8. Cardinality(Fill(F, sub)) = Cardinality(F) + Cardinality(Firsts(new, R, room))
      /\ Cardinality(Firsts(new, R, room)) \in Nat
  <2>1. F \cap Firsts(new, R, room) = {}
    BY <1>6
  <2> HIDE DEF new, R, room
  <2>2. IsFiniteSet(Firsts(new, R, room)) /\ Cardinality(Firsts(new, R, room)) \in Nat
    BY <1>1, <1>6, FS_Subset, FS_CardinalityType
  <2>3. Cardinality(F \cup Firsts(new, R, room))
          = Cardinality(F) + Cardinality(Firsts(new, R, room)) - Cardinality({})
    BY <1>1, <2>1, <2>2, FS_Union
  <2>4. Cardinality({}) = 0
    BY FS_EmptySet
  <2> QED
    BY <1>1, <1>4, <2>2, <2>3, <2>4
<1>room. room = Limit - Cardinality(F)
  OBVIOUS
<1>9. CASE room < 0
  <2>1. Firsts(new, R, room) = {}
    <3>1. SUFFICES ASSUME NEW n \in Firsts(new, R, room) PROVE FALSE
      OBVIOUS
    <3>2. n \in new /\ Cardinality({m \in new : <<m, n>> \in R}) < room
      BY <3>1 DEF Firsts
    <3>3. {m \in new : <<m, n>> \in R} \in SUBSET new
      OBVIOUS
    <3> HIDE DEF new, R, room
    <3>4. Cardinality({m \in new : <<m, n>> \in R}) \in Nat
      BY <1>1, <3>3, FS_Subset, FS_CardinalityType
    <3> QED
      BY <1>1, <1>9, <3>2, <3>4
  <2>2. Fill(F, sub) = F
    BY <1>4, <2>1
  <2> QED
    BY <1>1, <1>9, <2>2
<1>10. CASE 0 <= room /\ room <= Cardinality(new)
  <2> HIDE DEF new, R, room
  <2>1. Cardinality(Fill(F, sub)) = Limit
    BY <1>1, <1>room, <1>5, <1>8, <1>10
  <2>2. F \subseteq Fill(F, sub) /\ Fill(F, sub) \subseteq F \cup new
    BY <1>4, <1>6
  <2> QED
    BY <1>7, <2>1, <2>2
<1>11. CASE Cardinality(new) <= room
  <2>1. Fill(F, sub) = F \cup sub
    BY <1>4, <1>5, <1>7, <1>11
  <2>2. Firsts(new, R, room) = new
    BY <1>5, <1>11
  <2>3. Cardinality(Fill(F, sub)) <= Limit
    <3> HIDE DEF new, R, room
    <3> QED
      BY <1>1, <1>room, <1>8, <1>11, <2>2
  <2> QED
    BY <2>1, <2>3
<1> QED
  BY <1>1, <1>9, <1>10, <1>11

\* The seeds added so far, and what is next to them.
Added == BestSeeds \ left
Near(seeds) == seeds \cup UNION {NextTo(s) : s \in seeds}

\* With the seeds come, up to the limit, the symbols next to them and no others; the
\* first seed has room, and each later one exceeds the limit by one symbol at most.
ToolsInv ==
    /\ graph \in Graphs /\ args \in ToolArgs
    /\ step = "begin" => context = {}
    /\ step = "seeds" => args.tool = "task"
    /\ step = "names" => args.tool = "search"
    /\ args.tool = "task" /\ step # "begin" =>
          /\ left \subseteq BestSeeds /\ (step = "done" => left = {})
          /\ Added \subseteq context /\ context \subseteq Near(Added)
          /\ ~ Crowded => context = Near(Added)
          /\ Cardinality(context) <= IF Added = {} THEN 0 ELSE Limit + Cardinality(Added) - 1

\* A task has a limit of at least one, and seeds that are nodes.
LEMMA TaskTypes ==
    ASSUME ToolsInv, args.tool = "task"
    PROVE  /\ Limit \in Nat \ {0}
           /\ graph.nodes \subseteq Nodes /\ BestSeeds \subseteq graph.nodes
           /\ \A s \in graph.nodes : NextTo(s) \subseteq graph.nodes
<1>1. args \in TaskArgs
  BY ToolsAssumption DEF ToolsInv, SearchArgs
<1>2. Limit \in Nat \ {0}
  <2>1. args.limit \in Int
    BY <1>1 DEF TaskArgs
  <2> QED
    BY <2>1 DEF Limit
<1>3. graph \in Graph
  BY CodeGraphAssumption DEF ToolsInv
<1> QED
  BY <1>2, <1>3 DEF Graph, BestSeeds, Scored, NextTo

\* Adding a seed keeps the invariant.
LEMMA AddSeedInv ==
    ASSUME ToolsInv, AddSeed, UNCHANGED graph
    PROVE  ToolsInv'
<1>1. /\ step = "seeds" /\ args.tool = "task" /\ UNCHANGED <<graph, args>>
      /\ step' = IF left' = {} THEN "done" ELSE step
  BY DEF AddSeed, ToolsInv
<1>s. PICK seed \in left : /\ left' = left \ {seed}
                          /\ \E sub \in Neighborhoods(seed) : context' = Fill(context \cup {seed}, sub)
  BY DEF AddSeed
<1>2. PICK sub \in Neighborhoods(seed) :
        context' = Fill(context \cup {seed}, sub) /\ left' = left \ {seed}
  BY <1>s
<1>3. /\ left \subseteq BestSeeds
      /\ Added \subseteq context /\ context \subseteq Near(Added)
      /\ ~ Crowded => context = Near(Added)
      /\ Cardinality(context) <= IF Added = {} THEN 0 ELSE Limit + Cardinality(Added) - 1
  BY <1>1 DEF ToolsInv
<1>4. /\ Limit \in Nat \ {0} /\ graph.nodes \subseteq Nodes /\ BestSeeds \subseteq graph.nodes
      /\ \A s \in graph.nodes : NextTo(s) \subseteq graph.nodes
  BY <1>1, TaskTypes
<1>5. /\ BestSeeds' = BestSeeds /\ Limit' = Limit
      /\ \A seeds : Near(seeds)' = Near(seeds)
  BY <1>1 DEF BestSeeds, Scored, Better, Score, Limit, Near, NextTo
<1>6. seed \in graph.nodes /\ Added' = Added \cup {seed} /\ seed \notin Added /\ Added \subseteq graph.nodes
  BY <1>2, <1>3, <1>4, <1>5 DEF Added
<1> DEFINE near == {seed} \cup NextTo(seed)
           F == context \cup {seed}
<1>7. /\ sub \in SUBSET near /\ seed \in sub
      /\ Cardinality(sub) = Min({Limit, Cardinality(near)})
  BY <1>2 DEF Neighborhoods, kSubset
<1>8. near \subseteq graph.nodes /\ Near(Added \cup {seed}) = Near(Added) \cup near
      /\ Near(Added) \subseteq graph.nodes
  <2>1. near \subseteq graph.nodes
    BY <1>4, <1>6
  <2>2. Near(Added \cup {seed}) = Near(Added) \cup near
    BY DEF Near
  <2>3. Near(Added) \subseteq graph.nodes
    BY <1>4, <1>6 DEF Near
  <2> QED
    BY <2>1, <2>2, <2>3
<1>9. F \in SUBSET Nodes /\ sub \in SUBSET Nodes
  BY <1>3, <1>4, <1>6, <1>7, <1>8
<1>10. /\ F \subseteq context' /\ context' \subseteq F \cup sub
       /\ Cardinality(context') <= Limit \/ context' = F
       /\ Cardinality(context') >= Limit \/ context' = F \cup sub
  <2> HIDE DEF F
  <2>1. context' = Fill(F, sub)
    BY <1>2 DEF F
  <2> QED
    BY <1>4, <1>9, <2>1, FillStopsAtLimit
<1>11. /\ IsFiniteSet(near) /\ Cardinality(near) \in Nat
       /\ IsFiniteSet(context) /\ Cardinality(context) \in Nat
       /\ IsFiniteSet(context') /\ Cardinality(context') \in Nat
       /\ IsFiniteSet(Added) /\ Cardinality(Added) \in Nat
  <2>1. near \in SUBSET Nodes /\ context \in SUBSET Nodes /\ context' \in SUBSET Nodes
        /\ Added \in SUBSET Nodes
    BY <1>3, <1>4, <1>6, <1>8, <1>9, <1>10
  <2> HIDE DEF near
  <2> QED
    BY <2>1, CodeGraphAssumption, FS_Subset, FS_CardinalityType
<1>12. Added' \subseteq context' /\ context' \subseteq Near(Added')
  BY <1>3, <1>6, <1>7, <1>8, <1>10
<1>13. ASSUME Cardinality(context') < Limit PROVE context' = Near(Added')
  <2>1. context' = F \cup sub
    BY <1>4, <1>10, <1>11, <1>13
  <2>2. Cardinality(sub) <= Cardinality(context') /\ Cardinality(context) <= Cardinality(context')
    <3>1. sub \in SUBSET context' /\ context \in SUBSET context'
      BY <2>1
    <3> QED
      BY <1>11, <3>1, FS_Subset
  <2>3. Cardinality(near) <= Limit /\ Cardinality(sub) = Cardinality(near)
    <3> HIDE DEF near
    <3> QED
      BY <1>4, <1>7, <1>11, <1>13, <2>2, MinOfTwo
  <2>4. sub = near
    <3> HIDE DEF near
    <3> QED
      BY <1>7, <1>11, <2>3, FS_Subset
  <2>5. context = Near(Added)
    BY <1>3, <1>4, <1>11, <1>13, <2>2 DEF Crowded
  <2> QED
    BY <1>6, <1>8, <2>1, <2>4, <2>5
<1>14. Cardinality(context') <= Limit + Cardinality(Added') - 1 /\ Added' # {}
  <2>1. Cardinality(Added') = Cardinality(Added) + 1
    BY <1>6, <1>11, FS_AddElement
  <2>2. CASE Cardinality(context') <= Limit
    BY <1>4, <1>6, <1>11, <2>1, <2>2
  <2>3. CASE context' = F
    <3>1. Cardinality(context') <= Cardinality(context) + 1
      BY <1>11, <2>3, FS_AddElement
    <3>2. CASE Added = {}
      BY <1>3, <1>4, <1>6, <1>11, <2>1, <3>1, <3>2, FS_EmptySet
    <3>3. CASE Added # {}
      BY <1>3, <1>4, <1>6, <1>11, <2>1, <3>1, <3>3
    <3> QED
      BY <3>2, <3>3
  <2> QED
    BY <1>10, <2>2, <2>3
<1>15. left' \subseteq BestSeeds /\ (step' = "done" => left' = {}) /\ step' \in {"seeds", "done"}
  BY <1>1, <1>2, <1>3
<1>16. ~ Crowded' => context' = Near(Added')
  BY <1>4, <1>5, <1>11, <1>13 DEF Crowded
<1>17. Near(Added)' = Near(Added')
  BY <1>1 DEF Near, NextTo
<1> QED
  BY <1>1, <1>5, <1>12, <1>14, <1>15, <1>16, <1>17 DEF ToolsInv

\* Every step keeps it.
LEMMA ToolsNextInv == ASSUME ToolsInv, [ToolsNext /\ UNCHANGED graph]_<<graph, toolVars>> PROVE ToolsInv'
<1>1. CASE AskIndex /\ UNCHANGED graph
  BY <1>1 DEF AskIndex, ToolsInv
<1>2. CASE LookAtNames /\ UNCHANGED graph
  <2>1. step = "names" /\ step' = "done" /\ UNCHANGED <<graph, args, context, left>>
    BY <1>2 DEF LookAtNames
  <2>2. SUFFICES ASSUME args.tool = "task" PROVE ToolsInv'
    BY <2>1 DEF ToolsInv
  <2> QED
    BY <2>1 DEF ToolsInv
<1>3. CASE ScoreSymbols /\ UNCHANGED graph
  <2>1. /\ args.tool = "task" /\ step = "begin" /\ UNCHANGED <<graph, args, context>> /\ left' = BestSeeds
        /\ step' = (IF BestSeeds = {} THEN "done" ELSE "seeds") /\ context = {}
    BY <1>3 DEF ScoreSymbols, ToolsInv
  <2>2. BestSeeds' = BestSeeds /\ Limit' = Limit
    BY <2>1 DEF BestSeeds, Scored, Better, Score, Limit
  <2>3. Added' = {} /\ Near(Added)' = {}
    BY <2>1, <2>2 DEF Added, Near
  <2>4. Cardinality(context') = 0
    BY <2>1, FS_EmptySet
  <2>5. BestSeeds = {} => left' = {}
    BY <2>1
  <2> QED
    BY <2>1, <2>2, <2>3, <2>4, <2>5 DEF ToolsInv, Near, Added
<1>4. CASE AddSeed /\ UNCHANGED graph
  BY <1>4, AddSeedInv
<1>5. CASE UNCHANGED <<graph, toolVars>>
  <2>1. UNCHANGED <<graph, args, step, matches, context, left>>
    BY <1>5 DEF toolVars
  <2>2. BestSeeds' = BestSeeds /\ Limit' = Limit /\ Added' = Added /\ Near(Added)' = Near(Added)
    BY <2>1 DEF BestSeeds, Scored, Better, Score, Limit, Added, Near, NextTo
  <2> QED
    BY <2>1, <2>2 DEF ToolsInv, Crowded
<1> QED
  BY <1>1, <1>2, <1>3, <1>4, <1>5 DEF ToolsNext

\* get_task_context answers with its seeds and with all that is next to one, unless it
\* says that it is truncated; whatever seeds share the limit, and however many they are.
THEOREM ContextsAreWhole == ToolsSpec => []ContextIsWhole
<1>1. graph \in Graphs /\ ToolsInit => ToolsInv
  BY DEF ToolsInit, ToolsInv
<1>2. ToolsInv /\ [ToolsNext /\ UNCHANGED graph]_<<graph, toolVars>> => ToolsInv'
  BY ToolsNextInv
<1>3. ToolsInv => ContextIsWhole
  <2> SUFFICES ASSUME ToolsInv, args.tool = "task", step = "done"
               PROVE  /\ BestSeeds \subseteq context /\ context \subseteq Near(BestSeeds)
                      /\ ~ Crowded => context = Near(BestSeeds)
                      /\ Cardinality(context) <= Limit + Max({1, Cardinality(BestSeeds)}) - 1
    BY DEF ContextIsWhole, Near
  <2>1. Added = BestSeeds
    BY DEF ToolsInv, Added
  <2>2. Limit \in Nat \ {0} /\ IsFiniteSet(BestSeeds) /\ Cardinality(BestSeeds) \in Nat
    <3>1. BestSeeds \in SUBSET Nodes /\ Limit \in Nat \ {0}
      BY TaskTypes
    <3> QED
      BY <3>1, CodeGraphAssumption, FS_Subset, FS_CardinalityType
  <2>3. IsFiniteSet(context) /\ Cardinality(context) \in Nat
    <3>1. context \in SUBSET Nodes
      BY <2>1, TaskTypes DEF ToolsInv, Near
    <3> QED
      BY <3>1, CodeGraphAssumption, FS_Subset, FS_CardinalityType
  <2>4. Cardinality(context) <= IF BestSeeds = {} THEN 0 ELSE Limit + Cardinality(BestSeeds) - 1
    BY <2>1 DEF ToolsInv
  <2>5. Max({1, Cardinality(BestSeeds)}) = IF 1 >= Cardinality(BestSeeds) THEN 1 ELSE Cardinality(BestSeeds)
    BY <2>2, MaxOfTwo
  <2> QED
    BY <2>1, <2>2, <2>3, <2>4, <2>5 DEF ToolsInv
<1> QED
  BY <1>1, <1>2, <1>3, PTL DEF ToolsSpec

-----------------------------------------------------------------------------
(* search_symbols.                                                         *)

HitLimit == IF args.limit = 0 THEN 20 ELSE 2 * args.limit

\* The hits are nodes, each once; all that the index has, or as many as are asked for.
LEMMA HitsAre ==
    ASSUME args \in SearchArgs
    PROVE  /\ Hits \in Seq(Nodes)
           /\ ToSet(Hits) \in SUBSET Nodes /\ ToSet(Hits) \subseteq ToSet(args.index)
           /\ \/ ToSet(Hits) = ToSet(args.index)
              \/ Cardinality(ToSet(Hits)) = HitLimit
           /\ \A n \in ToSet(Hits) : Which(n) \in Nat \ {0}
<1> DEFINE s == args.index
           k == Min({Len(s), HitLimit})
<1>1. /\ s \in Seq(Nodes) /\ Len(s) \in Nat /\ DOMAIN s = 1 .. Len(s)
      /\ \A i \in 1 .. Len(s) : s[i] \in Nodes
      /\ \A i, j \in 1 .. Len(s) : s[i] = s[j] => i = j
      /\ HitLimit \in Nat
  BY DEF SearchArgs, IsInjective, HitLimit
<1>2. k = IF Len(s) <= HitLimit THEN Len(s) ELSE HitLimit
  BY <1>1, MinOfTwo
<1>3. Hits = SubSeq(s, 1, k)
  BY DEF Hits, HitLimit
<1> HIDE DEF s, k
<1>4. k \in Nat /\ k <= Len(s)
  BY <1>1, <1>2
<1>5. Hits = [i \in 1 .. k |-> s[i]]
  BY <1>1, <1>3, <1>4
<1>6. ToSet(Hits) = {s[i] : i \in 1 .. k} /\ ToSet(s) = {s[i] : i \in 1 .. Len(s)}
  BY <1>1, <1>5 DEF ToSet
<1>7. Cardinality(ToSet(Hits)) = k
  <2> DEFINE f == [i \in 1 .. k |-> s[i]]
  <2>1. f \in Bijection(1 .. k, ToSet(Hits))
    BY <1>1, <1>4, <1>6 DEF Bijection, Injection, Surjection, IsInjective
  <2>2. ExistsBijection(1 .. k, ToSet(Hits))
    BY <2>1 DEF ExistsBijection
  <2> QED
    BY <1>4, <2>2, FS_CountingElements
<1>8. ToSet(Hits) = ToSet(s) \/ k = HitLimit
  BY <1>2, <1>6
<1>9. \A n \in ToSet(Hits) : Which(n) \in Nat \ {0}
  <2> SUFFICES ASSUME NEW n \in ToSet(Hits) PROVE Which(n) \in 1 .. k
    BY <1>4
  <2>1. DOMAIN Hits = 1 .. k /\ \E i \in DOMAIN Hits : Hits[i] = n
    BY <1>5, <1>6
  <2> QED
    BY <2>1 DEF Which
<1>10. Hits \in Seq(Nodes) /\ ToSet(Hits) \in SUBSET Nodes /\ ToSet(Hits) \subseteq ToSet(s)
  BY <1>1, <1>4, <1>5, <1>6
<1> QED
  BY <1>7, <1>8, <1>9, <1>10 DEF s

Known == ToSet(Hits) \cap graph.nodes \cap args.wanted
Named == {n \in graph.nodes \cap args.wanted : args.fit[n] # "none"}

\* What is found so far, exact names with rank 0 and only they.
SearchInv ==
    /\ graph \in Graphs /\ args \in ToolArgs
    /\ step = "seeds" => args.tool = "task"
    /\ args.tool = "search" /\ step \in {"names", "done"} =>
          /\ DOMAIN matches = IF step = "names" THEN Known ELSE Known \cup Named
          /\ \A n \in DOMAIN matches : matches[n] \in Nat /\ (matches[n] = 0 <=> args.fit[n] = "exact")

\* Every step keeps it.
LEMMA SearchNextInv == ASSUME SearchInv, [ToolsNext /\ UNCHANGED graph]_<<graph, toolVars>> PROVE SearchInv'
<1>1. args.tool = "search" => args \in SearchArgs
  BY ToolsAssumption DEF SearchInv, TaskArgs
<1>2. ASSUME args.tool = "search", NEW n \in Nodes, NEW r \in Nat \ {0}
      PROVE  Rank(n, r) \in Nat /\ (Rank(n, r) = 0 <=> args.fit[n] = "exact")
  BY <1>1, <1>2 DEF SearchArgs, Rank
<1>3. CASE AskIndex /\ UNCHANGED graph
  <2>1. /\ args.tool = "search" /\ step' = "names" /\ UNCHANGED <<graph, args>>
        /\ matches' = [n \in Known |-> Rank(n, 1 + Which(n))]
    BY <1>3 DEF AskIndex, Known
  <2>2. Known' = Known
    BY <2>1 DEF Known, Hits
  <2>3. ASSUME NEW n \in Known PROVE n \in Nodes /\ 1 + Which(n) \in Nat \ {0}
    <3>1. n \in Nodes /\ Which(n) \in Nat \ {0}
      BY <1>1, <2>1, HitsAre DEF Known
    <3> QED
      BY <3>1
  <2> QED
    BY <1>2, <2>1, <2>2, <2>3 DEF SearchInv
<1>4. CASE LookAtNames /\ UNCHANGED graph
  <2>1. /\ step = "names" /\ step' = "done" /\ UNCHANGED <<graph, args>>
        /\ matches' = [n \in DOMAIN matches \cup Named |->
                           IF n \in DOMAIN matches THEN matches[n] ELSE Rank(n, 2 + Len(Hits))]
    BY <1>4 DEF LookAtNames, Named
  <2>2. Known' = Known /\ Named' = Named
    BY <2>1 DEF Known, Hits, Named
  <2> SUFFICES ASSUME args.tool = "search"
               PROVE  /\ DOMAIN matches' = Known \cup Named
                      /\ \A n \in DOMAIN matches' :
                            matches'[n] \in Nat /\ (matches'[n] = 0 <=> args.fit[n] = "exact")
    BY <2>1, <2>2 DEF SearchInv
  <2>3. /\ DOMAIN matches = Known
        /\ \A n \in Known : matches[n] \in Nat /\ (matches[n] = 0 <=> args.fit[n] = "exact")
    BY <2>1 DEF SearchInv
  <2>4. matches' = [n \in Known \cup Named |-> IF n \in Known THEN matches[n] ELSE Rank(n, 2 + Len(Hits))]
    BY <2>1, <2>3
  <2>5. 2 + Len(Hits) \in Nat \ {0}
    <3>1. Hits \in Seq(Nodes)
      BY <1>1, HitsAre
    <3> QED
      BY <3>1
  <2>6. Named \subseteq Nodes
    BY <1>1 DEF Named, SearchArgs
  <2> QED
    BY <1>2, <2>3, <2>4, <2>5, <2>6
<1>5. CASE (ScoreSymbols \/ AddSeed) /\ UNCHANGED graph
  BY <1>5 DEF ScoreSymbols, AddSeed, SearchInv
<1>6. CASE UNCHANGED <<graph, toolVars>>
  BY <1>6 DEF toolVars, SearchInv, Known, Named, Hits
<1> QED
  BY <1>3, <1>4, <1>5, <1>6 DEF ToolsNext

\* search_symbols is honest: what it does not call truncated is all there is, and a symbol
\* with the very name asked for is never left out for another.
THEOREM SearchesAreHonest == ToolsSpec => []SearchIsHonest
<1>1. graph \in Graphs /\ ToolsInit => SearchInv
  BY DEF ToolsInit, SearchInv
<1>2. SearchInv /\ [ToolsNext /\ UNCHANGED graph]_<<graph, toolVars>> => SearchInv'
  BY SearchNextInv
<1>3. SearchInv => SearchIsHonest
  <2> SUFFICES ASSUME SearchInv, args.tool = "search", step = "done" PROVE SearchIsHonest
    BY DEF SearchIsHonest
  <2> DEFINE D == DOMAIN matches
             R == {p \in D \X D : Precedes(p[1], p[2])}
  <2>1. args \in SearchArgs
    BY ToolsAssumption DEF SearchInv, TaskArgs
  <2>2. /\ args.limit \in Nat /\ HitLimit \in Nat
        /\ args.limit > 0 => HitLimit > args.limit
        /\ HitLimit > 0
    BY <2>1 DEF SearchArgs, HitLimit
  <2>3. /\ D = Known \cup Named /\ D \subseteq Nodes /\ IsFiniteSet(D) /\ Cardinality(D) \in Nat
        /\ \A n \in D : matches[n] \in Nat /\ (matches[n] = 0 <=> args.fit[n] = "exact")
    <3>1. /\ D = Known \cup Named
          /\ \A n \in D : matches[n] \in Nat /\ (matches[n] = 0 <=> args.fit[n] = "exact")
      BY DEF SearchInv
    <3>2. D \in SUBSET Nodes
      BY <2>1, <3>1 DEF Known, Named, SearchArgs
    <3> QED
      BY <3>1, <3>2, CodeGraphAssumption, FS_Subset, FS_CardinalityType
  <2>4. /\ \A m, n \in D : m = n \/ <<m, n>> \in R \/ <<n, m>> \in R
        /\ \A n \in D : <<n, n>> \notin R
        /\ \A l, m, n \in D : <<l, m>> \in R /\ <<m, n>> \in R => <<l, n>> \in R
    <3>1. \A n \in D : Place[n] \in Nat
      BY <2>3, ToolsAssumption
    <3>2. \A m, n \in D : Place[m] = Place[n] => m = n
      BY <2>3, ToolsAssumption DEF IsInjective
    <3>3. \A m, n \in D : <<m, n>> \in R <=>
             matches[m] < matches[n] \/ (matches[m] = matches[n] /\ Place[m] < Place[n])
      BY DEF Precedes
    <3> HIDE DEF D, R
    <3> QED
      BY <2>3, <3>1, <3>2, <3>3
  <2>5. Listed = Firsts(D, R, args.limit)
    BY DEF Listed, Firsts
  <2>6. /\ \A n \in Listed, m \in D : <<m, n>> \in R => m \in Listed
        /\ args.limit <= Cardinality(D) => Cardinality(Listed) = args.limit
        /\ Cardinality(D) <= args.limit => Listed = D
    <3> DEFINE L == args.limit
    <3>1. L \in Int /\ IsFiniteSet(D)
      BY <2>2, <2>3
    <3>2. Listed = Firsts(D, R, L)
      BY <2>5
    <3> HIDE DEF D, R, L
    <3>3. /\ \A n \in Firsts(D, R, L), m \in D : <<m, n>> \in R => m \in Firsts(D, R, L)
          /\ 0 <= L /\ L <= Cardinality(D) => Cardinality(Firsts(D, R, L)) = L
          /\ Cardinality(D) <= L => Firsts(D, R, L) = D
      BY <2>4, <3>1, FirstOnes
    <3> QED
      BY <2>2, <3>2, <3>3 DEF L
  <2>7. MoreMatches => Cardinality(Listed) = args.limit
    BY <2>2, <2>3, <2>6 DEF MoreMatches
  <2>8. ~ MoreMatches => Listed = D /\ Cardinality(D) <= args.limit
    <3> HIDE DEF D
    <3>1. MoreMatches <=> Cardinality(D) > Cardinality(Listed)
      BY DEF MoreMatches, D
    <3> QED
      BY <2>2, <2>3, <2>6, <3>1
  <2>9. ASSUME ToSet(args.index) \subseteq args.wanted \cap graph.nodes, ~ MoreMatches
        PROVE  Listed = Findable
    <3>1. ToSet(Hits) = Known
      BY <2>1, <2>9, HitsAre DEF Known
    <3>2. Cardinality(Known) <= Cardinality(D)
      <4>1. Known \in SUBSET D
        BY <2>3
      <4> HIDE DEF D
      <4> QED
        BY <2>3, <4>1, FS_Subset
    <3>3. Cardinality(Known) # HitLimit
      <4>1. Known \in SUBSET D /\ Cardinality(Known) \in Nat
        <5>1. Known \in SUBSET D
          BY <2>3
        <5> HIDE DEF D
        <5> QED
          BY <2>3, <5>1, FS_Subset, FS_CardinalityType
      <4> HIDE DEF D
      <4> QED
        BY <2>2, <2>3, <2>8, <2>9, <3>2, <4>1
    <3>4. ToSet(Hits) = ToSet(args.index)
      BY <2>1, <3>1, <3>3, HitsAre
    <3> QED
      BY <2>3, <2>8, <2>9, <3>1, <3>4 DEF Findable, Known, Named
  <2>10. ASSUME NEW n \in Listed, NEW m \in Findable \ Listed, args.fit[m] = "exact"
         PROVE  args.fit[n] = "exact"
    <3>1. SUFFICES ASSUME args.fit[n] # "exact" PROVE FALSE
      OBVIOUS
    <3>2. n \in D /\ m \in D
      BY <2>3, <2>10 DEF Listed, Findable, Named
    <3>3. matches[m] < matches[n]
      <4> HIDE DEF D
      <4> QED
        BY <2>3, <2>10, <3>1, <3>2
    <3>4. <<m, n>> \in R
      BY <3>2, <3>3 DEF Precedes
    <3> QED
      BY <2>6, <2>10, <3>2, <3>4
  <2> QED
    BY <2>7, <2>9, <2>10 DEF SearchIsHonest
<1> QED
  BY <1>1, <1>2, <1>3, PTL DEF ToolsSpec

-----------------------------------------------------------------------------
(* PathsBetween and Trace.                                                 *)

Frame == [via : Edge \cup {{}}, node : Nodes, left : SUBSET Edge]

\* What has to be found, in terms of each step of a chain: the i-th node of chain c, and
\* the chains that are asked for.
NodeAt(c, i) == IF i = 1 THEN request.from ELSE c[i - 1].tgt
Wanted == IF request.task = "paths" THEN SimplePaths ELSE CallTree
IsWanted(c) ==
    /\ c \in Seq(graph.edges) /\ Len(c) <= Depth
    /\ \A i \in 1 .. Len(c) : c[i] \in Out(NodeAt(c, i))
    /\ \A i, j \in 1 .. Len(c) : NodeAt(c, i) = NodeAt(c, j) => i = j
    /\ request.task = "paths" => /\ NodeAt(c, Len(c) + 1) = request.to
                                 /\ \A i \in 1 .. Len(c) : NodeAt(c, i) # request.to
    /\ request.task = "trace" => Len(c) > 0

\* A stack of calls is a chain of edges that may be followed, each taken already, with no
\* node twice.
IsStack(fs) ==
    /\ fs \in Seq(Frame)
    /\ \A i \in 1 .. Len(fs) : fs[i].left \subseteq Followed(fs[i].node, i - 1)
    /\ Len(fs) > 0 => fs[1].node = request.from
    /\ \A i \in 2 .. Len(fs) : /\ fs[i].via \in Followed(fs[i - 1].node, i - 2)
                               /\ fs[i].node = fs[i].via.tgt
                               /\ fs[i].via \notin fs[i - 1].left
    /\ \A i, j \in 1 .. Len(fs) : fs[i].node = fs[j].node => i = j
    /\ request.task = "paths" => \A i \in 1 .. Len(fs) : fs[i].node # request.to

\* Chain c goes over the first i calls of stack fs, and leaves the i-th over an edge that
\* is still to be followed.
AheadAt(fs, c, i) ==
    /\ i \in 1 .. Len(fs) /\ i <= Len(c)
    /\ \A j \in 1 .. i - 1 : c[j] = fs[j + 1].via
    /\ c[i] \in fs[i].left
AheadOn(fs, c) == \E i \in 1 .. Len(fs) : AheadAt(fs, c, i)

\* The chain to the i-th call.
ChainTo(fs, i) == [j \in 1 .. i - 1 |-> fs[j + 1].via]

Most == IF request.limit < 0 THEN 0 ELSE request.limit

\* With stack fs and answer fd: a chain is found or still ahead and never both, unless the
\* search is truncated, tr, which is so only when as many are found as are allowed.  Of a
\* call tree, what leads to a chain is found before it, and so is what stands beside it in
\* the lines before.
IsSearch(fs, fd, tr) ==
    /\ IsStack(fs) /\ fd \in Seq(Wanted) /\ IsSimple(fd)
    /\ \A i \in 1 .. Len(fd) : ~ AheadOn(fs, fd[i])
    /\ Len(fd) <= Most /\ (tr => Len(fd) = Most)
    /\ ~ tr => \A c \in Wanted : c \in ToSet(fd) \/ AheadOn(fs, c)
    /\ request.task = "trace" =>
          /\ tr => \E c \in Wanted : c \notin ToSet(fd)
          /\ \A i \in 2 .. Len(fs) : ChainTo(fs, i) \in ToSet(fd)
          /\ \A c \in ToSet(fd) : Len(c) > 1 => Front(c) \in ToSet(fd)
          /\ \A c \in ToSet(fd), d \in Wanted :
                Front(c) = Front(d) /\ Last(d).line < Last(c).line => d \in ToSet(fd)

PathsInv ==
    /\ graph \in Graphs /\ request \in Requests
    /\ pathsDone => calls = <<>>
    /\ IsSearch(calls, found, truncated)

\* What may be asked, of a graph.
LEMMA RequestTypes ==
    ASSUME graph \in Graphs, request \in Requests
    PROVE  /\ request.task \in {"paths", "trace"} /\ request.from \in Nodes /\ request.to \in Nodes
           /\ request.maxDepth \in Int /\ request.limit \in Int /\ Depth \in Nat /\ Most \in Nat
           /\ graph.edges \subseteq Edge
           /\ \A e \in Edge : e.src \in Nodes /\ e.tgt \in Nodes /\ e.line \in Nat
<1>1. request \in Request /\ graph \in Graph
  BY CallPathsAssumption, CodeGraphAssumption
<1> QED
  BY <1>1 DEF Request, Graph, Edge, Depth, Most

\* The nodes on a chain, one by one.
LEMMA NodesAre ==
    ASSUME graph \in Graphs, request \in Requests, NEW c \in Seq(graph.edges)
    PROVE  /\ NodesOn(c) \in Seq(Nodes) /\ Len(NodesOn(c)) = Len(c) + 1
           /\ \A i \in 1 .. Len(c) + 1 : NodesOn(c)[i] = NodeAt(c, i) /\ NodeAt(c, i) \in Nodes
<1> DEFINE s == <<request.from>>
           u == [i \in DOMAIN c |-> c[i].tgt]
<1>1. /\ Len(c) \in Nat /\ DOMAIN c = 1 .. Len(c)
      /\ \A i \in 1 .. Len(c) : c[i] \in graph.edges
  OBVIOUS
<1>2. /\ request.from \in Nodes /\ \A i \in 1 .. Len(c) : c[i].tgt \in Nodes
  BY <1>1, RequestTypes
<1>3. s \in Seq(Nodes) /\ Len(s) = 1 /\ s[1] = request.from
  BY <1>2
<1>4. u \in Seq(Nodes) /\ Len(u) = Len(c) /\ \A i \in 1 .. Len(c) : u[i] = c[i].tgt
  BY <1>1, <1>2
<1>5. NodesOn(c) = s \o u
  BY DEF NodesOn
<1> HIDE DEF s, u
<1>6. /\ s \o u \in Seq(Nodes) /\ Len(s \o u) = Len(s) + Len(u)
      /\ \A i \in 1 .. Len(s) + Len(u) : (s \o u)[i] = IF i <= Len(s) THEN s[i] ELSE u[i - Len(s)]
  <2>1. s \in Seq(Nodes) /\ u \in Seq(Nodes)
    BY <1>3, <1>4
  <2> QED
    BY <2>1, ConcatProperties
<1>7. \A i \in 1 .. Len(c) + 1 : (s \o u)[i] = NodeAt(c, i)
  BY <1>1, <1>3, <1>4, <1>6 DEF NodeAt
<1>8. /\ NodesOn(c) \in Seq(Nodes) /\ Len(NodesOn(c)) = Len(c) + 1
  BY <1>1, <1>3, <1>4, <1>5, <1>6
<1> QED
  BY <1>1, <1>5, <1>7, <1>8

\* What is asked for, step by step of a chain.
LEMMA WantedAre ==
    ASSUME graph \in Graphs, request \in Requests, NEW c
    PROVE  c \in Wanted <=> IsWanted(c)
<1>1. ASSUME NEW es \in SUBSET graph.edges
      PROVE  c \in ChainsOf(es) <=> /\ c \in Seq(es) /\ Len(c) <= Depth
                                    /\ \A i \in 1 .. Len(c) : c[i].src = NodeAt(c, i)
  <2>1. Depth \in Nat
    BY RequestTypes
  <2>2. c \in UNION {[1 .. k -> es] : k \in 0 .. Depth} <=> c \in Seq(es) /\ Len(c) <= Depth
    <3>1. ASSUME NEW k \in 0 .. Depth, c \in [1 .. k -> es] PROVE c \in Seq(es) /\ Len(c) <= Depth
      BY <2>1, <3>1
    <3>2. ASSUME c \in Seq(es), Len(c) <= Depth PROVE Len(c) \in 0 .. Depth /\ c \in [1 .. Len(c) -> es]
      BY <2>1, <3>2
    <3> QED
      BY <3>1, <3>2
  <2>3. ASSUME c \in Seq(es) PROVE /\ DOMAIN c = 1 .. Len(c) /\ Len(c) \in Nat
                                   /\ \A i \in 1 .. Len(c) : NodesOn(c)[i] = NodeAt(c, i)
    <3>1. c \in Seq(graph.edges)
      BY <2>3, SeqMonotonic
    <3>2. Len(c) \in Nat /\ DOMAIN c = 1 .. Len(c)
      BY <3>1
    <3> QED
      BY <3>1, <3>2, NodesAre
  <2> QED
    BY <2>2, <2>3 DEF ChainsOf
<1>2. ASSUME c \in Seq(graph.edges)
      PROVE  /\ Len(c) \in Nat /\ DOMAIN NodesOn(c) = 1 .. Len(c) + 1
             /\ \A i \in 1 .. Len(c) + 1 : NodesOn(c)[i] = NodeAt(c, i)
             /\ Last(NodesOn(c)) = NodeAt(c, Len(c) + 1)
             /\ DOMAIN Front(NodesOn(c)) = 1 .. Len(c)
             /\ \A i \in 1 .. Len(c) : Front(NodesOn(c))[i] = NodeAt(c, i)
  <2>1. Len(c) \in Nat
    BY <1>2
  <2>2. /\ NodesOn(c) \in Seq(Nodes) /\ Len(NodesOn(c)) = Len(c) + 1
        /\ \A i \in 1 .. Len(c) + 1 : NodesOn(c)[i] = NodeAt(c, i)
    BY <1>2, NodesAre
  <2>3. /\ Front(NodesOn(c)) \in Seq(Nodes) /\ Len(Front(NodesOn(c))) = Len(c)
        /\ \A i \in 1 .. Len(c) : Front(NodesOn(c))[i] = NodesOn(c)[i]
    BY <2>1, <2>2 DEF Front
  <2> QED
    BY <2>1, <2>2, <2>3 DEF Last
<1>3. CASE request.task = "paths"
  <2>1. c \in Wanted <=> c \in ChainsOf(graph.edges) /\ IsSimple(NodesOn(c)) /\ Last(NodesOn(c)) = request.to
    BY <1>3 DEF Wanted, SimplePaths
  <2>2. \A n : \A e \in graph.edges : e \in Out(n) <=> e.src = n
    BY <1>3 DEF Out
  <2>3. ASSUME c \in Seq(graph.edges), \A i \in 1 .. Len(c) : c[i].src = NodeAt(c, i)
        PROVE  (IsSimple(NodesOn(c)) /\ Last(NodesOn(c)) = request.to)
               <=> /\ \A i, j \in 1 .. Len(c) : NodeAt(c, i) = NodeAt(c, j) => i = j
                   /\ NodeAt(c, Len(c) + 1) = request.to
                   /\ \A i \in 1 .. Len(c) : NodeAt(c, i) # request.to
    BY <1>2, <2>3 DEF IsSimple
  <2> QED
    BY <1>1, <1>3, <2>1, <2>2, <2>3 DEF IsWanted
<1>4. CASE request.task = "trace"
  <2> DEFINE es == {e \in graph.edges : e.kind = "calls"}
  <2>1. c \in Wanted <=> c \in ChainsOf(es) /\ c # <<>> /\ IsSimple(Front(NodesOn(c)))
    BY <1>4 DEF Wanted, CallTree
  <2>2. \A e, n : e \in Out(n) <=> e \in es /\ e.src = n
    BY <1>4 DEF Out
  <2>3. c \in Seq(es) <=> c \in Seq(graph.edges) /\ \A i \in 1 .. Len(c) : c[i] \in es
    <3>1. es \subseteq graph.edges
      OBVIOUS
    <3> HIDE DEF es
    <3> QED
      BY <3>1
  <2>4. ASSUME c \in Seq(graph.edges)
        PROVE  IsSimple(Front(NodesOn(c))) <=> \A i, j \in 1 .. Len(c) : NodeAt(c, i) = NodeAt(c, j) => i = j
    BY <1>2, <2>4 DEF IsSimple
  <2>5. ASSUME c \in Seq(graph.edges) PROVE c # <<>> <=> Len(c) > 0
    BY <2>5
  <2> QED
    <3>1. es \in SUBSET graph.edges
      OBVIOUS
    <3> HIDE DEF es
    <3>2. c \in ChainsOf(es) <=> /\ c \in Seq(es) /\ Len(c) <= Depth
                                 /\ \A i \in 1 .. Len(c) : c[i].src = NodeAt(c, i)
      BY <1>1, <3>1
    <3> QED
      BY <1>4, <2>1, <2>2, <2>3, <2>4, <2>5, <3>2 DEF IsWanted
<1> QED
  BY <1>3, <1>4, RequestTypes

\* What is followed are edges that leave the node, and only above the depth asked for.
LEMMA FollowedAre ==
    ASSUME graph \in Graphs, request \in Requests, NEW n, NEW k \in Nat
    PROVE  /\ Followed(n, k) \subseteq graph.edges /\ Followed(n, k) \subseteq Out(n)
           /\ Followed(n, k) \in SUBSET Edge
           /\ \A e \in Followed(n, k) : e.src = n /\ k < Depth
           /\ k < Depth => Followed(n, k) = Out(n)
<1>1. request.maxDepth \in Int /\ graph.edges \subseteq Edge
  BY RequestTypes
<1>2. Out(n) \subseteq graph.edges /\ \A e \in Out(n) : e.src = n
  BY DEF Out
<1> QED
  BY <1>1, <1>2 DEF Followed, Depth

\* What Front leaves of a sequence.
LEMMA FrontIs ==
    ASSUME NEW S, NEW s \in Seq(S), s # <<>>
    PROVE  /\ Len(s) \in Nat \ {0} /\ Front(s) \in Seq(S) /\ Len(Front(s)) = Len(s) - 1
           /\ \A i \in 1 .. Len(s) - 1 : Front(s)[i] = s[i]
<1>1. Len(s) \in Nat \ {0} /\ \A i \in 1 .. Len(s) - 1 : s[i] \in S
  OBVIOUS
<1> DEFINE m == Len(s) - 1
<1>2. m \in Int /\ 1 \in Int /\ \A i \in 1 .. m : s[i] \in S
  BY <1>1
<1> HIDE DEF m
<1>3. /\ SubSeq(s, 1, m) \in Seq(S)
      /\ Len(SubSeq(s, 1, m)) = IF 1 <= m THEN m - 1 + 1 ELSE 0
      /\ \A i \in 1 .. m - 1 + 1 : SubSeq(s, 1, m)[i] = s[1 + i - 1]
  BY <1>2, SubSeqProperties
<1>4. Front(s) = SubSeq(s, 1, m) /\ m = Len(s) - 1
  BY DEF Front, m
<1>5. /\ Front(s) \in Seq(S) /\ Len(Front(s)) = m
      /\ \A i \in 1 .. m : Front(s)[i] = s[i]
  BY <1>1, <1>3, <1>4
<1> QED
  BY <1>1, <1>4, <1>5

\* The stack with other edges left to the call on top.
WithLeft(fs, L) == Append(Front(fs), [Last(fs) EXCEPT !.left = L])

\* It is a stack of the same calls.
LEMMA WithLeftIs ==
    ASSUME NEW fs \in Seq(Frame), fs # <<>>, NEW L \in SUBSET Edge
    PROVE  /\ WithLeft(fs, L) \in Seq(Frame)
           /\ Len(WithLeft(fs, L)) = Len(fs) /\ Len(fs) \in Nat \ {0}
           /\ \A i \in 1 .. Len(fs) :
                 /\ WithLeft(fs, L)[i].node = fs[i].node /\ WithLeft(fs, L)[i].via = fs[i].via
                 /\ WithLeft(fs, L)[i].left = IF i = Len(fs) THEN L ELSE fs[i].left
<1> DEFINE g == [Last(fs) EXCEPT !.left = L]
<1>1. Len(fs) \in Nat \ {0} /\ Last(fs) = fs[Len(fs)] /\ \A i \in 1 .. Len(fs) : fs[i] \in Frame
  BY DEF Last
<1>2. g \in Frame /\ g.node = fs[Len(fs)].node /\ g.via = fs[Len(fs)].via /\ g.left = L
  BY <1>1 DEF Frame
<1>3. /\ Front(fs) \in Seq(Frame) /\ Len(Front(fs)) = Len(fs) - 1
      /\ \A i \in 1 .. Len(fs) - 1 : Front(fs)[i] = fs[i]
  BY FrontIs
<1> HIDE DEF g
<1>4. /\ Append(Front(fs), g) \in Seq(Frame) /\ Len(Append(Front(fs), g)) = Len(fs)
      /\ \A i \in 1 .. Len(fs) : Append(Front(fs), g)[i] = IF i = Len(fs) THEN g ELSE fs[i]
  BY <1>1, <1>2, <1>3
<1>5. WithLeft(fs, L) = Append(Front(fs), g)
  BY DEF WithLeft, g
<1> QED
  BY <1>1, <1>2, <1>4, <1>5

\* The stack with edge e taken from the call on top.
Taken(fs, e) == WithLeft(fs, Last(fs).left \ {e})

\* Taking edges from the call on top leaves a stack; a chain is ahead as before, unless its
\* edge was taken.
LEMMA LessLeft ==
    ASSUME graph \in Graphs, request \in Requests,
           NEW fs, IsStack(fs), fs # <<>>, NEW L \in SUBSET Last(fs).left
    PROVE  /\ IsStack(WithLeft(fs, L)) /\ Len(WithLeft(fs, L)) = Len(fs)
           /\ \A i \in 1 .. Len(fs) : ChainTo(WithLeft(fs, L), i) = ChainTo(fs, i)
           /\ \A c, i : AheadAt(WithLeft(fs, L), c, i) <=> AheadAt(fs, c, i) /\ (i = Len(fs) => c[i] \in L)
<1> DEFINE r == WithLeft(fs, L)
<1>1. fs \in Seq(Frame) /\ Len(fs) \in Nat \ {0} /\ Last(fs) = fs[Len(fs)] /\ fs[Len(fs)] \in Frame
  BY DEF IsStack, Last
<1>2. L \in SUBSET Edge
  BY <1>1 DEF Frame
<1>3. /\ r \in Seq(Frame) /\ Len(r) = Len(fs)
      /\ \A i \in 1 .. Len(fs) : /\ r[i].node = fs[i].node /\ r[i].via = fs[i].via
                                 /\ r[i].left = IF i = Len(fs) THEN L ELSE fs[i].left
  BY <1>1, <1>2, WithLeftIs
<1> HIDE DEF r
<1>4. \A i \in 1 .. Len(fs) : r[i].left \subseteq fs[i].left
  BY <1>1, <1>3
<1>5. IsStack(r)
  <2>1. \A i \in 1 .. Len(fs) : r[i].left \subseteq Followed(r[i].node, i - 1)
    BY <1>3, <1>4 DEF IsStack
  <2>2. r[1].node = request.from
    BY <1>1, <1>3 DEF IsStack
  <2>3. ASSUME NEW i \in 2 .. Len(fs)
        PROVE  /\ r[i].via \in Followed(r[i - 1].node, i - 2)
               /\ r[i].node = r[i].via.tgt
               /\ r[i].via \notin r[i - 1].left
    <3>1. i \in 1 .. Len(fs) /\ i - 1 \in 1 .. Len(fs)
      BY <1>1
    <3> QED
      BY <1>3, <1>4, <3>1 DEF IsStack
  <2>4. \A i, j \in 1 .. Len(fs) : r[i].node = r[j].node => i = j
    BY <1>3 DEF IsStack
  <2>5. request.task = "paths" => \A i \in 1 .. Len(fs) : r[i].node # request.to
    BY <1>3 DEF IsStack
  <2> QED
    BY <1>1, <1>3, <2>1, <2>2, <2>3, <2>4, <2>5 DEF IsStack
<1>6. ASSUME NEW i \in 1 .. Len(fs) PROVE ChainTo(r, i) = ChainTo(fs, i)
  BY <1>1, <1>3 DEF ChainTo
<1>7. ASSUME NEW c, NEW i PROVE AheadAt(r, c, i) <=> AheadAt(fs, c, i) /\ (i = Len(fs) => c[i] \in L)
  <2>1. SUFFICES ASSUME i \in 1 .. Len(fs)
                 PROVE  AheadAt(r, c, i) <=> AheadAt(fs, c, i) /\ (i = Len(fs) => c[i] \in L)
    BY <1>3 DEF AheadAt
  <2>2. \A j \in 1 .. i - 1 : r[j + 1].via = fs[j + 1].via
    BY <1>1, <1>3, <2>1
  <2>3. c[i] \in r[i].left <=> c[i] \in fs[i].left /\ (i = Len(fs) => c[i] \in L)
    BY <1>1, <1>3, <2>1
  <2> QED
    BY <1>3, <2>1, <2>2, <2>3 DEF AheadAt
<1> QED
  BY <1>3, <1>5, <1>6, <1>7 DEF r

\* The chain to a call, one by one.
LEMMA ChainToIs ==
    ASSUME NEW fs \in Seq(Frame), NEW i \in 1 .. Len(fs)
    PROVE  /\ ChainTo(fs, i) \in Seq(Edge \cup {{}}) /\ Len(ChainTo(fs, i)) = i - 1
           /\ \A j \in 1 .. i - 1 : ChainTo(fs, i)[j] = fs[j + 1].via
<1>1. Len(fs) \in Nat /\ i - 1 \in Nat /\ \A j \in 1 .. i - 1 : j + 1 \in 1 .. Len(fs)
  OBVIOUS
<1>2. \A j \in 1 .. i - 1 : fs[j + 1] \in Frame
  BY <1>1
<1>3. \A j \in 1 .. i - 1 : fs[j + 1].via \in Edge \cup {{}}
  BY <1>2 DEF Frame
<1> QED
  BY <1>1, <1>3 DEF ChainTo

\* The call of the end of an edge, if its node is not on the stack.
Push(fs, e) == Append(fs, [via |-> e, node |-> e.tgt, left |-> Followed(e.tgt, Len(fs))])

\* It leaves a stack, and what is ahead of its top goes over the edge.
LEMMA Pushed ==
    ASSUME graph \in Graphs, request \in Requests,
           NEW fs, IsStack(fs), fs # <<>>,
           NEW e \in Followed(Last(fs).node, Len(fs) - 1), e \notin Last(fs).left,
           \A i \in 1 .. Len(fs) : fs[i].node # e.tgt,
           request.task = "paths" => e.tgt # request.to
    PROVE  /\ IsStack(Push(fs, e)) /\ Len(Push(fs, e)) = Len(fs) + 1
           /\ \A i \in 1 .. Len(fs) : ChainTo(Push(fs, e), i) = ChainTo(fs, i)
           /\ ChainTo(Push(fs, e), Len(fs) + 1) = Append(ChainTo(fs, Len(fs)), e)
           /\ \A c : \A i \in 1 .. Len(fs) : AheadAt(Push(fs, e), c, i) <=> AheadAt(fs, c, i)
           /\ \A c : AheadAt(Push(fs, e), c, Len(fs) + 1) <=>
                        /\ Len(fs) + 1 <= Len(c) /\ c[Len(fs) + 1] \in Followed(e.tgt, Len(fs))
                        /\ \A j \in 1 .. Len(fs) - 1 : c[j] = fs[j + 1].via
                        /\ c[Len(fs)] = e
<1> DEFINE r == Push(fs, e)
           k == Len(fs)
<1>1. fs \in Seq(Frame) /\ k \in Nat \ {0} /\ Last(fs) = fs[k] /\ fs[k] \in Frame
  BY DEF IsStack, Last
<1>2. e \in Edge /\ e \in graph.edges /\ e.tgt \in Nodes
  BY <1>1, FollowedAre, RequestTypes
<1>3. [via |-> e, node |-> e.tgt, left |-> Followed(e.tgt, k)] \in Frame
  BY <1>1, <1>2, FollowedAre DEF Frame
<1>4. /\ r \in Seq(Frame) /\ Len(r) = k + 1 /\ \A i \in 1 .. k : r[i] = fs[i]
      /\ r[k + 1].via = e /\ r[k + 1].node = e.tgt /\ r[k + 1].left = Followed(e.tgt, k)
  BY <1>1, <1>3 DEF Push
<1> HIDE DEF r
<1>last. \A i \in 1 .. k + 1 : i \in 1 .. k \/ i = k + 1
  BY <1>1
<1>5. IsStack(r)
  <2>1. \A i \in 1 .. k + 1 : r[i].left \subseteq Followed(r[i].node, i - 1)
    BY <1>1, <1>4 DEF IsStack
  <2>2. r[1].node = request.from
    BY <1>1, <1>4 DEF IsStack
  <2>3. ASSUME NEW i \in 2 .. k + 1
        PROVE  /\ r[i].via \in Followed(r[i - 1].node, i - 2)
               /\ r[i].node = r[i].via.tgt
               /\ r[i].via \notin r[i - 1].left
    <3>1. CASE i = k + 1
      <4>1. i - 1 = k /\ i - 2 = k - 1 /\ r[i - 1] = fs[k]
        BY <1>1, <1>4, <3>1
      <4> QED
        BY <1>1, <1>4, <3>1, <4>1
    <3>2. CASE i \in 2 .. k
      <4>1. r[i] = fs[i] /\ r[i - 1] = fs[i - 1]
        BY <1>1, <1>4, <3>2
      <4> QED
        BY <3>2, <4>1 DEF IsStack
    <3> QED
      BY <1>1, <3>1, <3>2
  <2>4. \A i, j \in 1 .. k + 1 : r[i].node = r[j].node => i = j
    <3>1. /\ \A i, j \in 1 .. k : r[i].node = r[j].node => i = j
          /\ \A i \in 1 .. k : r[i].node # r[k + 1].node
      <4>1. \A i, j \in 1 .. k : fs[i].node = fs[j].node => i = j
        BY DEF IsStack
      <4>2. \A i \in 1 .. k : fs[i].node # e.tgt
        OBVIOUS
      <4> QED
        BY <1>4, <4>1, <4>2
    <3> QED
      BY <1>last, <3>1
  <2>5. request.task = "paths" => \A i \in 1 .. k + 1 : r[i].node # request.to
    <3>1. request.task = "paths" => \A i \in 1 .. k : r[i].node # request.to
      <4>1. request.task = "paths" => \A i \in 1 .. k : fs[i].node # request.to
        BY DEF IsStack
      <4> QED
        BY <1>4, <4>1
    <3> QED
      BY <1>4, <1>last, <3>1
  <2> QED
    BY <1>1, <1>4, <2>1, <2>2, <2>3, <2>4, <2>5 DEF IsStack
<1>6. ASSUME NEW i \in 1 .. k PROVE ChainTo(r, i) = ChainTo(fs, i)
  BY <1>1, <1>4 DEF ChainTo
<1>7. ChainTo(r, k + 1) = Append(ChainTo(fs, k), e)
  <2>1. ChainTo(fs, k) \in Seq(Edge \cup {{}}) /\ Len(ChainTo(fs, k)) = k - 1
        /\ \A i \in 1 .. k - 1 : ChainTo(fs, k)[i] = fs[i + 1].via
    <3>1. k \in 1 .. Len(fs)
      BY <1>1
    <3> QED
      BY <1>1, <3>1, ChainToIs
  <2>2. ChainTo(r, k + 1) \in Seq(Edge \cup {{}}) /\ Len(ChainTo(r, k + 1)) = k
        /\ \A i \in 1 .. k : ChainTo(r, k + 1)[i] = r[i + 1].via
    <3> DEFINE m == k + 1
    <3>1. m \in 1 .. Len(r) /\ m - 1 = k
      BY <1>1, <1>4
    <3> HIDE DEF m
    <3>2. ChainTo(r, m) \in Seq(Edge \cup {{}}) /\ Len(ChainTo(r, m)) = m - 1
          /\ \A i \in 1 .. m - 1 : ChainTo(r, m)[i] = r[i + 1].via
      BY <1>4, <3>1, ChainToIs
    <3> QED
      BY <3>1, <3>2 DEF m
  <2>3. Append(ChainTo(fs, k), e) \in Seq(Edge \cup {{}}) /\ Len(Append(ChainTo(fs, k), e)) = k
        /\ \A i \in 1 .. k : Append(ChainTo(fs, k), e)[i] = IF i = k THEN e ELSE fs[i + 1].via
    BY <1>1, <1>2, <2>1
  <2>4. \A i \in 1 .. k : Append(ChainTo(fs, k), e)[i] = ChainTo(r, k + 1)[i]
    BY <1>1, <1>4, <2>2, <2>3
  <2> QED
    BY <2>2, <2>3, <2>4, SeqEqual
<1>8. ASSUME NEW c, NEW i \in 1 .. k PROVE AheadAt(r, c, i) <=> AheadAt(fs, c, i)
  <2>1. r[i] = fs[i] /\ \A j \in 1 .. i - 1 : r[j + 1] = fs[j + 1]
    BY <1>1, <1>4
  <2>2. i \in 1 .. Len(r) /\ i \in 1 .. Len(fs)
    BY <1>1, <1>4
  <2> QED
    BY <2>1, <2>2 DEF AheadAt
<1>9. ASSUME NEW c
      PROVE  AheadAt(r, c, k + 1) <=> /\ k + 1 <= Len(c) /\ c[k + 1] \in Followed(e.tgt, k)
                                      /\ \A j \in 1 .. k - 1 : c[j] = fs[j + 1].via
                                      /\ c[k] = e
  <2>1. /\ r[k + 1].via = e /\ \A j \in 1 .. k - 1 : r[j + 1] = fs[j + 1]
        /\ k + 1 \in 1 .. Len(r)
    BY <1>1, <1>4
  <2>2. (\A j \in 1 .. k : c[j] = r[j + 1].via) <=> (\A j \in 1 .. k - 1 : c[j] = r[j + 1].via) /\ c[k] = r[k + 1].via
    BY <1>1
  <2>3. \A j \in 1 .. k - 1 : c[j] = r[j + 1].via <=> c[j] = fs[j + 1].via
    BY <2>1
  <2>4. k + 1 - 1 = k /\ r[k + 1].left = Followed(e.tgt, k)
    BY <1>1, <1>4
  <2>5. AheadAt(r, c, k + 1) <=> /\ k + 1 <= Len(c) /\ c[k + 1] \in Followed(e.tgt, k)
                                 /\ \A j \in 1 .. k : c[j] = r[j + 1].via
    BY <2>1, <2>4 DEF AheadAt
  <2> QED
    BY <2>1, <2>2, <2>3, <2>5
<1> QED
  BY <1>1, <1>4, <1>5, <1>6, <1>7, <1>8, <1>9 DEF r

\* Returning from a call that has no edges left changes nothing of what is ahead.
LEMMA Popped ==
    ASSUME NEW fs, IsStack(fs), fs # <<>>, Last(fs).left = {}
    PROVE  /\ IsStack(Front(fs)) /\ Len(Front(fs)) = Len(fs) - 1
           /\ \A i \in 1 .. Len(fs) - 1 : ChainTo(Front(fs), i) = ChainTo(fs, i)
           /\ \A c : AheadOn(Front(fs), c) <=> AheadOn(fs, c)
<1> DEFINE r == Front(fs)
           k == Len(fs)
<1>1. fs \in Seq(Frame) /\ k \in Nat \ {0} /\ fs[k].left = {}
  BY DEF IsStack, Last
<1>2. r \in Seq(Frame) /\ Len(r) = k - 1 /\ \A i \in 1 .. k - 1 : r[i] = fs[i]
  BY <1>1, FrontIs
<1> HIDE DEF r
<1>3. IsStack(r)
  <2>1. \A i \in 1 .. k - 1 : i \in 1 .. k
    BY <1>1
  <2>2. \A i \in 2 .. k - 1 : i \in 2 .. k /\ r[i] = fs[i] /\ r[i - 1] = fs[i - 1]
    BY <1>1, <1>2
  <2>3. \A i \in 1 .. Len(r) : r[i].left \subseteq Followed(r[i].node, i - 1)
    BY <1>2, <2>1 DEF IsStack
  <2>4. Len(r) > 0 => r[1].node = request.from
    BY <1>1, <1>2 DEF IsStack
  <2>5. \A i \in 2 .. Len(r) : /\ r[i].via \in Followed(r[i - 1].node, i - 2)
                                /\ r[i].node = r[i].via.tgt
                                /\ r[i].via \notin r[i - 1].left
    BY <1>2, <2>2 DEF IsStack
  <2>6. \A i, j \in 1 .. Len(r) : r[i].node = r[j].node => i = j
    BY <1>2, <2>1 DEF IsStack
  <2>7. request.task = "paths" => \A i \in 1 .. Len(r) : r[i].node # request.to
    BY <1>2, <2>1 DEF IsStack
  <2> QED
    BY <1>2, <2>3, <2>4, <2>5, <2>6, <2>7 DEF IsStack
<1>4. ASSUME NEW i \in 1 .. k - 1 PROVE ChainTo(r, i) = ChainTo(fs, i)
  BY <1>1, <1>2 DEF ChainTo
<1>5. ASSUME NEW c PROVE AheadOn(r, c) <=> AheadOn(fs, c)
  <2>1. ASSUME NEW i \in 1 .. k - 1 PROVE AheadAt(r, c, i) <=> AheadAt(fs, c, i)
    <3>1. r[i] = fs[i] /\ \A j \in 1 .. i - 1 : r[j + 1] = fs[j + 1]
      BY <1>1, <1>2
    <3>2. i \in 1 .. Len(r) /\ i \in 1 .. Len(fs)
      BY <1>1, <1>2
    <3> QED
      BY <3>1, <3>2 DEF AheadAt
  <2>2. ~ AheadAt(fs, c, k)
    BY <1>1 DEF AheadAt
  <2> QED
    BY <1>1, <1>2, <2>1, <2>2 DEF AheadOn
<1> QED
  BY <1>2, <1>3, <1>4, <1>5 DEF r

\* The chain over the stack and an edge left on top is a chain that is ahead; the nodes on
\* it are those of the calls.
LEMMA TopChain ==
    ASSUME graph \in Graphs, request \in Requests,
           NEW fs, IsStack(fs), fs # <<>>, NEW e \in Last(fs).left
    PROVE  /\ Append(Chain(fs), e) \in Seq(graph.edges) /\ Len(Append(Chain(fs), e)) = Len(fs)
           /\ Len(fs) \in Nat \ {0} /\ Len(fs) <= Depth
           /\ \A i \in 1 .. Len(fs) :
                 Append(Chain(fs), e)[i] = IF i = Len(fs) THEN e ELSE fs[i + 1].via
           /\ \A i \in 1 .. Len(fs) : NodeAt(Append(Chain(fs), e), i) = fs[i].node
           /\ NodeAt(Append(Chain(fs), e), Len(fs) + 1) = e.tgt
           /\ \A i \in 1 .. Len(fs) : Append(Chain(fs), e)[i] \in Out(fs[i].node)
           /\ Front(Append(Chain(fs), e)) = ChainTo(fs, Len(fs)) /\ Last(Append(Chain(fs), e)) = e
           /\ e \in Followed(Last(fs).node, Len(fs) - 1)
<1> DEFINE k == Len(fs)
           c == Append(Chain(fs), e)
<1>1. fs \in Seq(Frame) /\ k \in Nat \ {0} /\ Last(fs) = fs[k] /\ \A i \in 1 .. k : fs[i] \in Frame
  BY DEF IsStack, Last
<1>2. e \in Followed(fs[k].node, k - 1)
  BY <1>1 DEF IsStack
<1>3. e \in graph.edges /\ e \in Out(fs[k].node) /\ k - 1 < Depth /\ Depth \in Nat
  BY <1>1, <1>2, FollowedAre, RequestTypes
<1>4. ASSUME NEW i \in 1 .. k - 1
      PROVE  fs[i + 1].via \in graph.edges /\ fs[i + 1].via \in Out(fs[i].node)
             /\ fs[i + 1].node = fs[i + 1].via.tgt
  <2>1. i + 1 \in 2 .. k /\ i + 1 - 1 = i /\ i + 1 - 2 = i - 1 /\ i - 1 \in Nat
    BY <1>1
  <2>2. fs[i + 1].via \in Followed(fs[i].node, i - 1) /\ fs[i + 1].node = fs[i + 1].via.tgt
    BY <2>1 DEF IsStack
  <2> QED
    BY <2>1, <2>2, FollowedAre
<1>5. /\ Chain(fs) \in Seq(graph.edges) /\ Len(Chain(fs)) = k - 1
      /\ \A i \in 1 .. k - 1 : Chain(fs)[i] = fs[i + 1].via
  BY <1>1, <1>4 DEF Chain
<1>6. /\ c \in Seq(graph.edges) /\ Len(c) = k
      /\ \A i \in 1 .. k : c[i] = IF i = k THEN e ELSE fs[i + 1].via
  BY <1>1, <1>3, <1>5
<1> HIDE DEF c
<1>7. ASSUME NEW i \in 1 .. k PROVE NodeAt(c, i) = fs[i].node
  <2>1. CASE i = 1
    BY <1>1, <2>1 DEF NodeAt, IsStack
  <2>2. CASE i # 1
    <3>1. i - 1 \in 1 .. k - 1 /\ i - 1 \in 1 .. k /\ i - 1 # k /\ i - 1 + 1 = i
      BY <1>1, <2>2
    <3>2. c[i - 1] = fs[i].via /\ fs[i].node = fs[i].via.tgt
      BY <1>4, <1>6, <3>1
    <3> QED
      BY <2>2, <3>2 DEF NodeAt
  <2> QED
    BY <2>1, <2>2
<1>8. NodeAt(c, k + 1) = e.tgt
  BY <1>1, <1>6 DEF NodeAt
<1>9. ASSUME NEW i \in 1 .. k PROVE c[i] \in Out(fs[i].node)
  BY <1>1, <1>3, <1>4, <1>6
<1>10. Front(c) = ChainTo(fs, k)
  <2>1. /\ Front(c) \in Seq(graph.edges) /\ Len(Front(c)) = k - 1
        /\ \A i \in 1 .. k - 1 : Front(c)[i] = c[i]
    <3>1. c # <<>>
      BY <1>1, <1>6
    <3> QED
      BY <1>6, <3>1, FrontIs
  <2>2. Front(c) = Chain(fs)
    <3>1. \A i \in 1 .. k - 1 : Front(c)[i] = Chain(fs)[i]
      BY <1>1, <1>5, <1>6, <2>1
    <3> QED
      BY <1>5, <2>1, <3>1, SeqEqual
  <2> QED
    BY <2>2 DEF Chain, ChainTo
<1>11. Last(c) = e
  BY <1>1, <1>6 DEF Last
<1>12. k <= Depth
  BY <1>1, <1>3
<1> QED
  BY <1>1, <1>2, <1>6, <1>7, <1>8, <1>9, <1>10, <1>11, <1>12 DEF c

\* It is wanted, if it leads where it has to, and it is ahead.
LEMMA TopChainIsWanted ==
    ASSUME graph \in Graphs, request \in Requests,
           NEW fs, IsStack(fs), fs # <<>>, NEW e \in Last(fs).left
    PROVE  /\ request.task = "trace" \/ e.tgt = request.to => Append(Chain(fs), e) \in Wanted
           /\ AheadAt(fs, Append(Chain(fs), e), Len(fs))
           /\ ~ AheadOn(Taken(fs, e), Append(Chain(fs), e))
<1> DEFINE k == Len(fs)
           c == Append(Chain(fs), e)
<1>1. /\ c \in Seq(graph.edges) /\ Len(c) = k /\ k \in Nat \ {0} /\ k <= Depth
      /\ \A i \in 1 .. k : c[i] = IF i = k THEN e ELSE fs[i + 1].via
      /\ \A i \in 1 .. k : NodeAt(c, i) = fs[i].node
      /\ NodeAt(c, k + 1) = e.tgt
      /\ \A i \in 1 .. k : c[i] \in Out(fs[i].node)
  BY TopChain
<1>2. Last(fs) = fs[k]
  BY DEF Last
<1>3. ASSUME NEW i \in 1 .. k - 1 PROVE fs[i + 1].via \notin fs[i].left
  <2>1. i + 1 \in 2 .. k /\ i + 1 - 1 = i
    BY <1>1
  <2> QED
    BY <2>1 DEF IsStack
<1> HIDE DEF c
<1>4. ASSUME request.task = "trace" \/ e.tgt = request.to PROVE c \in Wanted
  <2>1. \A i, j \in 1 .. k : NodeAt(c, i) = NodeAt(c, j) => i = j
    <3>1. \A i, j \in 1 .. k : fs[i].node = fs[j].node => i = j
      BY DEF IsStack
    <3> QED
      BY <1>1, <3>1
  <2>2. request.task = "paths" => \A i \in 1 .. k : NodeAt(c, i) # request.to
    BY <1>1 DEF IsStack
  <2>3. IsWanted(c)
    BY <1>1, <1>4, <2>1, <2>2 DEF IsWanted
  <2> QED
    BY <2>3, WantedAre
<1>5. AheadAt(fs, c, k)
  BY <1>1, <1>2 DEF AheadAt
<1>6. ~ AheadOn(Taken(fs, e), c)
  <2> DEFINE L == Last(fs).left \ {e}
  <2>1. SUFFICES ASSUME NEW i \in 1 .. Len(WithLeft(fs, L)), AheadAt(WithLeft(fs, L), c, i) PROVE FALSE
    BY DEF AheadOn, Taken
  <2>2. L \in SUBSET Last(fs).left
    OBVIOUS
  <2> HIDE DEF L
  <2>3. AheadAt(fs, c, i) /\ (i = k => c[i] \in L) /\ i \in 1 .. k
    BY <2>1, <2>2, LessLeft
  <2>4. CASE i = k
    BY <1>1, <2>3, <2>4 DEF L
  <2>5. CASE i # k
    <3>1. i \in 1 .. k - 1 /\ c[i] = fs[i + 1].via
      BY <1>1, <2>3, <2>5
    <3> QED
      BY <1>3, <2>3, <3>1 DEF AheadAt
  <2> QED
    BY <2>4, <2>5
<1> QED
  BY <1>4, <1>5, <1>6 DEF c

\* A chain that is wanted and goes over the stack and this edge.
LEMMA ThroughTop ==
    ASSUME graph \in Graphs, request \in Requests,
           NEW fs, IsStack(fs), fs # <<>>, NEW e \in Last(fs).left,
           NEW c \in Wanted, AheadAt(fs, c, Len(fs)), c[Len(fs)] = e
    PROVE  /\ Len(c) \in Nat /\ Len(fs) <= Len(c) /\ Len(c) <= Depth
           /\ NodeAt(c, Len(fs) + 1) = e.tgt
           /\ Len(c) = Len(fs) => c = Append(Chain(fs), e)
           /\ request.task = "paths" => (Len(c) = Len(fs) <=> e.tgt = request.to)
           /\ request.task = "paths" \/ Len(c) # Len(fs) => \A i \in 1 .. Len(fs) : fs[i].node # e.tgt
           /\ Len(c) # Len(fs) => c[Len(fs) + 1] \in Followed(e.tgt, Len(fs))
<1> DEFINE k == Len(fs)
           u == Append(Chain(fs), e)
<1>1. /\ u \in Seq(graph.edges) /\ Len(u) = k /\ k \in Nat \ {0} /\ k <= Depth
      /\ \A i \in 1 .. k : u[i] = IF i = k THEN e ELSE fs[i + 1].via
      /\ \A i \in 1 .. k : NodeAt(u, i) = fs[i].node
  BY TopChain
<1>2. IsWanted(c) /\ Len(c) \in Nat /\ c \in Seq(graph.edges) /\ Len(c) <= Depth
  BY WantedAre DEF IsWanted
<1>3. k <= Len(c) /\ \A i \in 1 .. k : c[i] = u[i]
  BY <1>1 DEF AheadAt
<1>4. NodeAt(c, k + 1) = e.tgt
  BY <1>1 DEF NodeAt
<1>5. \A i \in 1 .. k : NodeAt(c, i) = fs[i].node
  <2>1. SUFFICES ASSUME NEW i \in 1 .. k PROVE NodeAt(c, i) = NodeAt(u, i)
    BY <1>1
  <2>2. i # 1 => i - 1 \in 1 .. k
    BY <1>1
  <2> QED
    BY <1>3, <2>2 DEF NodeAt
<1> HIDE DEF u
<1>6. Len(c) = k => c = u
  BY <1>1, <1>2, <1>3, SeqEqual
<1>7. ASSUME request.task = "paths" PROVE Len(c) = k <=> e.tgt = request.to
  <2>1. NodeAt(c, Len(c) + 1) = request.to /\ \A i \in 1 .. Len(c) : NodeAt(c, i) # request.to
    BY <1>2, <1>7 DEF IsWanted
  <2>2. Len(c) # k => k + 1 \in 1 .. Len(c)
    BY <1>1, <1>2, <1>3
  <2> QED
    BY <1>4, <2>1, <2>2
<1>8. ASSUME request.task = "paths" \/ Len(c) # k, NEW i \in 1 .. k PROVE fs[i].node # e.tgt
  <2>1. i \in 1 .. Len(c) /\ i # k + 1
    BY <1>1, <1>2, <1>3
  <2>2. CASE Len(c) = k
    BY <1>4, <1>5, <1>7, <1>8, <2>1, <2>2 DEF IsStack
  <2>3. CASE Len(c) # k
    <3>1. k + 1 \in 1 .. Len(c)
      BY <1>1, <1>2, <1>3, <2>3
    <3>2. NodeAt(c, i) # NodeAt(c, k + 1)
      BY <1>2, <2>1, <3>1 DEF IsWanted
    <3> QED
      BY <1>4, <1>5, <3>2
  <2> QED
    BY <2>2, <2>3
<1>9. ASSUME Len(c) # k PROVE c[k + 1] \in Followed(e.tgt, k)
  <2>1. k + 1 \in 1 .. Len(c) /\ k < Depth
    BY <1>1, <1>2, <1>3, <1>9, RequestTypes
  <2>2. c[k + 1] \in Out(e.tgt)
    BY <1>2, <1>4, <2>1 DEF IsWanted
  <2> QED
    BY <1>1, <2>1, <2>2, FollowedAre
<1> QED
  BY <1>2, <1>3, <1>4, <1>6, <1>7, <1>8, <1>9 DEF u

\* Taking one edge from the call on top: what was ahead still is, or went over this edge.
LEMMA RestAhead ==
    ASSUME graph \in Graphs, request \in Requests,
           NEW fs, IsStack(fs), fs # <<>>, NEW e \in Last(fs).left
    PROVE  /\ IsStack(Taken(fs, e)) /\ Len(Taken(fs, e)) = Len(fs)
           /\ \A i \in 1 .. Len(fs) : ChainTo(Taken(fs, e), i) = ChainTo(fs, i)
           /\ \A c : AheadOn(Taken(fs, e), c) => AheadOn(fs, c)
           /\ \A c : AheadOn(fs, c) =>
                 AheadOn(Taken(fs, e), c) \/ (AheadAt(fs, c, Len(fs)) /\ c[Len(fs)] = e)
<1> DEFINE L == Last(fs).left \ {e}
           r == Taken(fs, e)
<1>1. L \in SUBSET Last(fs).left
  OBVIOUS
<1>2. \A c, i : i = Len(fs) /\ AheadAt(fs, c, i) => c[i] \in Last(fs).left
  BY DEF AheadAt, Last
<1> HIDE DEF L, r
<1>3. /\ IsStack(r) /\ Len(r) = Len(fs) /\ \A i \in 1 .. Len(fs) : ChainTo(r, i) = ChainTo(fs, i)
      /\ \A c, i : AheadAt(r, c, i) <=> AheadAt(fs, c, i) /\ (i = Len(fs) => c[i] \in L)
  <2>1. r = WithLeft(fs, L)
    BY DEF L, r, Taken
  <2>2. /\ IsStack(WithLeft(fs, L)) /\ Len(WithLeft(fs, L)) = Len(fs)
        /\ \A i \in 1 .. Len(fs) : ChainTo(WithLeft(fs, L), i) = ChainTo(fs, i)
        /\ \A c, i : AheadAt(WithLeft(fs, L), c, i) <=> AheadAt(fs, c, i) /\ (i = Len(fs) => c[i] \in L)
    BY <1>1, LessLeft
  <2> QED
    BY <2>1, <2>2
<1>4. ASSUME NEW c, AheadOn(fs, c) PROVE AheadOn(r, c) \/ (AheadAt(fs, c, Len(fs)) /\ c[Len(fs)] = e)
  <2>1. PICK i \in 1 .. Len(fs) : AheadAt(fs, c, i)
    BY <1>4 DEF AheadOn
  <2>2. CASE i = Len(fs) /\ c[i] = e
    BY <2>1, <2>2
  <2>3. CASE ~ (i = Len(fs) /\ c[i] = e)
    <3>1. i = Len(fs) => c[i] \in L
      BY <1>2, <2>1, <2>3 DEF L
    <3> QED
      BY <1>3, <2>1, <3>1 DEF AheadOn
  <2> QED
    BY <2>2, <2>3
<1>5. ASSUME NEW c, AheadOn(r, c) PROVE AheadOn(fs, c)
  BY <1>3, <1>5 DEF AheadOn
<1> QED
  BY <1>3, <1>4, <1>5 DEF r

\* Going on to its end: what was ahead still is, but for the chain that ends there.
LEMMA PushAhead ==
    ASSUME graph \in Graphs, request \in Requests,
           NEW fs, IsStack(fs), fs # <<>>, NEW e \in Last(fs).left,
           \A i \in 1 .. Len(fs) : fs[i].node # e.tgt,
           request.task = "paths" => e.tgt # request.to
    PROVE  LET p == Push(Taken(fs, e), e)
           IN /\ IsStack(p) /\ Len(p) = Len(fs) + 1
              /\ \A i \in 1 .. Len(fs) : ChainTo(p, i) = ChainTo(fs, i)
              /\ ChainTo(p, Len(fs) + 1) = Append(Chain(fs), e)
              /\ \A c : AheadOn(p, c) => AheadOn(fs, c)
              /\ ~ AheadOn(p, Append(Chain(fs), e))
              /\ \A c \in Wanted : AheadOn(fs, c) =>
                    AheadOn(p, c) \/ (c = Append(Chain(fs), e) /\ request.task = "trace")
<1> DEFINE r == Taken(fs, e)
           p == Push(r, e)
           k == Len(fs)
<1>1. fs \in Seq(Frame) /\ k \in Nat \ {0} /\ Last(fs) = fs[k] /\ fs[k] \in Frame
  BY DEF IsStack, Last
<1>2. /\ IsStack(r) /\ Len(r) = k /\ \A i \in 1 .. k : ChainTo(r, i) = ChainTo(fs, i)
      /\ \A c : AheadOn(r, c) => AheadOn(fs, c)
      /\ \A c : AheadOn(fs, c) => AheadOn(r, c) \/ (AheadAt(fs, c, k) /\ c[k] = e)
  <2> QED
    BY RestAhead
<1>3. /\ \A i \in 1 .. k : r[i].node = fs[i].node /\ r[i].via = fs[i].via
      /\ Last(r).left = Last(fs).left \ {e} /\ Last(r) = r[k] /\ r # <<>>
  <2>1. Last(fs).left \ {e} \in SUBSET Edge
    BY <1>1 DEF Frame
  <2>2. /\ Len(r) = k
        /\ \A i \in 1 .. k : /\ r[i].node = fs[i].node /\ r[i].via = fs[i].via
                             /\ r[i].left = IF i = k THEN Last(fs).left \ {e} ELSE fs[i].left
    BY <1>1, <2>1, WithLeftIs DEF Taken
  <2> HIDE DEF r
  <2>3. r # <<>> /\ Last(r) = r[k]
    BY <1>1, <2>2 DEF Last
  <2> QED
    BY <1>1, <2>2, <2>3
<1> HIDE DEF r, p
<1>4. /\ e \in Followed(Last(r).node, k - 1) /\ e \notin Last(r).left
      /\ \A i \in 1 .. k : r[i].node # e.tgt
  <2>1. e \in Followed(Last(fs).node, k - 1)
    BY TopChain
  <2> QED
    BY <1>1, <1>3, <2>1
<1>5. p = Push(r, e)
  BY DEF p
<1>6. /\ IsStack(p) /\ Len(p) = k + 1
      /\ \A i \in 1 .. k : ChainTo(p, i) = ChainTo(r, i)
      /\ ChainTo(p, k + 1) = Append(ChainTo(r, k), e)
      /\ \A c : \A i \in 1 .. k : AheadAt(p, c, i) <=> AheadAt(r, c, i)
      /\ \A c : AheadAt(p, c, k + 1) <=> /\ k + 1 <= Len(c) /\ c[k + 1] \in Followed(e.tgt, k)
                                         /\ \A j \in 1 .. k - 1 : c[j] = r[j + 1].via
                                         /\ c[k] = e
  <2>1. /\ e \in Followed(Last(r).node, Len(r) - 1) /\ e \notin Last(r).left
        /\ \A i \in 1 .. Len(r) : r[i].node # e.tgt
        /\ request.task = "paths" => e.tgt # request.to
    BY <1>2, <1>4
  <2>2. /\ IsStack(Push(r, e)) /\ Len(Push(r, e)) = Len(r) + 1
        /\ \A i \in 1 .. Len(r) : ChainTo(Push(r, e), i) = ChainTo(r, i)
        /\ ChainTo(Push(r, e), Len(r) + 1) = Append(ChainTo(r, Len(r)), e)
        /\ \A c : \A i \in 1 .. Len(r) : AheadAt(Push(r, e), c, i) <=> AheadAt(r, c, i)
        /\ \A c : AheadAt(Push(r, e), c, Len(r) + 1) <=>
                     /\ Len(r) + 1 <= Len(c) /\ c[Len(r) + 1] \in Followed(e.tgt, Len(r))
                     /\ \A j \in 1 .. Len(r) - 1 : c[j] = r[j + 1].via
                     /\ c[Len(r)] = e
    BY <1>2, <1>3, <2>1, Pushed
  <2>3. Len(r) = k
    BY <1>2
  <2> QED
    BY <1>5, <2>2, <2>3
<1>top. k \in 1 .. k /\ k + 1 \in 1 .. k + 1 /\ \A i \in 1 .. k : i \in 1 .. k + 1
        /\ \A j \in 1 .. k + 1 : j \in 1 .. k \/ j = k + 1
  BY <1>1
<1>7. /\ \A i \in 1 .. k : ChainTo(p, i) = ChainTo(fs, i)
      /\ ChainTo(p, k + 1) = Append(Chain(fs), e)
  <2>1. ChainTo(fs, k) = Chain(fs)
    BY DEF Chain, ChainTo
  <2>2. ChainTo(r, k) = Chain(fs)
    BY <1>2, <1>top, <2>1
  <2>3. ChainTo(p, k + 1) = Append(Chain(fs), e)
    BY <1>6, <2>2
  <2> QED
    BY <1>2, <1>6, <2>3
<1>8. ASSUME NEW c
      PROVE  AheadAt(p, c, k + 1) => AheadAt(fs, c, k) /\ c[k] = e
  <2>1. SUFFICES ASSUME AheadAt(p, c, k + 1) PROVE AheadAt(fs, c, k) /\ c[k] = e
    OBVIOUS
  <2>2. /\ k + 1 <= Len(c) /\ c[k] = e /\ \A j \in 1 .. k - 1 : c[j] = r[j + 1].via
    BY <1>6, <2>1
  <2>c. \A j \in 1 .. k - 1 : c[j] = fs[j + 1].via
    <3>1. \A j \in 1 .. k - 1 : j + 1 \in 1 .. k
      BY <1>1
    <3> QED
      BY <1>3, <2>2, <3>1
  <2>3. k <= Len(c)
    BY <1>1, <2>2
  <2>4. c[k] \in fs[k].left
    BY <1>1, <2>2
  <2> QED
    BY <1>top, <2>2, <2>c, <2>3, <2>4 DEF AheadAt
<1>9. ASSUME NEW c, AheadOn(p, c) PROVE AheadOn(fs, c)
  <2>1. PICK i \in 1 .. k + 1 : AheadAt(p, c, i)
    BY <1>6, <1>9 DEF AheadOn
  <2>2. CASE i = k + 1
    BY <1>top, <1>8, <2>1, <2>2 DEF AheadOn
  <2>3. CASE i \in 1 .. k
    BY <1>2, <1>6, <2>1, <2>3 DEF AheadOn
  <2> QED
    BY <1>1, <2>2, <2>3
<1>10. ~ AheadOn(p, Append(Chain(fs), e))
  <2>1. ~ AheadOn(r, Append(Chain(fs), e)) /\ Len(Append(Chain(fs), e)) = k
    BY TopChain, TopChainIsWanted DEF r
  <2> DEFINE u == Append(Chain(fs), e)
  <2> HIDE DEF u
  <2>2. ASSUME NEW i \in 1 .. k + 1, AheadAt(p, u, i) PROVE AheadOn(r, u) \/ k + 1 <= Len(u)
    <3>1. CASE i \in 1 .. k
      BY <1>2, <1>6, <2>2, <3>1 DEF AheadOn
    <3>2. CASE i = k + 1
      BY <1>6, <2>2, <3>2
    <3> QED
      BY <1>1, <3>1, <3>2
  <2>3. AheadOn(p, u) => AheadOn(r, u) \/ k + 1 <= Len(u)
    BY <1>6, <2>2 DEF AheadOn
  <2> QED
    BY <1>1, <2>1, <2>3 DEF u
<1>11. ASSUME NEW c \in Wanted, AheadOn(fs, c)
       PROVE  AheadOn(p, c) \/ (c = Append(Chain(fs), e) /\ request.task = "trace")
  <2>1. CASE AheadOn(r, c)
    <3>1. PICK i \in 1 .. k : AheadAt(r, c, i)
      BY <1>2, <2>1 DEF AheadOn
    <3>2. i \in 1 .. k + 1 /\ AheadAt(p, c, i)
      BY <1>top, <1>6, <3>1
    <3> QED
      BY <1>6, <3>2 DEF AheadOn
  <2>2. CASE AheadAt(fs, c, k) /\ c[k] = e
    <3>1. /\ Len(c) \in Nat /\ k <= Len(c)
          /\ Len(c) = k => c = Append(Chain(fs), e)
          /\ request.task = "paths" => (Len(c) = k <=> e.tgt = request.to)
          /\ Len(c) # k => c[k + 1] \in Followed(e.tgt, k)
      BY <1>11, <2>2, ThroughTop
    <3>2. ASSUME Len(c) # k PROVE AheadOn(p, c)
      <4>1. \A j \in 1 .. k - 1 : c[j] = r[j + 1].via
        BY <1>1, <1>3, <2>2 DEF AheadAt
      <4>2. k + 1 <= Len(c)
        BY <1>1, <3>1, <3>2
      <4>3. AheadAt(p, c, k + 1)
        BY <1>6, <2>2, <3>1, <3>2, <4>1, <4>2
      <4> QED
        BY <1>top, <1>6, <4>3 DEF AheadOn
    <3> QED
      BY <3>1, <3>2, RequestTypes
  <2> QED
    BY <1>2, <1>11, <2>1, <2>2
<1> QED
  BY <1>6, <1>7, <1>9, <1>10, <1>11 DEF p, r

\* A step that finds nothing keeps what is known of the search, if what it leaves out is
\* ahead no more, and then is not wanted, or is cut off by the limit.
LEMMA NothingFound ==
    ASSUME graph \in Graphs, request \in Requests,
           NEW fs, NEW fd, NEW tr, IsSearch(fs, fd, tr),
           NEW gs, IsStack(gs), \A c : AheadOn(gs, c) => AheadOn(fs, c),
           request.task = "trace" => \A i \in 2 .. Len(gs) : i <= Len(fs) /\ ChainTo(gs, i) = ChainTo(fs, i),
           NEW ur, tr => ur,
           ~ ur => \A c \in Wanted : AheadOn(fs, c) => AheadOn(gs, c),
           ur /\ ~ tr => Len(fd) = Most /\ (request.task = "trace" => \E c \in Wanted : AheadOn(fs, c))
    PROVE  IsSearch(gs, fd, ur)
<1>1. /\ IsStack(gs) /\ fd \in Seq(Wanted) /\ IsSimple(fd) /\ Len(fd) <= Most
      /\ \A i \in 1 .. Len(fd) : ~ AheadOn(gs, fd[i])
  BY DEF IsSearch
<1>2. ur => Len(fd) = Most
  BY DEF IsSearch
<1>3. ~ ur => \A c \in Wanted : c \in ToSet(fd) \/ AheadOn(gs, c)
  BY DEF IsSearch
<1>4. ASSUME request.task = "trace", ur PROVE \E c \in Wanted : c \notin ToSet(fd)
  <2>1. CASE tr
    BY <1>4, <2>1 DEF IsSearch
  <2>2. CASE ~ tr
    <3>1. PICK c \in Wanted : AheadOn(fs, c)
      BY <1>4, <2>2
    <3>2. DOMAIN fd = 1 .. Len(fd)
      BY <1>1
    <3>3. c \notin ToSet(fd)
      BY <3>1, <3>2 DEF IsSearch, ToSet
    <3> QED
      BY <3>3
  <2> QED
    BY <2>1, <2>2
<1>5. ASSUME request.task = "trace", NEW i \in 2 .. Len(gs) PROVE ChainTo(gs, i) \in ToSet(fd)
  <2>1. i \in 2 .. Len(fs) /\ ChainTo(gs, i) = ChainTo(fs, i)
    <3>1. Len(fs) \in Nat /\ Len(gs) \in Nat
      BY DEF IsSearch, IsStack
    <3> QED
      BY <1>5, <3>1
  <2> QED
    BY <1>5, <2>1 DEF IsSearch
<1>6. request.task = "trace" =>
         /\ \A c \in ToSet(fd) : Len(c) > 1 => Front(c) \in ToSet(fd)
         /\ \A c \in ToSet(fd), d \in Wanted :
               Front(c) = Front(d) /\ Last(d).line < Last(c).line => d \in ToSet(fd)
  BY DEF IsSearch
<1> QED
  BY <1>1, <1>2, <1>3, <1>4, <1>5, <1>6 DEF IsSearch

\* A step that finds the chain over the next edge keeps it too.
LEMMA OneFound ==
    ASSUME graph \in Graphs, request \in Requests,
           NEW fs, NEW fd, NEW tr, IsSearch(fs, fd, tr), fs # <<>>, Len(fd) < request.limit,
           NEW e \in Last(fs).left, NEW d, d = Append(Chain(fs), e), d \in Wanted,
           request.task = "trace" => \A f \in Last(fs).left : e.line <= f.line,
           NEW gs, IsStack(gs), \A c : AheadOn(gs, c) => AheadOn(fs, c), ~ AheadOn(gs, d),
           \A c \in Wanted : AheadOn(fs, c) => AheadOn(gs, c) \/ c = d,
           request.task = "trace" => \A i \in 2 .. Len(gs) :
              (i <= Len(fs) /\ ChainTo(gs, i) = ChainTo(fs, i)) \/ ChainTo(gs, i) = d
    PROVE  IsSearch(gs, Append(fd, d), tr)
<1> DEFINE fe == Append(fd, d)
           n == Len(fd)
           k == Len(fs)
<1>1. /\ IsStack(fs) /\ fd \in Seq(Wanted) /\ IsSimple(fd) /\ n <= Most /\ n \in Nat /\ DOMAIN fd = 1 .. n
      /\ \A i \in 1 .. n : ~ AheadOn(fs, fd[i])
      /\ ~ tr
      /\ request.limit \in Int /\ Most \in Nat
  <2>1. IsStack(fs) /\ fd \in Seq(Wanted) /\ IsSimple(fd) /\ n <= Most /\ (tr => n = Most)
        /\ \A i \in 1 .. n : ~ AheadOn(fs, fd[i])
    BY DEF IsSearch
  <2>2. request.limit \in Int /\ Most \in Nat
    BY RequestTypes
  <2> QED
    BY <2>1, <2>2 DEF Most
<1>2. /\ fs \in Seq(Frame) /\ k \in Nat \ {0} /\ Last(fs) = fs[k]
  BY <1>1 DEF IsStack, Last
<1>3. AheadOn(fs, d)
  BY <1>1, <1>2, TopChainIsWanted DEF AheadOn
<1>4. /\ fe \in Seq(Wanted) /\ Len(fe) = n + 1 /\ DOMAIN fe = 1 .. n + 1
      /\ \A i \in 1 .. n + 1 : fe[i] = IF i = n + 1 THEN d ELSE fd[i]
  BY <1>1
<1>5. ToSet(fe) = ToSet(fd) \cup {d}
  <2>1. ToSet(fe) = {fe[i] : i \in 1 .. n + 1} /\ ToSet(fd) = {fd[i] : i \in 1 .. n}
    BY <1>1, <1>4 DEF ToSet
  <2> QED
    BY <1>1, <1>4, <2>1
<1> HIDE DEF fe
<1>6. IsSimple(fe)
  <2>1. \A i, j \in 1 .. n : fd[i] = fd[j] => i = j
    BY <1>1 DEF IsSimple
  <2>2. \A i \in 1 .. n : fd[i] # d
    BY <1>1, <1>3
  <2>3. \A i \in 1 .. n + 1 : i \in 1 .. n \/ i = n + 1
    BY <1>1
  <2> QED
    BY <1>4, <2>1, <2>2, <2>3 DEF IsSimple
<1>7. \A i \in 1 .. n + 1 : ~ AheadOn(gs, fe[i])
  <2>1. \A i \in 1 .. n + 1 : i \in 1 .. n \/ i = n + 1
    BY <1>1
  <2> QED
    BY <1>1, <1>4, <2>1
<1>8. n + 1 <= Most
  BY <1>1 DEF Most
<1>9. \A c \in Wanted : c \in ToSet(fd) \/ AheadOn(fs, c)
  BY <1>1 DEF IsSearch
<1>10. \A c \in Wanted : c \in ToSet(fe) \/ AheadOn(gs, c)
  BY <1>5, <1>9
<1>11. ASSUME request.task = "trace"
       PROVE  /\ \A i \in 2 .. Len(gs) : ChainTo(gs, i) \in ToSet(fe)
              /\ \A c \in ToSet(fe) : Len(c) > 1 => Front(c) \in ToSet(fe)
              /\ \A c \in ToSet(fe), f \in Wanted :
                    Front(c) = Front(f) /\ Last(f).line < Last(c).line => f \in ToSet(fe)
  <2>1. /\ \A i \in 2 .. k : ChainTo(fs, i) \in ToSet(fd)
        /\ \A c \in ToSet(fd) : Len(c) > 1 => Front(c) \in ToSet(fd)
        /\ \A c \in ToSet(fd), f \in Wanted :
              Front(c) = Front(f) /\ Last(f).line < Last(c).line => f \in ToSet(fd)
    BY <1>11 DEF IsSearch
  <2>2. /\ Len(d) = k /\ Front(d) = ChainTo(fs, k) /\ Last(d) = e /\ d \in Seq(graph.edges)
        /\ \A i \in 1 .. k : d[i] = IF i = k THEN e ELSE fs[i + 1].via
    BY <1>1, TopChain
  <2>3. ASSUME NEW i \in 2 .. Len(gs) PROVE ChainTo(gs, i) \in ToSet(fe)
    <3>1. Len(gs) \in Nat
      BY DEF IsStack
    <3>2. CASE ChainTo(gs, i) = d
      BY <1>5, <3>2
    <3>3. CASE i <= k /\ ChainTo(gs, i) = ChainTo(fs, i)
      <4>1. i \in 2 .. k
        BY <1>2, <3>1, <3>3
      <4> QED
        BY <1>5, <2>1, <3>3, <4>1
    <3> QED
      BY <1>11, <3>2, <3>3
  <2>4. Len(d) > 1 => Front(d) \in ToSet(fd)
    <3>1. k > 1 => k \in 2 .. k
      BY <1>2
    <3> QED
      BY <2>1, <2>2, <3>1
  <2>5. ASSUME NEW f \in Wanted, Front(d) = Front(f), Last(f).line < Last(d).line
        PROVE  f \in ToSet(fd)
    <3>1. SUFFICES ASSUME AheadOn(fs, f) PROVE FALSE
      BY <1>9
    <3>2. PICK i \in 1 .. k : AheadAt(fs, f, i)
      BY <3>1 DEF AheadOn
    <3>3. f \in Seq(graph.edges) /\ Len(f) \in Nat \ {0}
      BY <1>11, WantedAre DEF IsWanted
    <3>4. Len(f) = k /\ \A j \in 1 .. k - 1 : f[j] = fs[j + 1].via
      <4>1. /\ Len(Front(f)) = Len(f) - 1 /\ \A j \in 1 .. Len(f) - 1 : Front(f)[j] = f[j]
        BY <3>3, FrontIs
      <4>2. /\ Len(Front(d)) = k - 1 /\ \A j \in 1 .. k - 1 : Front(d)[j] = d[j]
        <5>1. d # <<>>
          BY <1>2, <2>2
        <5> QED
          BY <2>2, <5>1, FrontIs
      <4>3. Len(f) = k
        BY <1>2, <2>5, <3>3, <4>1, <4>2
      <4>4. \A j \in 1 .. k - 1 : f[j] = d[j]
        BY <2>5, <4>1, <4>2, <4>3
      <4>5. \A j \in 1 .. k - 1 : d[j] = fs[j + 1].via
        BY <1>2, <2>2
      <4> QED
        BY <4>3, <4>4, <4>5
    <3>5. CASE i = k
      <4>1. Last(f) \in fs[k].left
        BY <3>2, <3>4, <3>5 DEF AheadAt, Last
      <4>2. Last(f) \in Edge /\ e \in Edge
        <5>1. fs[k] \in Frame
          BY <1>2
        <5> QED
          BY <1>2, <4>1, <5>1 DEF Frame
      <4>3. Last(f).line \in Nat /\ e.line \in Nat
        BY <4>2, RequestTypes
      <4> QED
        BY <1>2, <1>11, <2>2, <2>5, <4>1, <4>3
    <3>6. CASE i # k
      <4>1. i \in 1 .. k - 1 /\ i + 1 \in 2 .. k /\ i + 1 - 1 = i
        BY <1>2, <3>6
      <4>2. fs[i + 1].via \notin fs[i].left
        BY <1>1, <4>1 DEF IsStack
      <4> QED
        BY <3>2, <3>4, <4>1, <4>2 DEF AheadAt
    <3> QED
      BY <3>5, <3>6
  <2> QED
    BY <1>5, <2>1, <2>3, <2>4, <2>5
<1>12. IsSearch(gs, fe, tr)
  BY <1>1, <1>4, <1>6, <1>7, <1>8, <1>10, <1>11 DEF IsSearch
<1> QED
  BY <1>12 DEF fe

\* What a search is depends on the graph and on what is asked, which no step changes.
LEMMA SearchSame ==
    ASSUME UNCHANGED <<graph, request>>
    PROVE  IsSearch(calls, found, truncated)' <=> IsSearch(calls', found', truncated')
<1>1. Depth' = Depth /\ Most' = Most
  BY DEF Depth, Most
<1>2. \A n : Out(n)' = Out(n)
  BY DEF Out
<1>3. \A n, k : Followed(n, k)' = Followed(n, k)
  BY DEF Followed, Out
<1>4. \A c : NodesOn(c)' = NodesOn(c)
  BY DEF NodesOn
<1>5. \A es : ChainsOf(es)' = ChainsOf(es)
  BY <1>1, <1>4 DEF ChainsOf
<1>6. Wanted' = Wanted
  BY <1>4, <1>5 DEF Wanted, SimplePaths, CallTree
<1>7. IsStack(calls)' <=> IsStack(calls')
  BY <1>3 DEF IsStack
<1> QED
  BY <1>1, <1>6, <1>7 DEF IsSearch

\* At first all that is wanted is ahead, or found, or cut off by the limit.
LEMMA PathsInitInv == graph \in Graphs /\ PathsInit => PathsInv
<1> SUFFICES ASSUME graph \in Graphs, PathsInit PROVE PathsInv
  OBVIOUS
<1>1. request \in Requests /\ (pathsDone => calls = <<>>)
  BY DEF PathsInit
<1>2. /\ request.task \in {"paths", "trace"} /\ request.from \in Nodes
      /\ request.limit \in Int /\ Depth \in Nat /\ Most \in Nat
  BY <1>1, RequestTypes
<1>t. truncated = (request.task = "paths" /\ request.limit <= 0)
  BY DEF PathsInit
<1>f. /\ found = IF request.task = "paths" /\ request.from = request.to /\ request.limit > 0
                 THEN << <<>> >> ELSE <<>>
      /\ calls = IF truncated \/ found # <<>> THEN <<>> ELSE <<Bottom(request.from)>>
  BY DEF PathsInit
<1>3. CASE truncated
  <2>t. request.task = "paths" /\ request.limit <= 0
    BY <1>t, <1>3, Zenon
  <2>1. request.task = "paths" /\ request.limit <= 0 /\ found = <<>> /\ calls = <<>>
    BY <1>2, <1>3, <1>f, <2>t
  <2>2. IsStack(calls)
    BY <2>1 DEF IsStack
  <2> QED
    BY <1>1, <1>2, <1>3, <2>1, <2>2 DEF PathsInv, IsSearch, IsSimple, Most
<1>4. CASE ~ truncated /\ found # <<>>
  <2>1. /\ request.task = "paths" /\ request.from = request.to /\ request.limit > 0
        /\ found = << <<>> >> /\ calls = <<>>
    BY <1>4 DEF PathsInit
  <2>2. \A c : IsWanted(c) <=> c = <<>>
    <3>1. ASSUME NEW c, IsWanted(c) PROVE c = <<>>
      <4>1. c \in Seq(graph.edges) /\ Len(c) \in Nat
        BY <3>1 DEF IsWanted
      <4>2. Len(c) > 0 => 1 \in 1 .. Len(c)
        BY <4>1
      <4>3. NodeAt(c, 1) = request.to
        BY <2>1 DEF NodeAt
      <4>4. Len(c) = 0
        BY <2>1, <3>1, <4>1, <4>2, <4>3 DEF IsWanted
      <4> QED
        BY <4>1, <4>4
    <3>2. IsWanted(<<>>)
      BY <1>2, <2>1 DEF IsWanted, NodeAt
    <3> QED
      BY <3>1, <3>2
  <2>3. \A c : c \in Wanted <=> c = <<>>
    BY <1>1, <2>2, WantedAre
  <2>4. found \in Seq(Wanted) /\ Len(found) = 1 /\ ToSet(found) = {<<>>} /\ IsSimple(found)
    BY <2>1, <2>3 DEF ToSet, IsSimple
  <2>5. IsStack(calls) /\ Len(calls) = 0
    BY <2>1 DEF IsStack
  <2>6. \A c : ~ AheadOn(calls, c)
    BY <2>5 DEF AheadOn
  <2>7. 1 <= Most
    BY <1>2, <2>1 DEF Most
  <2> QED
    BY <1>1, <1>4, <2>1, <2>3, <2>4, <2>5, <2>6, <2>7 DEF PathsInv, IsSearch
<1>5. CASE ~ truncated /\ found = <<>>
  <2>1. /\ calls = <<Bottom(request.from)>>
        /\ request.task = "paths" => request.from # request.to
    <3>1. ~ (request.task = "paths" /\ request.limit <= 0)
      BY <1>t, <1>5, Zenon
    <3>2. request.task = "paths" /\ request.limit > 0 => request.from # request.to
      BY <1>5, <1>f
    <3> QED
      BY <1>2, <1>5, <1>f, <3>1, <3>2
  <2>2. Bottom(request.from) \in Frame
    BY <1>1, <1>2, FollowedAre DEF Frame, Bottom
  <2>3. /\ calls \in Seq(Frame) /\ Len(calls) = 1 /\ calls[1].node = request.from
        /\ calls[1].left = Followed(request.from, 0)
    BY <2>1, <2>2 DEF Bottom
  <2>4. IsStack(calls)
    BY <2>1, <2>3 DEF IsStack
  <2>5. ASSUME NEW c \in Wanted PROVE AheadOn(calls, c)
    <3>1. IsWanted(c) /\ c \in Seq(graph.edges) /\ Len(c) \in Nat /\ Len(c) <= Depth
      BY <1>1, WantedAre DEF IsWanted
    <3>2. Len(c) # 0
      <4>1. NodeAt(c, 1) = request.from
        BY DEF NodeAt
      <4> QED
        BY <1>2, <2>1, <3>1, <4>1 DEF IsWanted
    <3>3. c[1] \in Out(request.from)
      BY <3>1, <3>2 DEF IsWanted, NodeAt
    <3>4. c[1] \in Followed(request.from, 0)
      BY <1>1, <1>2, <3>1, <3>2, <3>3, FollowedAre
    <3>5. AheadAt(calls, c, 1)
      BY <2>3, <3>1, <3>2, <3>4 DEF AheadAt
    <3> QED
      BY <2>3, <3>5 DEF AheadOn
  <2>6. found \in Seq(Wanted) /\ Len(found) = 0 /\ ToSet(found) = {} /\ IsSimple(found)
    BY <1>5 DEF ToSet, IsSimple
  <2> QED
    BY <1>1, <1>2, <1>5, <2>3, <2>4, <2>5, <2>6 DEF PathsInv, IsSearch
<1> QED
  BY <1>3, <1>4, <1>5

\* Every edge that is followed keeps it.
LEMMA FollowInv ==
    ASSUME PathsInv, calls # <<>>, NEW e \in Last(calls).left, Upcoming(e),
           Skip(e) \/ Refuse(e) \/ Arrive(e) \/ GoOn(e) \/ Show(e) \/ Stop(e)
    PROVE  IsSearch(calls', found', truncated')
<1> DEFINE r == Taken(calls, e)
           d == Append(Chain(calls), e)
           k == Len(calls)
<1>1. /\ graph \in Graphs /\ request \in Requests /\ IsSearch(calls, found, truncated) /\ IsStack(calls)
      /\ found \in Seq(Wanted) /\ Len(found) \in Nat
  BY DEF PathsInv, IsSearch
<1>2. /\ request.task \in {"paths", "trace"} /\ request.limit \in Int /\ Most \in Nat
  BY <1>1, RequestTypes
<1>3. calls \in Seq(Frame) /\ k \in Nat \ {0} /\ Last(calls) = calls[k]
  BY <1>1 DEF IsStack, Last
<1>4. OnPath = {calls[i].node : i \in 1 .. k}
  BY <1>3 DEF OnPath
<1>5. Rest(e) = r
  BY DEF Rest, WithLeft, Taken
<1>6. /\ IsStack(r) /\ Len(r) = k /\ \A i \in 1 .. k : ChainTo(r, i) = ChainTo(calls, i)
      /\ \A c : AheadOn(r, c) => AheadOn(calls, c)
      /\ \A c : AheadOn(calls, c) => AheadOn(r, c) \/ (AheadAt(calls, c, k) /\ c[k] = e)
  BY <1>1, RestAhead
<1>7. ~ AheadOn(r, d) /\ AheadOn(calls, d)
  BY <1>1, <1>3, TopChainIsWanted DEF AheadOn
<1>8. ASSUME e.tgt \notin OnPath
      PROVE  Append(Rest(e), Call(e)) = Push(r, e)
  BY <1>5, <1>6 DEF Call, Push
<1>9. ASSUME e.tgt \notin OnPath, request.task = "paths" => e.tgt # request.to
      PROVE  /\ IsStack(Push(r, e)) /\ Len(Push(r, e)) = k + 1
             /\ \A i \in 1 .. k : ChainTo(Push(r, e), i) = ChainTo(calls, i)
             /\ ChainTo(Push(r, e), k + 1) = d
             /\ \A c : AheadOn(Push(r, e), c) => AheadOn(calls, c)
             /\ ~ AheadOn(Push(r, e), d)
             /\ \A c \in Wanted : AheadOn(calls, c) =>
                   AheadOn(Push(r, e), c) \/ (c = d /\ request.task = "trace")
  <2>1. \A i \in 1 .. k : calls[i].node # e.tgt
    BY <1>4, <1>9
  <2> QED
    BY <1>1, <1>9, <2>1, PushAhead
<1> HIDE DEF r
<1>10. \A i \in 2 .. k : i <= k /\ i \in 1 .. k
  BY <1>3
<1>11. CASE Skip(e)
  <2>1. request.task = "paths" /\ e.tgt \in OnPath /\ calls' = r /\ UNCHANGED <<found, truncated>>
    BY <1>5, <1>11 DEF Skip
  <2>2. ASSUME NEW c \in Wanted, AheadOn(calls, c) PROVE AheadOn(r, c)
    <3>1. ASSUME AheadAt(calls, c, k), c[k] = e PROVE \A i \in 1 .. k : calls[i].node # e.tgt
      BY <1>1, <2>1, <3>1, ThroughTop
    <3> QED
      BY <1>4, <1>6, <2>1, <2>2, <3>1
  <2>3. IsSearch(r, found, truncated)
    BY <1>1, <1>6, <1>10, <2>1, <2>2, NothingFound
  <2> QED
    BY <2>1, <2>3
<1>12. CASE Refuse(e)
  <2>1. request.task = "paths" /\ Spent /\ truncated' /\ calls' = r /\ UNCHANGED found
    BY <1>5, <1>12 DEF Refuse
  <2>2. Len(found) = Most
    BY <1>1, <1>2, <2>1 DEF IsSearch, Spent, Most
  <2>3. IsSearch(r, found, TRUE)
    BY <1>1, <1>6, <1>10, <2>1, <2>2, NothingFound
  <2> QED
    BY <1>12, <2>1, <2>3 DEF Refuse
<1>13. CASE Arrive(e)
  <2>1. /\ request.task = "paths" /\ e.tgt = request.to /\ e.tgt \notin OnPath /\ ~ Spent
        /\ found' = Append(found, d) /\ calls' = r /\ UNCHANGED truncated
    BY <1>5, <1>13 DEF Arrive
  <2>2. d \in Wanted
    BY <1>1, <2>1, TopChainIsWanted
  <2>3. ASSUME NEW c \in Wanted, AheadOn(calls, c) PROVE AheadOn(r, c) \/ c = d
    <3>1. ASSUME AheadAt(calls, c, k), c[k] = e PROVE c = d
      BY <1>1, <2>1, <3>1, ThroughTop
    <3> QED
      BY <1>6, <2>3, <3>1
  <2>4. Len(found) < request.limit
    BY <1>1, <1>2, <2>1 DEF Spent
  <2>5. d = Append(Chain(calls), e)
    OBVIOUS
  <2> HIDE DEF d
  <2>6. IsSearch(r, Append(found, d), truncated)
    BY <1>1, <1>6, <1>7, <2>1, <2>2, <2>3, <2>4, <2>5, OneFound
  <2> QED
    BY <2>1, <2>6
<1>14. CASE GoOn(e)
  <2>1. /\ request.task = "paths" /\ e.tgt # request.to /\ e.tgt \notin OnPath
        /\ calls' = Push(r, e) /\ UNCHANGED <<found, truncated>>
    BY <1>8, <1>14 DEF GoOn
  <2> DEFINE p == Push(r, e)
  <2>2. /\ IsStack(p) /\ \A c : AheadOn(p, c) => AheadOn(calls, c)
        /\ \A c \in Wanted : AheadOn(calls, c) => AheadOn(p, c)
    BY <1>9, <2>1
  <2> HIDE DEF p
  <2>3. IsSearch(p, found, truncated)
    BY <1>1, <2>1, <2>2, NothingFound
  <2> QED
    BY <2>1, <2>3 DEF p
<1>15. CASE Show(e)
  <2>1. /\ request.task = "trace" /\ ~ Spent /\ found' = Append(found, d) /\ UNCHANGED truncated
        /\ calls' = IF e.tgt \in OnPath THEN r ELSE Push(r, e)
    BY <1>5, <1>8, <1>15 DEF Show
  <2>2. d \in Wanted
    BY <1>1, <2>1, TopChainIsWanted
  <2>3. \A f \in Last(calls).left : e.line <= f.line
    BY <2>1 DEF Upcoming
  <2>4. Len(found) < request.limit
    BY <1>1, <1>2, <2>1 DEF Spent
  <2>5. d = Append(Chain(calls), e)
    OBVIOUS
  <2>6. CASE e.tgt \in OnPath
    <3>1. ASSUME NEW c \in Wanted, AheadOn(calls, c) PROVE AheadOn(r, c) \/ c = d
      <4>1. ASSUME AheadAt(calls, c, k), c[k] = e
            PROVE c = d \/ \A i \in 1 .. k : calls[i].node # e.tgt
        BY <1>1, <2>1, <4>1, ThroughTop
      <4> QED
        BY <1>4, <1>6, <2>6, <3>1, <4>1
    <3> HIDE DEF d
    <3>2. IsSearch(r, Append(found, d), truncated)
      BY <1>1, <1>6, <1>7, <1>10, <2>2, <2>3, <2>4, <2>5, <3>1, OneFound
    <3> QED
      BY <2>1, <2>6, <3>2
  <2>7. CASE e.tgt \notin OnPath
    <3> DEFINE p == Push(r, e)
    <3>1. /\ IsStack(p) /\ Len(p) = k + 1
          /\ \A i \in 1 .. k : ChainTo(p, i) = ChainTo(calls, i)
          /\ ChainTo(p, k + 1) = d
          /\ \A c : AheadOn(p, c) => AheadOn(calls, c)
          /\ ~ AheadOn(p, d)
          /\ \A c \in Wanted : AheadOn(calls, c) => AheadOn(p, c) \/ c = d
      BY <1>9, <2>1, <2>7
    <3> HIDE DEF p, d
    <3>2. ASSUME NEW i \in 2 .. Len(p)
          PROVE  (i <= Len(calls) /\ ChainTo(p, i) = ChainTo(calls, i)) \/ ChainTo(p, i) = d
      <4>1. i \in 1 .. k \/ i = k + 1
        BY <1>3, <3>1
      <4> QED
        BY <1>3, <3>1, <4>1
    <3>3. IsSearch(p, Append(found, d), truncated)
      BY <1>1, <2>2, <2>3, <2>4, <2>5, <3>1, <3>2, OneFound
    <3> QED
      BY <2>1, <2>7, <3>3 DEF p
  <2> QED
    BY <2>6, <2>7
<1>16. CASE Stop(e)
  <2> DEFINE q == WithLeft(calls, {})
  <2>1. /\ request.task = "trace" /\ Spent /\ truncated' = TRUE /\ UNCHANGED found
        /\ calls' = q
    BY <1>16 DEF Stop, WithLeft
  <2>2. /\ IsStack(q) /\ Len(q) = k
        /\ \A i \in 1 .. k : ChainTo(q, i) = ChainTo(calls, i)
        /\ \A c, i : AheadAt(q, c, i) => AheadAt(calls, c, i)
    <3>1. {} \in SUBSET Last(calls).left
      OBVIOUS
    <3>2. /\ IsStack(WithLeft(calls, {})) /\ Len(WithLeft(calls, {})) = Len(calls)
          /\ \A i \in 1 .. Len(calls) : ChainTo(WithLeft(calls, {}), i) = ChainTo(calls, i)
          /\ \A c, i : AheadAt(WithLeft(calls, {}), c, i) <=> AheadAt(calls, c, i) /\ (i = Len(calls) => c[i] \in {})
      BY <1>1, <3>1, LessLeft
    <3> QED
      BY <3>2
  <2> HIDE DEF q
  <2>3. \A c : AheadOn(q, c) => AheadOn(calls, c)
    BY <2>2 DEF AheadOn
  <2>4. Len(found) = Most
    BY <1>1, <1>2, <2>1 DEF IsSearch, Spent, Most
  <2>5. d \in Wanted
    BY <1>1, <2>1, TopChainIsWanted
  <2>6. IsSearch(q, found, TRUE)
    BY <1>1, <1>7, <1>10, <2>2, <2>3, <2>4, <2>5, NothingFound
  <2> QED
    BY <2>1, <2>6
<1> QED
  BY <1>11, <1>12, <1>13, <1>14, <1>15, <1>16

\* And so does returning from a call.
LEMMA PathsNextInv ==
    ASSUME PathsInv, [PathsNext /\ UNCHANGED graph]_<<graph, pathVars>>
    PROVE  PathsInv'
<1>1. UNCHANGED <<graph, request>> /\ graph' \in Graphs /\ request' \in Requests
  BY DEF PathsNext, Follow, GoBack, pathVars, PathsInv
<1>2. SUFFICES IsSearch(calls', found', truncated') /\ (pathsDone' => calls' = <<>>)
  BY <1>1, SearchSame DEF PathsInv
<1>3. CASE Follow
  <2>1. PICK e \in Last(calls).left :
           Upcoming(e) /\ (Skip(e) \/ Refuse(e) \/ Arrive(e) \/ GoOn(e) \/ Show(e) \/ Stop(e))
    BY <1>3 DEF Follow
  <2>2. calls # <<>> /\ ~ pathsDone'
    BY <1>3 DEF Follow, PathsInv
  <2>3. IsSearch(calls', found', truncated')
    BY <2>1, <2>2, FollowInv
  <2> QED
    BY <2>2, <2>3
<1>4. CASE GoBack
  <2>1. /\ calls # <<>> /\ Last(calls).left = {} /\ calls' = Front(calls)
        /\ UNCHANGED <<found, truncated>> /\ (pathsDone' => calls' = <<>>)
    BY <1>4 DEF GoBack
  <2>2. graph \in Graphs /\ request \in Requests /\ IsSearch(calls, found, truncated) /\ IsStack(calls)
    BY DEF PathsInv, IsSearch
  <2>3. /\ IsStack(Front(calls)) /\ Len(Front(calls)) = Len(calls) - 1
        /\ \A i \in 1 .. Len(calls) - 1 : ChainTo(Front(calls), i) = ChainTo(calls, i)
        /\ \A c : AheadOn(Front(calls), c) <=> AheadOn(calls, c)
    BY <2>1, <2>2, Popped
  <2> DEFINE q == Front(calls)
  <2>4. Len(calls) \in Nat
    BY <2>2 DEF IsStack
  <2>5. \A i \in 2 .. Len(q) : i <= Len(calls) /\ ChainTo(q, i) = ChainTo(calls, i)
    BY <2>3, <2>4
  <2>6. IsStack(q) /\ \A c : AheadOn(q, c) <=> AheadOn(calls, c)
    BY <2>3
  <2> HIDE DEF q
  <2>7. IsSearch(q, found, truncated)
    BY <2>2, <2>5, <2>6, NothingFound
  <2> QED
    BY <2>1, <2>7 DEF q
<1>5. CASE UNCHANGED <<graph, pathVars>>
  BY <1>5 DEF pathVars, PathsInv
<1> QED
  BY <1>3, <1>4, <1>5 DEF PathsNext

\* What is found, is ahead, or is cut off is so in every search.
THEOREM PathsInvHolds == PathsSpec => []PathsInv
<1>1. PathsInv /\ [PathsNext /\ UNCHANGED graph]_<<graph, pathVars>> => PathsInv'
  BY PathsNextInv
<1> QED
  BY <1>1, PathsInitInv, PTL DEF PathsSpec

\* When a search has ended, nothing is ahead.
LEMMA SearchTells ==
    ASSUME PathsInv, pathsDone
    PROVE  Tells(Wanted)
<1>1. calls = <<>> /\ IsSearch(calls, found, truncated)
  BY DEF PathsInv
<1>2. \A c : ~ AheadOn(calls, c)
  BY <1>1 DEF AheadOn
<1>3. found \in Seq(Wanted) /\ DOMAIN found = 1 .. Len(found)
  BY <1>1 DEF IsSearch
<1>4. ToSet(found) \subseteq Wanted
  BY <1>3 DEF ToSet
<1> QED
  BY <1>1, <1>2, <1>4 DEF IsSearch, Tells, Most

\* PathsBetween gives every path between two symbols that has no symbol twice, within the
\* depth, once for each choice of edges; or as many as the limit allows, and says so.
THEOREM PathsAreAll == PathsSpec => []PathsAreExact
<1>1. PathsInv => PathsAreExact
  BY SearchTells DEF PathsAreExact, Wanted
<1> QED
  BY <1>1, PathsInvHolds, PTL

\* Trace gives the whole call tree, or says it is truncated and there is more; then what
\* it gives hangs together, and of the calls of a symbol it has the first.
THEOREM TracesAreWhole == PathsSpec => []TraceIsExact
<1>1. PathsInv => TraceIsExact
  <2> SUFFICES ASSUME PathsInv, request.task = "trace", pathsDone PROVE TraceIsExact
    BY DEF TraceIsExact
  <2>1. Wanted = CallTree
    BY DEF Wanted
  <2>2. Tells(CallTree)
    BY <2>1, SearchTells
  <2>3. IsSearch(calls, found, truncated)
    BY DEF PathsInv
  <2> QED
    BY <2>1, <2>2, <2>3 DEF IsSearch, TraceIsExact
<1> QED
  BY <1>1, PathsInvHolds, PTL

-----------------------------------------------------------------------------
(* SCCs.                                                                   *)

\* In what follows, ix numbers the groups, st is the stack, fr are the calls of connect,
\* lw are their low numbers and cs the components found.
Vis(ix) == {x \in Groups : ix[x] # Unvisited}
ConnectCall == [group : Groups, left : SUBSET Groups]

\* Groups are numbered as they are visited; stack and calls are in this order, and the
\* calls are on the stack.
Numbering(ix, st, fr) ==
    /\ ix \in [Groups -> Nat \cup {Unvisited}]
    /\ \A x \in Vis(ix) : x \in Vertices /\ ix[x] < Cardinality(Vis(ix))
    /\ \A x, y \in Vis(ix) : ix[x] = ix[y] => x = y
    /\ st \in Seq(Groups) /\ \A i \in 1 .. Len(st) : st[i] \in Vis(ix)
    /\ \A i, j \in 1 .. Len(st) : i < j => ix[st[i]] < ix[st[j]]
    /\ fr \in Seq(ConnectCall)
    /\ \A i \in 1 .. Len(fr) : fr[i].group \in ToSet(st) /\ fr[i].left \subseteq Used(fr[i].group)
    /\ \A i, j \in 1 .. Len(fr) : i < j => ix[fr[i].group] < ix[fr[j].group]

\* What is on the stack leads to all that is above it, and to some call below it or itself;
\* and all that it uses was visited or is still to be looked at.
Linking(ix, st, fr) ==
    /\ \A x, y \in ToSet(st) : ix[x] <= ix[y] => LeadsTo(x, y)
    /\ \A y \in ToSet(st) : \E i \in 1 .. Len(fr) : ix[fr[i].group] <= ix[y] /\ LeadsTo(y, fr[i].group)
    /\ \A x \in ToSet(st) : \A y \in Used(x) :
          y \in Vis(ix) \/ \E i \in 1 .. Len(fr) : fr[i].group = x /\ y \in fr[i].left

\* What is on the stack from the i-th call on, but before the next call.
Under(ix, fr, i, x) == ix[fr[i].group] <= ix[x] /\ (i < Len(fr) => ix[x] < ix[fr[i + 1].group])

\* The low number of a call is the number of a group on the stack that it leads to, and
\* the least of those that what was visited under it uses, as far as was looked.
Lowness(ix, lw, st, fr) ==
    /\ lw \in [Groups -> Int]
    /\ \A i \in 1 .. Len(fr) :
          /\ lw[fr[i].group] <= ix[fr[i].group]
          /\ \E z \in ToSet(st) : ix[z] = lw[fr[i].group] /\ LeadsTo(fr[i].group, z)
    /\ \A i \in 1 .. Len(fr), x \in ToSet(st) : Under(ix, fr, i, x) =>
          \A y \in Used(x) \cap ToSet(st) :
             lw[fr[i].group] <= ix[y] \/ (x = fr[i].group /\ y \in fr[i].left)

\* What was visited and left the stack uses nothing else, and its cycles are what is found.
Finished(ix, st, cs) ==
    /\ \A x \in Vis(ix) \ ToSet(st) : Used(x) \subseteq Vis(ix) \ ToSet(st)
    /\ cs = {s \in {Cycle(x) : x \in Vis(ix) \ ToSet(st)} : Cardinality(s) > 1}

IsTarjan(ix, lw, st, fr, cs) ==
    Numbering(ix, st, fr) /\ Linking(ix, st, fr) /\ Lowness(ix, lw, st, fr) /\ Finished(ix, st, cs)

SccInv == /\ graph \in Graphs /\ groupOf \in Groupings
          /\ IsTarjan(index, low, stack, frames, comps)

\* What leads to what: a group to itself and to what it uses, and on from there.
LEMMA LeadsOn ==
    /\ \A x \in Groups : LeadsTo(x, x)
    /\ \A x, y \in Groups : Uses(x, y) => LeadsTo(x, y)
    /\ \A x, y, z \in Groups : LeadsTo(x, y) /\ LeadsTo(y, z) => LeadsTo(x, z)
<1>1. \A x \in Groups : LeadsTo(x, x)
  BY DEF LeadsTo
<1>2. \A x, y \in Groups : Uses(x, y) => LeadsTo(x, y)
  BY DEF LeadsTo
<1>3. \A x, y, z \in Groups : LeadsTo(x, y) /\ LeadsTo(y, z) => LeadsTo(x, z)
  BY DEF LeadsTo
<1> QED
  BY <1>1, <1>2, <1>3

\* The groups on a stack when one more is put on it.
LEMMA OneMoreOn ==
    ASSUME NEW st \in Seq(Groups), NEW v \in Groups
    PROVE  /\ ToSet(Append(st, v)) = ToSet(st) \cup {v} /\ Append(st, v) \in Seq(Groups)
           /\ Len(Append(st, v)) = Len(st) + 1 /\ Len(st) \in Nat
           /\ \A i \in 1 .. Len(st) + 1 : Append(st, v)[i] = IF i = Len(st) + 1 THEN v ELSE st[i]
<1> DEFINE s == Append(st, v)
<1>1. /\ s \in Seq(Groups) /\ Len(s) = Len(st) + 1 /\ Len(st) \in Nat
      /\ \A i \in 1 .. Len(st) + 1 : s[i] = IF i = Len(st) + 1 THEN v ELSE st[i]
  OBVIOUS
<1> HIDE DEF s
<1>2. ToSet(s) = {s[i] : i \in 1 .. Len(st) + 1} /\ ToSet(st) = {st[i] : i \in 1 .. Len(st)}
  BY <1>1 DEF ToSet
<1>3. ToSet(s) \subseteq ToSet(st) \cup {v}
  BY <1>1, <1>2
<1>4. v \in ToSet(s)
  BY <1>1, <1>2
<1>5. ASSUME NEW i \in 1 .. Len(st) PROVE st[i] \in ToSet(s)
  <2>1. i \in 1 .. Len(st) + 1 /\ i # Len(st) + 1
    BY <1>1
  <2> QED
    BY <1>1, <1>2, <2>1
<1> QED
  BY <1>1, <1>2, <1>3, <1>4, <1>5 DEF s

\* What Numbering says, taken apart.
LEMMA NumberingIs ==
    ASSUME NEW ix, NEW st, NEW fr, Numbering(ix, st, fr)
    PROVE  /\ IsFiniteSet(Vis(ix)) /\ Cardinality(Vis(ix)) \in Nat
           /\ ToSet(st) \subseteq Vis(ix) /\ Vis(ix) \subseteq Groups /\ Vis(ix) \subseteq Vertices
           /\ \A x \in Vis(ix) : ix[x] \in Nat /\ ix[x] < Cardinality(Vis(ix))
           /\ \A x, y \in Vis(ix) : ix[x] = ix[y] => x = y
           /\ Len(fr) \in Nat /\ (fr = <<>> <=> Len(fr) = 0)
           /\ \A i \in 1 .. Len(fr) : /\ fr[i].group \in ToSet(st)
                                      /\ fr[i].left \subseteq Used(fr[i].group)
           /\ \A i, j \in 1 .. Len(fr) : i < j => ix[fr[i].group] < ix[fr[j].group]
           /\ \A i, j \in 1 .. Len(fr) : fr[i].group = fr[j].group => i = j
           /\ \A i \in 1 .. Len(fr) : ix[fr[i].group] <= ix[fr[Len(fr)].group]
<1>1. /\ ix \in [Groups -> Nat \cup {Unvisited}]
      /\ \A x \in Vis(ix) : x \in Vertices /\ ix[x] < Cardinality(Vis(ix))
      /\ \A x, y \in Vis(ix) : ix[x] = ix[y] => x = y
      /\ st \in Seq(Groups) /\ \A i \in 1 .. Len(st) : st[i] \in Vis(ix)
      /\ fr \in Seq(ConnectCall)
      /\ \A i \in 1 .. Len(fr) : fr[i].group \in ToSet(st) /\ fr[i].left \subseteq Used(fr[i].group)
      /\ \A i, j \in 1 .. Len(fr) : i < j => ix[fr[i].group] < ix[fr[j].group]
  BY DEF Numbering
<1>2. Vis(ix) \subseteq Groups /\ IsFiniteSet(Vis(ix)) /\ Cardinality(Vis(ix)) \in Nat
  <2>1. Vis(ix) \subseteq Groups
    BY DEF Vis
  <2> QED
    BY <2>1, ComponentsAssumption, FS_Subset, FS_CardinalityType
<1>3. \A x \in Vis(ix) : ix[x] \in Nat
  BY <1>1 DEF Vis
<1>4. ToSet(st) \subseteq Vis(ix)
  BY <1>1 DEF ToSet
<1>5. Len(fr) \in Nat /\ (fr = <<>> <=> Len(fr) = 0)
  BY <1>1
<1>6. \A i \in 1 .. Len(fr) : ix[fr[i].group] \in Nat
  BY <1>1, <1>3, <1>4
<1>7. \A i, j \in 1 .. Len(fr) : fr[i].group = fr[j].group => i = j
  <2> SUFFICES ASSUME NEW i \in 1 .. Len(fr), NEW j \in 1 .. Len(fr), fr[i].group = fr[j].group, i # j
               PROVE  FALSE
    OBVIOUS
  <2>1. i < j \/ j < i
    BY <1>5
  <2>2. ix[fr[i].group] < ix[fr[i].group]
    BY <1>1, <2>1
  <2> QED
    BY <1>6, <2>2
<1>8. \A i \in 1 .. Len(fr) : ix[fr[i].group] <= ix[fr[Len(fr)].group]
  <2> SUFFICES ASSUME NEW i \in 1 .. Len(fr) PROVE ix[fr[i].group] <= ix[fr[Len(fr)].group]
    OBVIOUS
  <2>1. Len(fr) \in 1 .. Len(fr) /\ (i = Len(fr) \/ i < Len(fr))
    BY <1>5
  <2>2. ix[fr[i].group] = ix[fr[Len(fr)].group] \/ ix[fr[i].group] < ix[fr[Len(fr)].group]
    BY <1>1, <2>1
  <2> QED
    BY <1>6, <2>1, <2>2
<1> QED
  BY <1>1, <1>2, <1>3, <1>4, <1>5, <1>7, <1>8

\* A call that is not under way has nothing on the stack: with no calls the stack is empty.
LEMMA NoCallsNoStack ==
    ASSUME NEW ix, NEW st, Linking(ix, st, <<>>)
    PROVE  ToSet(st) = {}
BY DEF Linking

\* All on the stack leads to the call on top, if it is numbered no higher.
LEMMA LeadsToTop ==
    ASSUME NEW ix, NEW st, NEW fr, Numbering(ix, st, fr), Linking(ix, st, fr),
           fr # <<>>, NEW x \in ToSet(st)
    PROVE  LeadsTo(x, fr[Len(fr)].group)
<1>1. PICK i \in 1 .. Len(fr) : LeadsTo(x, fr[i].group)
  BY DEF Linking
<1>2. /\ ToSet(st) \subseteq Groups /\ Len(fr) \in 1 .. Len(fr)
      /\ fr[i].group \in ToSet(st) /\ fr[Len(fr)].group \in ToSet(st)
      /\ ix[fr[i].group] <= ix[fr[Len(fr)].group]
  BY NumberingIs
<1>3. LeadsTo(fr[i].group, fr[Len(fr)].group)
  BY <1>2 DEF Linking
<1> QED
  BY <1>1, <1>2, <1>3, LeadsOn

\* Calls nr are calls fr, but that w need not be looked at any more on top.
Looked(fr, nr, w) ==
    /\ nr \in Seq(ConnectCall) /\ Len(nr) = Len(fr)
    /\ \A i \in 1 .. Len(fr) : nr[i].group = fr[i].group /\ nr[i].left \subseteq fr[i].left
    /\ \A i \in 1 .. Len(fr) : \A y \in fr[i].left \ nr[i].left : i = Len(fr) /\ y = w
    /\ fr # <<>> => w \in Used(fr[Len(fr)].group)

\* The call connect(v) of a group not visited, by the call on top or by no call.
LEMMA ConnectStep ==
    ASSUME NEW ix, NEW lw, NEW st, NEW fr, NEW cs, IsTarjan(ix, lw, st, fr, cs),
           NEW v \in Vertices, ix[v] = Unvisited, NEW nr, Looked(fr, nr, v)
    PROVE  LET n == Cardinality(Vis(ix))
           IN  IsTarjan([ix EXCEPT ![v] = n], [lw EXCEPT ![v] = n], Append(st, v),
                        Append(nr, [group |-> v, left |-> Used(v)]), cs)
<1> DEFINE n == Cardinality(Vis(ix))
           jx == [ix EXCEPT ![v] = n]
           mw == [lw EXCEPT ![v] = n]
           su == Append(st, v)
           call == [group |-> v, left |-> Used(v)]
           gr == Append(nr, call)
           top == Len(fr) + 1
<1>1. /\ Numbering(ix, st, fr) /\ Linking(ix, st, fr)
      /\ Lowness(ix, lw, st, fr) /\ Finished(ix, st, cs)
  BY DEF IsTarjan
<1>2. /\ IsFiniteSet(Vis(ix)) /\ n \in Nat
      /\ ToSet(st) \subseteq Vis(ix) /\ Vis(ix) \subseteq Groups /\ Vis(ix) \subseteq Vertices
      /\ \A x \in Vis(ix) : ix[x] \in Nat /\ ix[x] < n
      /\ \A x, y \in Vis(ix) : ix[x] = ix[y] => x = y
      /\ Len(fr) \in Nat /\ (fr = <<>> <=> Len(fr) = 0)
      /\ \A i \in 1 .. Len(fr) : /\ fr[i].group \in ToSet(st)
                                 /\ fr[i].left \subseteq Used(fr[i].group)
      /\ \A i, j \in 1 .. Len(fr) : i < j => ix[fr[i].group] < ix[fr[j].group]
  BY <1>1, NumberingIs
<1>3. v \in Groups /\ v \notin Vis(ix) /\ ix \in [Groups -> Nat \cup {Unvisited}]
  BY <1>1 DEF Vis, Vertices, Numbering
<1>4. /\ jx \in [Groups -> Nat \cup {Unvisited}] /\ jx[v] = n
      /\ \A x \in Groups : x # v => jx[x] = ix[x]
      /\ \A x \in Vis(ix) : jx[x] = ix[x]
  BY <1>2, <1>3
<1>5. /\ mw \in [Groups -> Int] /\ mw[v] = n /\ \A x \in Vis(ix) : mw[x] = lw[x]
      /\ lw \in [Groups -> Int]
  <2>1. lw \in [Groups -> Int]
    BY <1>1 DEF Lowness
  <2> QED
    BY <1>2, <1>3, <2>1
<1> HIDE DEF jx, mw
<1>6. Vis(jx) = Vis(ix) \cup {v}
  <2>1. n # Unvisited
    BY <1>2 DEF Unvisited
  <2> QED
    BY <1>3, <1>4, <2>1 DEF Vis
<1>7. Cardinality(Vis(jx)) = n + 1
  <2>1. Cardinality(Vis(ix) \cup {v}) = Cardinality(Vis(ix)) + 1
    BY <1>2, <1>3, FS_AddElement
  <2> QED
    BY <1>6, <2>1
<1> HIDE DEF n
<1>8. /\ ToSet(su) = ToSet(st) \cup {v} /\ su \in Seq(Groups)
      /\ Len(su) = Len(st) + 1 /\ Len(st) \in Nat
      /\ \A i \in 1 .. Len(st) + 1 : su[i] = IF i = Len(st) + 1 THEN v ELSE st[i]
  <2>1. st \in Seq(Groups)
    BY <1>1 DEF Numbering
  <2> QED
    BY <1>3, <2>1, OneMoreOn
<1>9. /\ gr \in Seq(ConnectCall) /\ Len(gr) = top
      /\ \A i \in 1 .. Len(fr) : /\ gr[i].group = fr[i].group /\ gr[i].left \subseteq fr[i].left
                                 /\ \A y \in fr[i].left \ gr[i].left : i = Len(fr) /\ y = v
      /\ gr[top].group = v /\ gr[top].left = Used(v)
  <2>1. call \in ConnectCall /\ call.group = v /\ call.left = Used(v)
    BY <1>3 DEF ConnectCall, Used
  <2>2. nr \in Seq(ConnectCall) /\ Len(nr) = Len(fr)
    BY DEF Looked
  <2> HIDE DEF call
  <2>3. /\ gr \in Seq(ConnectCall) /\ Len(gr) = top
        /\ \A i \in 1 .. Len(fr) : gr[i] = nr[i]
        /\ gr[top] = call
    BY <1>2, <2>1, <2>2
  <2> QED
    BY <2>1, <2>3 DEF Looked
<1> HIDE DEF su, gr
<1>t. /\ top \in Nat \ {0} /\ Len(fr) = top - 1 /\ \A i \in 1 .. top : i = top \/ i \in 1 .. Len(fr)
      /\ \A i \in 1 .. Len(fr) : i \in 1 .. top /\ i < top /\ i # top
  BY <1>2
<1>u. \A i \in 1 .. Len(fr) : /\ fr[i].group \in Vis(ix) /\ jx[fr[i].group] = ix[fr[i].group]
                              /\ mw[fr[i].group] = lw[fr[i].group] /\ ix[fr[i].group] \in Nat
                              /\ ix[fr[i].group] < n
  BY <1>2, <1>4, <1>5
<1>v. \A x \in ToSet(st) : jx[x] = ix[x] /\ ix[x] \in Nat /\ ix[x] < n /\ x \in Groups
  BY <1>2, <1>4
<1>w. n \in Nat
  BY <1>2
<1> HIDE DEF top
<1>10. Numbering(jx, su, gr)
  <2>1. \A x \in Vis(jx) : x \in Vertices /\ jx[x] < Cardinality(Vis(jx))
    BY <1>2, <1>4, <1>6, <1>7, <1>w
  <2>2. \A x, y \in Vis(jx) : jx[x] = jx[y] => x = y
    BY <1>2, <1>4, <1>6
  <2>3. \A i \in 1 .. Len(su) : su[i] \in Vis(jx)
    BY <1>1, <1>6, <1>8 DEF Numbering
  <2>4. \A i, j \in 1 .. Len(su) : i < j => jx[su[i]] < jx[su[j]]
    <3> SUFFICES ASSUME NEW i \in 1 .. Len(su), NEW j \in 1 .. Len(su), i < j
                 PROVE  jx[su[i]] < jx[su[j]]
      OBVIOUS
    <3>1. i \in 1 .. Len(st) /\ su[i] = st[i] /\ st[i] \in Vis(ix)
      BY <1>1, <1>8 DEF Numbering
    <3>2. CASE j = Len(st) + 1
      BY <1>2, <1>4, <1>8, <3>1, <3>2
    <3>3. CASE j # Len(st) + 1
      <4>1. j \in 1 .. Len(st) /\ su[j] = st[j] /\ st[j] \in Vis(ix) /\ ix[st[i]] < ix[st[j]]
        BY <1>1, <1>8, <3>1, <3>3 DEF Numbering
      <4> QED
        BY <1>4, <3>1, <4>1
    <3> QED
      BY <3>2, <3>3
  <2>5. \A i \in 1 .. top : gr[i].group \in ToSet(su) /\ gr[i].left \subseteq Used(gr[i].group)
    BY <1>2, <1>8, <1>9, <1>t
  <2>6. \A i, j \in 1 .. top : i < j => jx[gr[i].group] < jx[gr[j].group]
    <3> SUFFICES ASSUME NEW i \in 1 .. top, NEW j \in 1 .. top, i < j
                 PROVE  jx[gr[i].group] < jx[gr[j].group]
      OBVIOUS
    <3>1. i \in 1 .. Len(fr) /\ gr[i].group = fr[i].group
      BY <1>9, <1>t
    <3>2. CASE j = top
      BY <1>4, <1>9, <1>u, <3>1, <3>2
    <3>3. CASE j # top
      <4>1. j \in 1 .. Len(fr) /\ gr[j].group = fr[j].group
        BY <1>9, <1>t, <3>3
      <4>2. ix[fr[i].group] < ix[fr[j].group]
        BY <1>2, <3>1, <4>1
      <4> QED
        BY <1>u, <3>1, <4>1, <4>2
    <3> QED
      BY <3>2, <3>3
  <2> QED
    BY <1>4, <1>8, <1>9, <2>1, <2>2, <2>3, <2>4, <2>5, <2>6 DEF Numbering
<1>11. Linking(jx, su, gr)
  <2>1. ASSUME NEW x \in ToSet(su), NEW y \in ToSet(su), jx[x] <= jx[y] PROVE LeadsTo(x, y)
    <3>1. CASE x \in ToSet(st) /\ y \in ToSet(st)
      BY <1>1, <1>v, <2>1, <3>1 DEF Linking
    <3>2. CASE x \in ToSet(st) /\ y = v
      <4>1. fr # <<>>
        BY <1>1, <3>2, NoCallsNoStack
      <4>2. LeadsTo(x, fr[Len(fr)].group)
        BY <1>1, <3>2, <4>1, LeadsToTop
      <4>3. v \in Used(fr[Len(fr)].group) /\ fr[Len(fr)].group \in Groups
        BY <1>2, <4>1 DEF Looked
      <4> QED
        BY <1>3, <1>v, <3>2, <4>2, <4>3, LeadsOn DEF Used
    <3>3. CASE x = v /\ y \in ToSet(st)
      BY <1>4, <1>v, <1>w, <2>1, <3>3
    <3>4. CASE x = v /\ y = v
      BY <1>3, <3>4, LeadsOn
    <3> QED
      BY <1>8, <3>1, <3>2, <3>3, <3>4
  <2>2. ASSUME NEW y \in ToSet(su)
        PROVE  \E i \in 1 .. top : jx[gr[i].group] <= jx[y] /\ LeadsTo(y, gr[i].group)
    <3>1. CASE y \in ToSet(st)
      <4>1. PICK i \in 1 .. Len(fr) : ix[fr[i].group] <= ix[y] /\ LeadsTo(y, fr[i].group)
        BY <1>1, <3>1 DEF Linking
      <4>2. i \in 1 .. top /\ gr[i].group = fr[i].group /\ jx[fr[i].group] = ix[fr[i].group]
        BY <1>9, <1>t, <1>u
      <4> QED
        BY <1>v, <3>1, <4>1, <4>2
    <3>2. CASE y = v
      <4>1. top \in 1 .. top /\ jx[v] <= jx[v] /\ LeadsTo(v, v)
        BY <1>3, <1>4, <1>t, <1>w, LeadsOn
      <4> QED
        BY <1>9, <3>2, <4>1
    <3> QED
      BY <1>8, <3>1, <3>2
  <2>3. ASSUME NEW x \in ToSet(su), NEW y \in Used(x)
        PROVE  y \in Vis(jx) \/ \E i \in 1 .. top : gr[i].group = x /\ y \in gr[i].left
    <3>1. CASE x \in ToSet(st)
      <4>1. y \in Vis(ix) \/ \E i \in 1 .. Len(fr) : fr[i].group = x /\ y \in fr[i].left
        BY <1>1, <3>1 DEF Linking
      <4>2. ASSUME NEW i \in 1 .. Len(fr), fr[i].group = x, y \in fr[i].left, y # v
            PROVE  i \in 1 .. top /\ gr[i].group = x /\ y \in gr[i].left
        BY <1>9, <1>t, <4>2
      <4> QED
        BY <1>6, <4>1, <4>2
    <3>2. CASE x = v
      BY <1>9, <1>t, <3>2
    <3> QED
      BY <1>8, <3>1, <3>2
  <2> QED
    BY <1>9, <2>1, <2>2, <2>3 DEF Linking
<1>12. Lowness(jx, mw, su, gr)
  <2>1. ASSUME NEW i \in 1 .. top
        PROVE  /\ mw[gr[i].group] <= jx[gr[i].group]
               /\ \E z \in ToSet(su) : jx[z] = mw[gr[i].group] /\ LeadsTo(gr[i].group, z)
    <3>1. CASE i = top
      <4>1. v \in ToSet(su) /\ LeadsTo(v, v)
        BY <1>3, <1>8, LeadsOn
      <4>2. mw[v] <= jx[v] /\ jx[v] = mw[v]
        BY <1>4, <1>5, <1>w
      <4>3. gr[i].group = v
        BY <1>9, <3>1
      <4> QED
        BY <4>1, <4>2, <4>3
    <3>2. CASE i # top
      <4>1. /\ i \in 1 .. Len(fr) /\ gr[i].group = fr[i].group
            /\ mw[fr[i].group] = lw[fr[i].group] /\ jx[fr[i].group] = ix[fr[i].group]
        BY <1>9, <1>t, <1>u, <3>2
      <4>2. /\ lw[fr[i].group] <= ix[fr[i].group]
            /\ \E z \in ToSet(st) : ix[z] = lw[fr[i].group] /\ LeadsTo(fr[i].group, z)
        BY <1>1, <4>1 DEF Lowness
      <4> QED
        BY <1>8, <1>v, <4>1, <4>2
    <3> QED
      BY <3>1, <3>2
  <2>2. ASSUME NEW i \in 1 .. top, NEW x \in ToSet(su), Under(jx, gr, i, x),
               NEW y \in Used(x) \cap ToSet(su)
        PROVE  mw[gr[i].group] <= jx[y] \/ (x = gr[i].group /\ y \in gr[i].left)
    <3>0. jx[gr[i].group] <= jx[x] /\ (i < top => jx[x] < jx[gr[i + 1].group])
      BY <1>9, <2>2 DEF Under
    <3>1. CASE i = top
      <4>1. x = v
        BY <1>4, <1>8, <1>9, <1>v, <1>w, <3>0, <3>1
      <4> QED
        BY <1>9, <3>1, <4>1
    <3>2. CASE i # top
      <4>1. /\ i \in 1 .. Len(fr) /\ gr[i].group = fr[i].group
            /\ mw[fr[i].group] = lw[fr[i].group] /\ jx[fr[i].group] = ix[fr[i].group]
            /\ ix[fr[i].group] < n /\ lw[fr[i].group] <= ix[fr[i].group]
        BY <1>1, <1>9, <1>t, <1>u, <3>2 DEF Lowness
      <4>2. x \in ToSet(st)
        <5>1. CASE i = Len(fr)
          <6>1. i + 1 = top /\ i < top
            BY <1>t, <5>1
          <6>2. jx[x] < n
            BY <1>4, <1>9, <3>0, <6>1
          <6> QED
            BY <1>4, <1>8, <1>w, <6>2
        <5>2. CASE i # Len(fr)
          <6>1. i + 1 \in 1 .. Len(fr) /\ i < top
            BY <1>t, <4>1, <5>2
          <6>2. gr[i + 1].group = fr[i + 1].group
            BY <1>9, <6>1
          <6>3. jx[x] < ix[fr[i + 1].group] /\ ix[fr[i + 1].group] < n /\ ix[fr[i + 1].group] \in Nat
            BY <1>u, <3>0, <6>1, <6>2
          <6> QED
            BY <1>4, <1>8, <1>w, <6>3
        <5> QED
          BY <5>1, <5>2
      <4>3. Under(ix, fr, i, x)
        <5>1. ix[fr[i].group] <= ix[x]
          BY <1>v, <3>0, <4>1, <4>2
        <5>2. ASSUME i < Len(fr) PROVE ix[x] < ix[fr[i + 1].group]
          <6>1. i + 1 \in 1 .. Len(fr) /\ i < top
            BY <1>t, <4>1, <5>2
          <6>2. gr[i + 1].group = fr[i + 1].group
            BY <1>9, <6>1
          <6> QED
            BY <1>u, <1>v, <3>0, <4>2, <6>1, <6>2
        <5> QED
          BY <5>1, <5>2 DEF Under
      <4>4. CASE y \in ToSet(st)
        <5>1. lw[fr[i].group] <= ix[y] \/ (x = fr[i].group /\ y \in fr[i].left)
          BY <1>1, <4>1, <4>2, <4>3, <4>4 DEF Lowness
        <5>2. y # v /\ jx[y] = ix[y]
          BY <1>2, <1>3, <1>v, <4>4
        <5> QED
          BY <1>9, <4>1, <5>1, <5>2
      <4>5. CASE y = v
        <5>1. lw[fr[i].group] \in Int /\ ix[fr[i].group] \in Nat
          BY <1>2, <1>5, <1>u, <4>1
        <5> QED
          BY <1>4, <1>w, <4>1, <4>5, <5>1
      <4> QED
        BY <1>8, <4>4, <4>5
    <3> QED
      BY <3>1, <3>2
  <2> QED
    BY <1>5, <1>9, <2>1, <2>2 DEF Lowness
<1>13. Finished(jx, su, cs)
  <2>1. Vis(jx) \ ToSet(su) = Vis(ix) \ ToSet(st)
    BY <1>3, <1>6, <1>8
  <2> QED
    BY <1>1, <2>1 DEF Finished
<1>14. IsTarjan(jx, mw, su, gr, cs)
  BY <1>10, <1>11, <1>12, <1>13 DEF IsTarjan
<1> QED
  BY <1>14 DEF jx, mw, su, gr, n

\* A neighbour w of the group on top that was visited: it counts if it is on the stack.
LEMMA VisitedStep ==
    ASSUME NEW ix, NEW lw, NEW st, NEW fr, NEW cs, IsTarjan(ix, lw, st, fr, cs),
           fr # <<>>, NEW w \in Vis(ix), NEW nr, Looked(fr, nr, w),
           NEW mw, mw = IF w \in ToSet(st)
                        THEN [lw EXCEPT ![fr[Len(fr)].group] = IF ix[w] < @ THEN ix[w] ELSE @]
                        ELSE lw
    PROVE  IsTarjan(ix, mw, st, nr, cs)
<1> DEFINE top == Len(fr)
           g == fr[top].group
<1>1. /\ Numbering(ix, st, fr) /\ Linking(ix, st, fr)
      /\ Lowness(ix, lw, st, fr) /\ Finished(ix, st, cs)
  BY DEF IsTarjan
<1>2. /\ ToSet(st) \subseteq Vis(ix) /\ Vis(ix) \subseteq Groups
      /\ \A x \in Vis(ix) : ix[x] \in Nat
      /\ top \in Nat \ {0} /\ top \in 1 .. top
      /\ \A i \in 1 .. top : /\ fr[i].group \in ToSet(st)
                             /\ fr[i].left \subseteq Used(fr[i].group)
      /\ \A i, j \in 1 .. top : i < j => ix[fr[i].group] < ix[fr[j].group]
      /\ \A i, j \in 1 .. top : fr[i].group = fr[j].group => i = j
  BY <1>1, NumberingIs
<1>3. /\ nr \in Seq(ConnectCall) /\ Len(nr) = top
      /\ \A i \in 1 .. top : nr[i].group = fr[i].group /\ nr[i].left \subseteq fr[i].left
      /\ \A i \in 1 .. top : \A y \in fr[i].left \ nr[i].left : i = top /\ y = w
      /\ w \in Used(g)
  BY DEF Looked
<1>4. /\ lw \in [Groups -> Int] /\ g \in Groups /\ lw[g] \in Int /\ ix[w] \in Nat
      /\ \A x \in ToSet(st) : ix[x] \in Nat /\ x \in Groups
  BY <1>1, <1>2 DEF Lowness
<1>5. /\ mw \in [Groups -> Int] /\ \A x \in Groups : x # g => mw[x] = lw[x]
      /\ mw[g] = lw[g] \/ (w \in ToSet(st) /\ mw[g] = ix[w])
      /\ mw[g] <= lw[g] /\ (w \in ToSet(st) => mw[g] <= ix[w])
  <2>1. CASE w \in ToSet(st)
    <3> DEFINE k == IF ix[w] < lw[g] THEN ix[w] ELSE lw[g]
    <3>1. mw = [lw EXCEPT ![g] = k]
      BY <2>1
    <3>2. k \in Int /\ k \in {lw[g], ix[w]} /\ k <= lw[g] /\ k <= ix[w]
      BY <1>4
    <3> HIDE DEF g, k
    <3>3. mw \in [Groups -> Int] /\ mw[g] = k /\ \A x \in Groups : x # g => mw[x] = lw[x]
      BY <1>4, <3>1, <3>2
    <3> QED
      BY <2>1, <3>2, <3>3
  <2>2. CASE w \notin ToSet(st)
    BY <1>4, <2>2
  <2> QED
    BY <2>1, <2>2
<1>6. \A i \in 1 .. top : i # top => fr[i].group # g
  BY <1>2
<1>g. g = fr[top].group
  OBVIOUS
<1> HIDE DEF top, g
<1>7. Numbering(ix, st, nr)
  <2>1. /\ \A i \in 1 .. top : nr[i].group \in ToSet(st) /\ nr[i].left \subseteq Used(nr[i].group)
        /\ \A i, j \in 1 .. top : i < j => ix[nr[i].group] < ix[nr[j].group]
    BY <1>2, <1>3
  <2> QED
    BY <1>1, <1>3, <2>1 DEF Numbering
<1>8. Linking(ix, st, nr)
  <2>1. \A y \in ToSet(st) : \E i \in 1 .. top : ix[nr[i].group] <= ix[y] /\ LeadsTo(y, nr[i].group)
    BY <1>1, <1>3 DEF Linking, top
  <2>2. ASSUME NEW x \in ToSet(st), NEW y \in Used(x)
        PROVE  y \in Vis(ix) \/ \E i \in 1 .. top : nr[i].group = x /\ y \in nr[i].left
    <3>1. y \in Vis(ix) \/ \E i \in 1 .. top : fr[i].group = x /\ y \in fr[i].left
      BY <1>1 DEF Linking, top
    <3> QED
      BY <1>3, <3>1
  <2> QED
    BY <1>1, <1>3, <2>1, <2>2 DEF Linking
<1>9. Lowness(ix, mw, st, nr)
  <2>0. \A i \in 1 .. top :
          /\ lw[fr[i].group] <= ix[fr[i].group] /\ fr[i].group \in Groups
          /\ lw[fr[i].group] \in Int /\ ix[fr[i].group] \in Nat
          /\ \E z \in ToSet(st) : ix[z] = lw[fr[i].group] /\ LeadsTo(fr[i].group, z)
    BY <1>1, <1>2, <1>4 DEF Lowness, top
  <2>1. ASSUME NEW i \in 1 .. top
        PROVE  /\ mw[nr[i].group] <= ix[nr[i].group]
               /\ \E z \in ToSet(st) : ix[z] = mw[nr[i].group] /\ LeadsTo(nr[i].group, z)
    <3>0. nr[i].group = fr[i].group
      BY <1>3
    <3>1. CASE i = top
      <4>0. nr[i].group = g
        BY <1>g, <3>0, <3>1
      <4>1. mw[g] \in Int /\ mw[g] <= lw[g] /\ lw[g] <= ix[g] /\ ix[g] \in Nat
        BY <1>4, <1>5, <1>g, <2>0, <3>1
      <4>2. LeadsTo(g, w)
        BY <1>2, <1>3, <1>4, LeadsOn DEF Used
      <4>3. \E z \in ToSet(st) : ix[z] = mw[g] /\ LeadsTo(g, z)
        BY <1>5, <1>g, <2>0, <3>1, <4>2
      <4> QED
        BY <1>4, <4>0, <4>1, <4>3
    <3>2. CASE i # top
      <4>1. mw[nr[i].group] = lw[fr[i].group]
        BY <1>5, <1>6, <2>0, <3>0, <3>2
      <4> QED
        BY <2>0, <3>0, <4>1
    <3> QED
      BY <3>1, <3>2
  <2>2. ASSUME NEW i \in 1 .. top, NEW x \in ToSet(st), Under(ix, nr, i, x),
               NEW y \in Used(x) \cap ToSet(st)
        PROVE  mw[nr[i].group] <= ix[y] \/ (x = nr[i].group /\ y \in nr[i].left)
    <3>0. nr[i].group = fr[i].group
      BY <1>3
    <3>1. Under(ix, fr, i, x)
      <4>1. ASSUME i < top PROVE fr[i + 1].group = nr[i + 1].group
        <5>1. i + 1 \in 1 .. top
          BY <1>2, <4>1
        <5> QED
          BY <1>3, <5>1
      <4> QED
        BY <1>3, <2>2, <3>0, <4>1 DEF Under, top
    <3>2. lw[fr[i].group] <= ix[y] \/ (x = fr[i].group /\ y \in fr[i].left)
      BY <1>1, <3>1 DEF Lowness, top
    <3>3. mw[fr[i].group] <= lw[fr[i].group] /\ mw[fr[i].group] \in Int /\ lw[fr[i].group] \in Int
      <4>1. CASE i = top
        BY <1>4, <1>5, <1>g, <4>1
      <4>2. CASE i # top
        BY <1>5, <1>6, <2>0, <4>2
      <4> QED
        BY <4>1, <4>2
    <3>4. CASE lw[fr[i].group] <= ix[y]
      <4>1. ix[y] \in Nat
        BY <1>4
      <4> QED
        BY <3>0, <3>3, <3>4, <4>1
    <3>5. CASE x = fr[i].group /\ y \in fr[i].left
      <4>1. y \in nr[i].left \/ (i = top /\ y = w)
        BY <1>3, <3>5
      <4>2. CASE i = top /\ y = w
        BY <1>5, <1>g, <3>0, <4>2
      <4> QED
        BY <3>0, <3>5, <4>1, <4>2
    <3> QED
      BY <3>2, <3>4, <3>5
  <2> QED
    BY <1>3, <1>5, <2>1, <2>2 DEF Lowness
<1> QED
  BY <1>1, <1>7, <1>8, <1>9 DEF IsTarjan

\* The low numbers with that of the caller lowered to that of the call on top.
PassedOn(lw, fr) ==
    [lw EXCEPT ![fr[Len(fr) - 1].group] = IF lw[fr[Len(fr)].group] < @ THEN lw[fr[Len(fr)].group] ELSE @]

\* The end of a call that leads to something lower: its caller goes on for it.
LEMMA ReturnStep ==
    ASSUME NEW ix, NEW lw, NEW st, NEW fr, NEW cs, IsTarjan(ix, lw, st, fr, cs),
           fr # <<>>, fr[Len(fr)].left = {}, lw[fr[Len(fr)].group] # ix[fr[Len(fr)].group]
    PROVE  Len(fr) > 1 /\ IsTarjan(ix, PassedOn(lw, fr), st, Front(fr), cs)
<1> DEFINE top == Len(fr)
           v == fr[top].group
           u == fr[top - 1].group
           k == IF lw[v] < lw[u] THEN lw[v] ELSE lw[u]
           mw == [lw EXCEPT ![u] = k]
           nr == Front(fr)
<1>1. /\ Numbering(ix, st, fr) /\ Linking(ix, st, fr)
      /\ Lowness(ix, lw, st, fr) /\ Finished(ix, st, cs)
  BY DEF IsTarjan
<1>2. /\ ToSet(st) \subseteq Vis(ix) /\ Vis(ix) \subseteq Groups
      /\ \A x \in Vis(ix) : ix[x] \in Nat
      /\ top \in Nat \ {0} /\ top \in 1 .. top
      /\ \A i \in 1 .. top : /\ fr[i].group \in ToSet(st)
                             /\ fr[i].left \subseteq Used(fr[i].group)
      /\ \A i, j \in 1 .. top : i < j => ix[fr[i].group] < ix[fr[j].group]
      /\ \A i, j \in 1 .. top : fr[i].group = fr[j].group => i = j
  BY <1>1, NumberingIs
<1>3. /\ nr \in Seq(ConnectCall) /\ Len(nr) = top - 1
      /\ \A i \in 1 .. top - 1 : nr[i] = fr[i]
  <2>1. fr \in Seq(ConnectCall) /\ fr # <<>>
    BY <1>1 DEF Numbering
  <2> QED
    BY <2>1, FrontIs
<1>4. \A x \in ToSet(st) : ix[x] \in Nat /\ x \in Groups
  BY <1>2
<1>5. \A i \in 1 .. top : /\ lw[fr[i].group] <= ix[fr[i].group] /\ fr[i].group \in Groups
                          /\ lw[fr[i].group] \in Int /\ ix[fr[i].group] \in Nat
                          /\ \E z \in ToSet(st) : ix[z] = lw[fr[i].group] /\ LeadsTo(fr[i].group, z)
  BY <1>1, <1>2, <1>4 DEF Lowness
<1>6. lw \in [Groups -> Int]
  BY <1>1 DEF Lowness
<1>v. v = fr[top].group /\ v \in ToSet(st) /\ v \in Groups /\ fr[top].left = {} /\ lw[v] < ix[v]
  BY <1>2, <1>5
<1>7. PICK z \in ToSet(st) : ix[z] = lw[v] /\ LeadsTo(v, z)
  BY <1>2, <1>5
<1>8. PICK j \in 1 .. top : ix[fr[j].group] <= ix[z] /\ LeadsTo(z, fr[j].group)
  BY <1>1 DEF Linking
<1> HIDE DEF v
<1>9. j # top /\ top - 1 \in 1 .. top /\ j \in 1 .. top - 1
  <2>1. j # top
    BY <1>2, <1>4, <1>5, <1>7, <1>8, <1>v
  <2> QED
    BY <1>2, <2>1
<1>u. /\ u = fr[top - 1].group /\ u \in ToSet(st) /\ u \in Groups
      /\ lw[u] \in Int /\ lw[v] \in Int /\ ix[u] < ix[v]
  BY <1>2, <1>5, <1>9, <1>v
<1> HIDE DEF u
<1>k. k \in Int /\ k \in {lw[u], lw[v]} /\ k <= lw[u] /\ k <= lw[v]
  BY <1>u
<1> HIDE DEF k
<1>10. mw \in [Groups -> Int] /\ mw[u] = k /\ \A x \in Groups : x # u => mw[x] = lw[x]
  BY <1>6, <1>k, <1>u
<1> HIDE DEF mw, nr
<1>t. /\ Len(fr) = top /\ \A i \in 1 .. top - 1 : i \in 1 .. top /\ i # top
      /\ \A i \in 1 .. top : i = top \/ i \in 1 .. top - 1
  BY <1>2
<1> HIDE DEF top
<1>11. Numbering(ix, st, nr)
  <2>1. /\ \A i \in 1 .. top - 1 : nr[i].group \in ToSet(st) /\ nr[i].left \subseteq Used(nr[i].group)
        /\ \A i, l \in 1 .. top - 1 : i < l => ix[nr[i].group] < ix[nr[l].group]
    BY <1>2, <1>3, <1>t
  <2> QED
    BY <1>1, <1>3, <2>1 DEF Numbering
<1>12. Linking(ix, st, nr)
  <2>1. ASSUME NEW y \in ToSet(st)
        PROVE  \E i \in 1 .. top - 1 : ix[nr[i].group] <= ix[y] /\ LeadsTo(y, nr[i].group)
    <3>1. PICK i \in 1 .. top : ix[fr[i].group] <= ix[y] /\ LeadsTo(y, fr[i].group)
      BY <1>1, <1>t DEF Linking
    <3>2. CASE i # top
      BY <1>3, <1>t, <3>1, <3>2
    <3>3. CASE i = top
      <4>1. ix[fr[j].group] \in Nat /\ ix[z] \in Nat /\ ix[y] \in Nat /\ ix[v] \in Nat
        BY <1>4, <1>5, <1>9, <1>t, <1>v
      <4>2. ix[v] <= ix[y]
        BY <1>v, <3>1, <3>3
      <4>3. ix[fr[j].group] <= ix[y]
        BY <1>7, <1>8, <1>v, <4>1, <4>2
      <4>4. LeadsTo(y, v) /\ LeadsTo(v, z) /\ LeadsTo(z, fr[j].group)
        BY <1>7, <1>8, <1>v, <3>1, <3>3
      <4>5. LeadsTo(y, z)
        BY <1>4, <1>v, <4>4, LeadsOn
      <4>6. LeadsTo(y, fr[j].group)
        BY <1>4, <1>5, <4>4, <4>5, LeadsOn
      <4> QED
        BY <1>3, <1>9, <4>3, <4>6
    <3> QED
      BY <3>2, <3>3
  <2>2. ASSUME NEW x \in ToSet(st), NEW y \in Used(x)
        PROVE  y \in Vis(ix) \/ \E i \in 1 .. top - 1 : nr[i].group = x /\ y \in nr[i].left
    <3>1. y \in Vis(ix) \/ \E i \in 1 .. top : fr[i].group = x /\ y \in fr[i].left
      BY <1>1, <1>t DEF Linking
    <3> QED
      BY <1>3, <1>t, <1>v, <3>1
  <2> QED
    BY <1>1, <1>3, <2>1, <2>2 DEF Linking
<1>13. Lowness(ix, mw, st, nr)
  <2>1. ASSUME NEW i \in 1 .. top - 1
        PROVE  /\ mw[fr[i].group] <= ix[fr[i].group] /\ mw[fr[i].group] <= lw[fr[i].group]
               /\ mw[fr[i].group] \in Int
               /\ \E y \in ToSet(st) : ix[y] = mw[fr[i].group] /\ LeadsTo(fr[i].group, y)
    <3>0. /\ lw[fr[i].group] <= ix[fr[i].group] /\ fr[i].group \in Groups
          /\ lw[fr[i].group] \in Int /\ ix[fr[i].group] \in Nat
          /\ \E y \in ToSet(st) : ix[y] = lw[fr[i].group] /\ LeadsTo(fr[i].group, y)
      BY <1>5, <1>t
    <3>1. CASE fr[i].group = u
      <4>1. LeadsTo(u, v)
        <5>1. ix[u] <= ix[v]
          BY <1>4, <1>u, <1>v
        <5> QED
          BY <1>1, <1>u, <1>v, <5>1 DEF Linking
      <4>2. LeadsTo(u, z)
        BY <1>4, <1>7, <1>u, <1>v, <4>1, LeadsOn
      <4>3. \E y \in ToSet(st) : ix[y] = k /\ LeadsTo(u, y)
        BY <1>7, <1>k, <3>0, <3>1, <4>2
      <4> QED
        BY <1>10, <1>k, <3>0, <3>1, <4>3
    <3>2. CASE fr[i].group # u
      <4>1. mw[fr[i].group] = lw[fr[i].group]
        BY <1>10, <3>0, <3>2
      <4> QED
        BY <3>0, <4>1
    <3> QED
      BY <3>1, <3>2
  <2>2. ASSUME NEW i \in 1 .. top - 1, NEW x \in ToSet(st), Under(ix, nr, i, x),
               NEW y \in Used(x) \cap ToSet(st)
        PROVE  mw[fr[i].group] <= ix[y] \/ (x = fr[i].group /\ y \in fr[i].left)
    <3>1. ix[fr[i].group] <= ix[x] /\ (i < top - 1 => ix[x] < ix[fr[i + 1].group])
      <4>1. ASSUME i < top - 1 PROVE i + 1 \in 1 .. top - 1
        BY <1>2, <4>1
      <4> QED
        BY <1>3, <2>2, <4>1 DEF Under
    <3>2. /\ ix[y] \in Nat /\ ix[x] \in Nat /\ ix[v] \in Nat /\ lw[fr[i].group] \in Int
          /\ mw[fr[i].group] \in Int /\ mw[fr[i].group] <= lw[fr[i].group]
      BY <1>4, <1>5, <1>t, <1>v, <2>1
    <3>3. CASE Under(ix, fr, i, x)
      <4>1. lw[fr[i].group] <= ix[y] \/ (x = fr[i].group /\ y \in fr[i].left)
        BY <1>1, <1>t, <3>3 DEF Lowness
      <4> QED
        BY <3>2, <4>1
    <3>4. CASE ~ Under(ix, fr, i, x)
      <4>1. i = top - 1 /\ ix[v] <= ix[x]
        <5>1. CASE i = top - 1
          <6>1. i + 1 = top
            BY <1>2, <5>1
          <6> QED
            BY <1>v, <3>1, <3>2, <3>4, <5>1, <6>1 DEF Under
        <5>2. CASE i # top - 1
          <6>1. i < top - 1
            BY <1>2, <5>2
          <6> QED
            BY <3>1, <3>4, <6>1 DEF Under
        <5> QED
          BY <5>1, <5>2
      <4>2. Under(ix, fr, top, x)
        BY <1>t, <1>v, <1>2, <4>1 DEF Under
      <4>3. lw[v] <= ix[y]
        BY <1>1, <1>2, <1>t, <1>v, <4>2 DEF Lowness
      <4>4. mw[fr[i].group] <= lw[v]
        BY <1>10, <1>k, <1>u, <4>1
      <4> QED
        BY <1>u, <3>2, <4>3, <4>4
    <3> QED
      BY <3>3, <3>4
  <2> QED
    BY <1>3, <1>10, <2>1, <2>2 DEF Lowness
<1>14. IsTarjan(ix, mw, st, nr, cs)
  BY <1>1, <1>11, <1>12, <1>13 DEF IsTarjan
<1>15. Len(fr) > 1
  BY <1>2, <1>9, <1>t
<1> QED
  BY <1>14, <1>15 DEF PassedOn, mw, nr, k, u, v, top

\* Where a group is on the stack, what is below it and what is on the stack from it on.
SpotOf(st, v) == CHOOSE i \in DOMAIN st : st[i] = v
Below(ix, st, v) == {x \in ToSet(st) : ix[x] < ix[v]}
FromOn(ix, st, v) == {x \in ToSet(st) : ix[v] <= ix[x]}

\* The stack below a group on it, and what it holds from this group on.
LEMMA CutAt ==
    ASSUME NEW ix, NEW st, NEW fr, Numbering(ix, st, fr), NEW v \in ToSet(st)
    PROVE  LET at == SpotOf(st, v)
               su == SubSeq(st, 1, at - 1)
           IN  /\ su \in Seq(Groups) /\ Len(su) \in Nat /\ Len(su) <= Len(st)
               /\ \A i \in 1 .. Len(su) : i \in 1 .. Len(st) /\ su[i] = st[i]
               /\ ToSet(su) = Below(ix, st, v)
               /\ {st[i] : i \in at .. Len(st)} = FromOn(ix, st, v)
<1> DEFINE at == SpotOf(st, v)
           m == at - 1
           su == SubSeq(st, 1, m)
<1>1. /\ st \in Seq(Groups) /\ Len(st) \in Nat /\ DOMAIN st = 1 .. Len(st)
      /\ \A i \in 1 .. Len(st) : st[i] \in Vis(ix)
      /\ \A i, j \in 1 .. Len(st) : i < j => ix[st[i]] < ix[st[j]]
  BY DEF Numbering
<1>2. at \in 1 .. Len(st) /\ st[at] = v
  <2>1. \E i \in DOMAIN st : st[i] = v
    BY DEF ToSet
  <2> QED
    BY <1>1, <2>1 DEF SpotOf
<1> HIDE DEF at
<1>3. \A i \in 1 .. Len(st) : ix[st[i]] \in Nat
  BY <1>1, NumberingIs
<1>4. \A i \in 1 .. Len(st) : (i < at => ix[st[i]] < ix[v]) /\ (at <= i => ix[v] <= ix[st[i]])
  <2> SUFFICES ASSUME NEW i \in 1 .. Len(st)
               PROVE  (i < at => ix[st[i]] < ix[v]) /\ (at <= i => ix[v] <= ix[st[i]])
    OBVIOUS
  <2>1. CASE i < at
    BY <1>1, <1>2, <2>1
  <2>2. CASE i = at
    BY <1>2, <1>3, <2>2
  <2>3. CASE at < i
    <3>1. ix[v] < ix[st[i]] /\ ix[v] \in Nat /\ ix[st[i]] \in Nat
      BY <1>1, <1>2, <1>3, <2>3
    <3> QED
      BY <1>2, <2>3, <3>1
  <2> QED
    BY <1>2, <2>1, <2>2, <2>3
<1>5. m \in Int /\ 1 \in Int /\ 0 <= m /\ m < Len(st) /\ \A i \in 1 .. m : st[i] \in Groups
  BY <1>1, <1>2
<1>m. m = at - 1
  OBVIOUS
<1> HIDE DEF m
<1>6. /\ su \in Seq(Groups)
      /\ Len(su) = IF 1 <= m THEN m - 1 + 1 ELSE 0
      /\ \A i \in 1 .. m - 1 + 1 : su[i] = st[1 + i - 1]
  BY <1>5, SubSeqProperties
<1> HIDE DEF su
<1>7. /\ su \in Seq(Groups) /\ Len(su) = m
      /\ \A i \in 1 .. m : i \in 1 .. Len(st) /\ su[i] = st[i]
  BY <1>1, <1>5, <1>6
<1>8. ToSet(su) = {x \in ToSet(st) : ix[x] < ix[v]}
  <2>1. ToSet(su) = {su[i] : i \in 1 .. m}
    BY <1>7 DEF ToSet
  <2>2. ASSUME NEW i \in 1 .. m PROVE su[i] \in ToSet(st) /\ ix[su[i]] < ix[v]
    <3>1. i \in 1 .. Len(st) /\ su[i] = st[i] /\ i < at
      BY <1>2, <1>7, <1>m
    <3> QED
      BY <1>1, <1>4, <3>1 DEF ToSet
  <2>3. ASSUME NEW x \in ToSet(st), ix[x] < ix[v] PROVE x \in ToSet(su)
    <3>1. PICK i \in 1 .. Len(st) : x = st[i]
      BY <1>1 DEF ToSet
    <3>2. ix[x] \in Nat /\ ix[v] \in Nat
      BY <1>2, <1>3, <3>1
    <3>3. i < at
      BY <1>2, <1>4, <2>3, <3>1, <3>2
    <3>4. i \in 1 .. m
      BY <1>2, <1>m, <3>3
    <3> QED
      BY <1>7, <2>1, <3>1, <3>4
  <2> QED
    BY <2>1, <2>2, <2>3
<1>9. {st[i] : i \in at .. Len(st)} = {x \in ToSet(st) : ix[v] <= ix[x]}
  <2>1. ASSUME NEW i \in at .. Len(st) PROVE st[i] \in ToSet(st) /\ ix[v] <= ix[st[i]]
    <3>1. i \in 1 .. Len(st) /\ at <= i
      BY <1>2
    <3> QED
      BY <1>1, <1>4, <3>1 DEF ToSet
  <2>2. ASSUME NEW x \in ToSet(st), ix[v] <= ix[x] PROVE \E i \in at .. Len(st) : x = st[i]
    <3>1. PICK i \in 1 .. Len(st) : x = st[i]
      BY <1>1 DEF ToSet
    <3>2. ix[x] \in Nat /\ ix[v] \in Nat
      BY <1>2, <1>3, <3>1
    <3>3. at <= i
      BY <1>2, <1>4, <2>2, <3>1, <3>2
    <3> QED
      BY <1>2, <3>1, <3>3
  <2> QED
    BY <2>1, <2>2
<1>10. Len(su) \in Nat /\ Len(su) <= Len(st)
  BY <1>1, <1>5, <1>7
<1>11. ToSet(su) = Below(ix, st, v) /\ {st[i] : i \in at .. Len(st)} = FromOn(ix, st, v)
  BY <1>8, <1>9 DEF Below, FromOn
<1> QED
  BY <1>7, <1>10, <1>11, <1>m DEF su, m, at

\* The end of a call that leads to nothing lower: what is on the stack from its group on is
\* a cycle, and the call below has no reason to go lower.
LEMMA CycleStep ==
    ASSUME NEW ix, NEW lw, NEW st, NEW fr, NEW cs, IsTarjan(ix, lw, st, fr, cs),
           fr # <<>>, fr[Len(fr)].left = {}, lw[fr[Len(fr)].group] = ix[fr[Len(fr)].group],
           NEW su \in Seq(Groups), Len(su) \in Nat, Len(su) <= Len(st),
           \A i \in 1 .. Len(su) : i \in 1 .. Len(st) /\ su[i] = st[i],
           ToSet(su) = Below(ix, st, fr[Len(fr)].group),
           NEW comp, comp = FromOn(ix, st, fr[Len(fr)].group)
    PROVE  /\ IsTarjan(ix, lw, su, Front(fr), IF Cardinality(comp) > 1 THEN cs \cup {comp} ELSE cs)
           /\ Len(fr) > 1 => PassedOn(lw, fr) = lw
<1> DEFINE top == Len(fr)
           v == fr[top].group
           nr == Front(fr)
           past == Vis(ix) \ ToSet(st)
           ds == IF Cardinality(comp) > 1 THEN cs \cup {comp} ELSE cs
<1>1. /\ Numbering(ix, st, fr) /\ Linking(ix, st, fr)
      /\ Lowness(ix, lw, st, fr) /\ Finished(ix, st, cs)
  BY DEF IsTarjan
<1>2. /\ ToSet(st) \subseteq Vis(ix) /\ Vis(ix) \subseteq Groups
      /\ \A x \in Vis(ix) : ix[x] \in Nat
      /\ top \in Nat \ {0} /\ top \in 1 .. top
      /\ \A i \in 1 .. top : /\ fr[i].group \in ToSet(st)
                             /\ fr[i].left \subseteq Used(fr[i].group)
      /\ \A i, j \in 1 .. top : i < j => ix[fr[i].group] < ix[fr[j].group]
      /\ \A i, j \in 1 .. top : fr[i].group = fr[j].group => i = j
      /\ \A i \in 1 .. top : ix[fr[i].group] <= ix[fr[top].group]
  BY <1>1, NumberingIs
<1>3. /\ nr \in Seq(ConnectCall) /\ Len(nr) = top - 1
      /\ \A i \in 1 .. top - 1 : nr[i] = fr[i]
  <2>1. fr \in Seq(ConnectCall) /\ fr # <<>>
    BY <1>1 DEF Numbering
  <2> QED
    BY <2>1, FrontIs
<1>4. \A x \in ToSet(st) : ix[x] \in Nat /\ x \in Groups
  BY <1>2
<1>5. \A i \in 1 .. top : /\ lw[fr[i].group] <= ix[fr[i].group] /\ fr[i].group \in Groups
                          /\ lw[fr[i].group] \in Int /\ ix[fr[i].group] \in Nat
                          /\ \E z \in ToSet(st) : ix[z] = lw[fr[i].group] /\ LeadsTo(fr[i].group, z)
  BY <1>1, <1>2, <1>4 DEF Lowness
<1>6. lw \in [Groups -> Int]
  BY <1>1 DEF Lowness
<1>v. v = fr[top].group /\ v \in ToSet(st) /\ v \in Groups /\ fr[top].left = {} /\ lw[v] = ix[v]
  BY <1>2, <1>5
<1>s. /\ ToSet(su) = {x \in ToSet(st) : ix[x] < ix[v]}
      /\ comp = {x \in ToSet(st) : ix[v] <= ix[x]}
  BY DEF Below, FromOn
<1>t. /\ Len(fr) = top /\ \A i \in 1 .. top - 1 : i \in 1 .. top /\ i # top
      /\ \A i \in 1 .. top : i = top \/ i \in 1 .. top - 1
      /\ \A i \in 1 .. top - 1 : ix[fr[i].group] < ix[v] /\ fr[i].group \in ToSet(su)
  <2>1. Len(fr) = top /\ \A i \in 1 .. top - 1 : i \in 1 .. top /\ i # top /\ i < top
    BY <1>2
  <2>2. \A i \in 1 .. top : i = top \/ i \in 1 .. top - 1
    BY <1>2
  <2>3. \A i \in 1 .. top - 1 : ix[fr[i].group] < ix[v]
    BY <1>2, <1>v, <2>1
  <2>4. \A i \in 1 .. top - 1 : fr[i].group \in ToSet(su)
    BY <1>2, <1>s, <2>1, <2>3
  <2> QED
    BY <2>1, <2>2, <2>3, <2>4
<1>c. ToSet(su) \cup comp = ToSet(st) /\ ToSet(su) \cap comp = {} /\ ToSet(su) \subseteq ToSet(st)
  <2>1. \A x \in ToSet(st) : ix[x] < ix[v] <=> ~ (ix[v] <= ix[x])
    BY <1>4, <1>v
  <2> QED
    BY <1>s, <2>1
<1> HIDE DEF v, top, nr
<1>7. Numbering(ix, su, nr)
  <2>1. \A i, j \in 1 .. Len(su) : i < j => ix[su[i]] < ix[su[j]]
    BY <1>1 DEF Numbering
  <2>2. \A i \in 1 .. Len(su) : su[i] \in Vis(ix)
    BY <1>1 DEF Numbering
  <2>3. /\ \A i \in 1 .. top - 1 : nr[i].group \in ToSet(su) /\ nr[i].left \subseteq Used(nr[i].group)
        /\ \A i, j \in 1 .. top - 1 : i < j => ix[nr[i].group] < ix[nr[j].group]
    BY <1>2, <1>3, <1>t
  <2> QED
    BY <1>1, <1>3, <2>1, <2>2, <2>3 DEF Numbering
<1>8. Linking(ix, su, nr)
  <2>1. ASSUME NEW y \in ToSet(su)
        PROVE  \E i \in 1 .. top - 1 : ix[nr[i].group] <= ix[y] /\ LeadsTo(y, nr[i].group)
    <3>1. y \in ToSet(st) /\ ix[y] < ix[v]
      BY <1>s
    <3>2. PICK i \in 1 .. top : ix[fr[i].group] <= ix[y] /\ LeadsTo(y, fr[i].group)
      BY <1>1, <1>t, <3>1 DEF Linking
    <3>3. i # top
      BY <1>4, <1>v, <3>1, <3>2
    <3> QED
      BY <1>3, <1>t, <3>2, <3>3
  <2>2. ASSUME NEW x \in ToSet(su), NEW y \in Used(x)
        PROVE  y \in Vis(ix) \/ \E i \in 1 .. top - 1 : nr[i].group = x /\ y \in nr[i].left
    <3>1. y \in Vis(ix) \/ \E i \in 1 .. top : fr[i].group = x /\ y \in fr[i].left
      BY <1>1, <1>c, <1>t DEF Linking
    <3> QED
      BY <1>3, <1>t, <1>v, <3>1
  <2>3. \A x, y \in ToSet(su) : ix[x] <= ix[y] => LeadsTo(x, y)
    BY <1>1, <1>c DEF Linking
  <2> QED
    BY <1>3, <2>1, <2>2, <2>3 DEF Linking
<1>9. Lowness(ix, lw, su, nr)
  <2>1. ASSUME NEW i \in 1 .. top - 1
        PROVE  /\ lw[nr[i].group] <= ix[nr[i].group]
               /\ \E z \in ToSet(su) : ix[z] = lw[nr[i].group] /\ LeadsTo(nr[i].group, z)
    <3>1. PICK z \in ToSet(st) : ix[z] = lw[fr[i].group] /\ LeadsTo(fr[i].group, z)
      BY <1>5, <1>t
    <3>2. ix[z] < ix[v]
      BY <1>4, <1>5, <1>t, <1>v, <3>1
    <3>3. z \in ToSet(su)
      BY <1>s, <3>2
    <3> QED
      BY <1>3, <1>5, <1>t, <3>1, <3>3
  <2>2. ASSUME NEW i \in 1 .. top - 1, NEW x \in ToSet(su), Under(ix, nr, i, x),
               NEW y \in Used(x) \cap ToSet(su)
        PROVE  lw[nr[i].group] <= ix[y] \/ (x = nr[i].group /\ y \in nr[i].left)
    <3>1. ix[fr[i].group] <= ix[x] /\ (i < top - 1 => ix[x] < ix[fr[i + 1].group])
      <4>1. ASSUME i < top - 1 PROVE i + 1 \in 1 .. top - 1
        BY <1>2, <4>1
      <4> QED
        BY <1>3, <2>2, <4>1 DEF Under
    <3>2. x \in ToSet(st) /\ y \in Used(x) \cap ToSet(st) /\ ix[x] < ix[v]
      BY <1>c, <1>s
    <3>3. Under(ix, fr, i, x)
      <4>1. CASE i = top - 1
        <5>1. i + 1 = top
          BY <1>2, <4>1
        <5> QED
          BY <1>v, <3>1, <3>2, <5>1 DEF Under
      <4>2. CASE i # top - 1
        <5>1. i < top - 1
          BY <1>2, <4>2
        <5> QED
          BY <3>1, <5>1 DEF Under
      <4> QED
        BY <4>1, <4>2
    <3> QED
      BY <1>1, <1>3, <1>t, <3>2, <3>3 DEF Lowness
  <2> QED
    BY <1>3, <1>6, <2>1, <2>2 DEF Lowness
<1>10. \A x \in past : Used(x) \subseteq past
  BY <1>1 DEF Finished
<1>11. ASSUME NEW x \in comp PROVE Used(x) \subseteq past \cup comp
  <2> SUFFICES ASSUME NEW y \in Used(x), y \notin past PROVE y \in comp
    OBVIOUS
  <2>1. x \in ToSet(st) /\ ix[v] <= ix[x]
    BY <1>s
  <2>2. ASSUME NEW i \in 1 .. top, fr[i].group = x PROVE i = top
    <3>1. i # top => ix[x] < ix[v]
      BY <1>t, <2>2
    <3> QED
      BY <1>4, <1>v, <2>1, <3>1
  <2>3. y \in Vis(ix)
    <3>1. y \in Vis(ix) \/ \E i \in 1 .. top : fr[i].group = x /\ y \in fr[i].left
      BY <1>1, <1>t, <2>1 DEF Linking
    <3> QED
      BY <1>v, <2>2, <3>1
  <2>4. y \in ToSet(st)
    BY <2>3
  <2>5. Under(ix, fr, top, x)
    BY <1>2, <1>t, <1>v, <2>1 DEF Under
  <2>6. ix[v] <= ix[y]
    BY <1>1, <1>2, <1>t, <1>v, <2>1, <2>4, <2>5 DEF Lowness
  <2> QED
    BY <1>s, <2>4, <2>6
<1>12. past \subseteq Groups /\ comp \subseteq Groups /\ past \cap comp = {} /\ comp \subseteq Vis(ix)
  BY <1>2, <1>c
<1>13. Vis(ix) \ ToSet(su) = past \cup comp
  BY <1>2, <1>c
<1> HIDE DEF past
<1>14. ASSUME NEW S \in SUBSET Groups, \A x \in S : Used(x) \subseteq S, NEW x \in S, NEW y, LeadsTo(x, y)
       PROVE  y \in S
  <2>1. \A a \in S, b \in Groups : Uses(a, b) => b \in S
    BY <1>14 DEF Used
  <2> QED
    BY <1>14, <2>1 DEF LeadsTo
<1>15. ASSUME NEW x \in comp PROVE Cycle(x) = comp
  <2>1. \A y \in comp : LeadsTo(y, v) /\ LeadsTo(v, y)
    <3> SUFFICES ASSUME NEW y \in comp PROVE LeadsTo(y, v) /\ LeadsTo(v, y)
      OBVIOUS
    <3>1. y \in ToSet(st) /\ ix[v] <= ix[y]
      BY <1>s
    <3>2. LeadsTo(y, v)
      BY <1>1, <1>t, <1>v, <3>1, LeadsToTop
    <3>3. LeadsTo(v, y)
      BY <1>1, <1>v, <3>1 DEF Linking
    <3> QED
      BY <3>2, <3>3
  <2>2. \A y \in comp : LeadsTo(x, y) /\ LeadsTo(y, x)
    <3> SUFFICES ASSUME NEW y \in comp PROVE LeadsTo(x, y) /\ LeadsTo(y, x)
      OBVIOUS
    <3>1. x \in Groups /\ y \in Groups /\ v \in Groups
      BY <1>12, <1>v
    <3> QED
      BY <2>1, <3>1, LeadsOn
  <2>3. ASSUME NEW y \in Groups, LeadsTo(x, y), LeadsTo(y, x) PROVE y \in comp
    <3>1. \A a \in past \cup comp : Used(a) \subseteq past \cup comp
      BY <1>10, <1>11
    <3>2. y \in past \cup comp
      BY <1>12, <1>14, <2>3, <3>1
    <3>3. y \notin past
      <4> SUFFICES ASSUME y \in past PROVE FALSE
        OBVIOUS
      <4>1. x \in past
        BY <1>10, <1>12, <1>14, <2>3
      <4> QED
        BY <1>12, <4>1
    <3> QED
      BY <3>2, <3>3
  <2> QED
    BY <1>12, <2>2, <2>3 DEF Cycle
<1>16. Finished(ix, su, ds)
  <2>1. \A x \in past \cup comp : Used(x) \subseteq past \cup comp
    BY <1>10, <1>11
  <2>2. cs = {s \in {Cycle(x) : x \in past} : Cardinality(s) > 1}
    BY <1>1 DEF Finished, past
  <2>3. v \in comp
    BY <1>4, <1>s, <1>v
  <2>4. {Cycle(x) : x \in past \cup comp} = {Cycle(x) : x \in past} \cup {comp}
    BY <1>15, <2>3
  <2>5. ds = {s \in {Cycle(x) : x \in past \cup comp} : Cardinality(s) > 1}
    <3>1. ASSUME NEW s PROVE s \in ds <=> s \in cs \/ (s = comp /\ Cardinality(s) > 1)
      OBVIOUS
    <3> HIDE DEF ds
    <3> QED
      BY <2>2, <2>4, <3>1
  <2> QED
    BY <1>13, <2>1, <2>5 DEF Finished
<1>17. IsTarjan(ix, lw, su, nr, ds)
  BY <1>7, <1>8, <1>9, <1>16 DEF IsTarjan
<1>18. ASSUME top > 1 PROVE PassedOn(lw, fr) = lw
  <2> DEFINE u == fr[top - 1].group
  <2>1. top - 1 \in 1 .. top - 1
    BY <1>2, <1>18
  <2>2. lw[u] <= ix[u] /\ ix[u] < ix[v] /\ lw[u] \in Int /\ ix[u] \in Nat /\ u \in Groups
    BY <1>5, <1>t, <2>1
  <2>3. ~ (lw[v] < lw[u])
    BY <1>4, <1>v, <2>2
  <2> HIDE DEF u
  <2>4. [lw EXCEPT ![u] = IF lw[v] < lw[u] THEN lw[v] ELSE lw[u]] = lw
    BY <1>6, <2>2, <2>3
  <2> QED
    BY <2>4 DEF PassedOn, u, v, top
<1> QED
  BY <1>17, <1>18 DEF nr, ds, v, top

\* The end of a call.
LEMMA FinishInv == ASSUME SccInv, Finish PROVE IsTarjan(index, low', stack', frames', comps')
<1> DEFINE v == frames[Len(frames)].group
           at == SpotOf(stack, v)
           comp == {stack[i] : i \in at .. Len(stack)}
           under == PassedOn(low, frames)
<1>1. IsTarjan(index, low, stack, frames, comps) /\ Numbering(index, stack, frames)
  BY DEF SccInv, IsTarjan
<1>2. /\ frames # <<>> /\ frames[Len(frames)].left = {} /\ frames' = Front(frames)
      /\ low[v] = index[v] =>
            /\ stack' = SubSeq(stack, 1, at - 1)
            /\ comps' = IF Cardinality(comp) > 1 THEN comps \cup {comp} ELSE comps
      /\ low[v] # index[v] => stack' = stack /\ comps' = comps
      /\ low' = IF Len(frames) > 1 THEN under ELSE low
  BY DEF Finish, Last, Lower, SpotOf, PassedOn
<1>3. v \in ToSet(stack)
  BY <1>1, <1>2, NumberingIs
<1>v. v = frames[Len(frames)].group
  OBVIOUS
<1>4. CASE low[v] # index[v]
  <2>1. Len(frames) > 1 /\ IsTarjan(index, under, stack, Front(frames), comps)
    BY <1>1, <1>2, <1>4, ReturnStep
  <2> HIDE DEF under
  <2> QED
    BY <1>2, <1>4, <2>1
<1>5. CASE low[v] = index[v]
  <2> DEFINE su == SubSeq(stack, 1, at - 1)
             ds == IF Cardinality(comp) > 1 THEN comps \cup {comp} ELSE comps
  <2>1. /\ su \in Seq(Groups) /\ Len(su) \in Nat /\ Len(su) <= Len(stack)
        /\ \A i \in 1 .. Len(su) : i \in 1 .. Len(stack) /\ su[i] = stack[i]
        /\ ToSet(su) = Below(index, stack, v) /\ comp = FromOn(index, stack, v)
    BY <1>1, <1>3, CutAt
  <2> HIDE DEF su, comp
  <2>0. IsTarjan(index, low, stack, frames, comps) /\ frames # <<>> /\ frames[Len(frames)].left = {}
    BY <1>1, <1>2
  <2>2. /\ IsTarjan(index, low, su, Front(frames), ds)
        /\ Len(frames) > 1 => under = low
    BY <1>5, <2>0, <2>1, CycleStep
  <2>3. stack' = su /\ comps' = ds /\ low' = low
    BY <1>2, <1>5, <2>2 DEF su
  <2> QED
    BY <1>2, <2>2, <2>3
<1> QED
  BY <1>4, <1>5

\* The calls when w need not be looked at any more on top.
LEMMA LookedIs ==
    ASSUME NEW ix, NEW st, NEW fr, Numbering(ix, st, fr), fr # <<>>, NEW w \in Last(fr).left
    PROVE  Looked(fr, Append(Front(fr), [Last(fr) EXCEPT !.left = @ \ {w}]), w)
<1> DEFINE call == [Last(fr) EXCEPT !.left = @ \ {w}]
           nr == Append(Front(fr), call)
<1>1. /\ fr \in Seq(ConnectCall) /\ Len(fr) \in Nat \ {0} /\ Last(fr) = fr[Len(fr)]
      /\ fr[Len(fr)].left \subseteq Used(fr[Len(fr)].group)
      /\ \A i \in 1 .. Len(fr) : fr[i] \in ConnectCall
  BY DEF Numbering, Last
<1>2. call \in ConnectCall /\ call.group = fr[Len(fr)].group /\ call.left = fr[Len(fr)].left \ {w}
  BY <1>1 DEF ConnectCall
<1>3. /\ Front(fr) \in Seq(ConnectCall) /\ Len(Front(fr)) = Len(fr) - 1
      /\ \A i \in 1 .. Len(fr) - 1 : Front(fr)[i] = fr[i]
  BY <1>1, FrontIs
<1> HIDE DEF call
<1>4. /\ nr \in Seq(ConnectCall) /\ Len(nr) = Len(fr)
      /\ \A i \in 1 .. Len(fr) : nr[i] = IF i = Len(fr) THEN call ELSE fr[i]
  BY <1>1, <1>2, <1>3
<1> HIDE DEF nr
<1>5. \A i \in 1 .. Len(fr) : /\ nr[i].group = fr[i].group /\ nr[i].left \subseteq fr[i].left
                              /\ \A y \in fr[i].left \ nr[i].left : i = Len(fr) /\ y = w
  BY <1>2, <1>4
<1>6. w \in Used(fr[Len(fr)].group)
  BY <1>1
<1>7. Looked(fr, nr, w)
  BY <1>4, <1>5, <1>6 DEF Looked
<1> QED
  BY <1>7 DEF nr, call

\* A look at a neighbour.
LEMMA ExploreInv == ASSUME SccInv, Explore PROVE IsTarjan(index', low', stack', frames', comps')
<1>1. IsTarjan(index, low, stack, frames, comps) /\ Numbering(index, stack, frames)
  BY DEF SccInv, IsTarjan
<1>2. PICK w \in Last(frames).left :
        LET v == Last(frames).group
            rest == Append(Front(frames), [Last(frames) EXCEPT !.left = @ \ {w}])
        IN  IF index[w] = Unvisited
            THEN Connect(w, rest)
            ELSE /\ low' = IF Counts(w) THEN Lower(v, index[w]) ELSE low
                 /\ frames' = rest
                 /\ UNCHANGED <<groupOf, index, stack, comps>>
  BY DEF Explore
<1> DEFINE nr == Append(Front(frames), [Last(frames) EXCEPT !.left = @ \ {w}])
           mw == IF w \in ToSet(stack)
                 THEN [low EXCEPT ![frames[Len(frames)].group] = IF index[w] < @ THEN index[w] ELSE @]
                 ELSE low
<1>3. frames # <<>> /\ Last(frames) = frames[Len(frames)]
  BY DEF Explore, Last
<1>4. Looked(frames, nr, w)
  BY <1>1, <1>3, LookedIs
<1>n. nr = Append(Front(frames), [Last(frames) EXCEPT !.left = @ \ {w}])
  OBVIOUS
<1> HIDE DEF nr
<1>5. w \in Vertices /\ w \in Groups
  <2>1. w \in Used(frames[Len(frames)].group) /\ frames[Len(frames)].group \in Groups
    BY <1>1, <1>3, <1>4, NumberingIs DEF Looked
  <2> QED
    BY <2>1 DEF Used, Vertices
<1>6. CASE index[w] = Unvisited
  <2>1. Connect(w, nr)
    BY <1>2, <1>6, <1>n
  <2>2. Visited = Vis(index)
    BY DEF Visited, Vis
  <2> DEFINE m == Cardinality(Vis(index))
  <2>3. /\ index' = [index EXCEPT ![w] = m] /\ low' = [low EXCEPT ![w] = m]
        /\ stack' = Append(stack, w) /\ comps' = comps
        /\ frames' = Append(nr, [group |-> w, left |-> Used(w)])
    BY <2>1, <2>2 DEF Connect
  <2>4. IsTarjan([index EXCEPT ![w] = m], [low EXCEPT ![w] = m], Append(stack, w),
                 Append(nr, [group |-> w, left |-> Used(w)]), comps)
    BY <1>1, <1>4, <1>5, <1>6, ConnectStep
  <2> QED
    BY <2>3, <2>4
<1>7. CASE index[w] # Unvisited
  <2>1. /\ low' = IF Counts(w) THEN Lower(Last(frames).group, index[w]) ELSE low
        /\ frames' = nr /\ UNCHANGED <<index, stack, comps>>
    BY <1>2, <1>7, <1>n
  <2>2. Counts(w) <=> w \in ToSet(stack)
    BY DEF Counts, Contains, ToSet
  <2>3. low' = mw
    BY <1>3, <2>1, <2>2 DEF Lower
  <2> HIDE DEF mw
  <2>4. w \in Vis(index)
    BY <1>5, <1>7 DEF Vis
  <2>5. IsTarjan(index, mw, stack, nr, comps)
    BY <1>1, <1>3, <1>4, <2>4, VisitedStep DEF mw
  <2> QED
    BY <2>1, <2>3, <2>5
<1> QED
  BY <1>6, <1>7

\* A call by no call.
LEMMA StartInv == ASSUME SccInv, Start PROVE IsTarjan(index', low', stack', frames', comps')
<1>1. IsTarjan(index, low, stack, frames, comps) /\ Numbering(index, stack, frames)
  BY DEF SccInv, IsTarjan
<1>2. PICK v \in Vertices \ Visited : Connect(v, <<>>)
  BY DEF Start
<1>3. index[v] = Unvisited /\ Visited = Vis(index)
  BY DEF Visited, Vis, Vertices
<1>4. Looked(frames, <<>>, v)
  <2>1. frames = <<>>
    BY DEF Start
  <2> QED
    BY <2>1 DEF Looked
<1> DEFINE m == Cardinality(Vis(index))
<1>5. /\ index' = [index EXCEPT ![v] = m] /\ low' = [low EXCEPT ![v] = m]
      /\ stack' = Append(stack, v) /\ comps' = comps
      /\ frames' = Append(<<>>, [group |-> v, left |-> Used(v)])
  BY <1>2, <1>3 DEF Connect
<1>6. IsTarjan([index EXCEPT ![v] = m], [low EXCEPT ![v] = m], Append(stack, v),
               Append(<<>>, [group |-> v, left |-> Used(v)]), comps)
  BY <1>1, <1>3, <1>4, ConnectStep
<1> QED
  BY <1>5, <1>6

\* What Tarjan's invariant says depends on the graph and the groups, which no step changes.
LEMMA TarjanSame ==
    ASSUME UNCHANGED <<graph, groupOf>>
    PROVE  IsTarjan(index, low, stack, frames, comps)' <=> IsTarjan(index', low', stack', frames', comps')
<1>1. \A x, y : Uses(x, y)' <=> Uses(x, y)
  BY DEF Uses
<1>2. Vertices' = Vertices /\ \A x : Used(x)' = Used(x)
  BY <1>1 DEF Vertices, Used
<1>3. \A x, y : LeadsTo(x, y)' <=> LeadsTo(x, y)
  BY <1>1 DEF LeadsTo
<1>4. \A x : Cycle(x)' = Cycle(x)
  BY <1>3 DEF Cycle
<1>5. Vis(index)' = Vis(index')
  BY DEF Vis
<1>6. Numbering(index, stack, frames)' <=> Numbering(index', stack', frames')
  BY <1>2, <1>5 DEF Numbering
<1>7. Linking(index, stack, frames)' <=> Linking(index', stack', frames')
  BY <1>2, <1>3, <1>5 DEF Linking
<1>8. Lowness(index, low, stack, frames)' <=> Lowness(index', low', stack', frames')
  BY <1>2, <1>3 DEF Lowness, Under
<1>9. Finished(index, stack, comps)' <=> Finished(index', stack', comps')
  BY <1>2, <1>4, <1>5 DEF Finished
<1> QED
  BY <1>6, <1>7, <1>8, <1>9 DEF IsTarjan

\* At first nothing is visited.
LEMMA SccInitInv == graph \in Graphs /\ SccInit => SccInv
<1> SUFFICES ASSUME graph \in Graphs, SccInit PROVE SccInv
  OBVIOUS
<1>1. /\ groupOf \in Groupings /\ stack = <<>> /\ frames = <<>> /\ comps = {}
      /\ index = [x \in Groups |-> Unvisited] /\ low = [x \in Groups |-> Unvisited]
  BY DEF SccInit
<1>2. Vis(index) = {}
  BY <1>1 DEF Vis
<1>3. ToSet(stack) = {} /\ Len(stack) = 0 /\ Len(frames) = 0
  BY <1>1 DEF ToSet
<1>4. Unvisited \in Int
  BY DEF Unvisited
<1>5. Numbering(index, stack, frames)
  BY <1>1, <1>2, <1>3 DEF Numbering
<1>6. Linking(index, stack, frames)
  BY <1>3 DEF Linking
<1>7. Lowness(index, low, stack, frames)
  BY <1>1, <1>3, <1>4 DEF Lowness
<1>8. Finished(index, stack, comps)
  BY <1>1, <1>2 DEF Finished
<1> QED
  BY <1>1, <1>5, <1>6, <1>7, <1>8 DEF SccInv, IsTarjan

\* Every step of the search for cycles keeps its invariant.
LEMMA SccNextInv == ASSUME SccInv, [SccNext /\ UNCHANGED graph]_<<graph, sccVars>> PROVE SccInv'
<1>1. UNCHANGED <<graph, groupOf>>
  BY DEF SccNext, Start, Explore, Finish, Connect, sccVars
<1>2. CASE Start
  BY <1>1, <1>2, StartInv, TarjanSame DEF SccInv
<1>3. CASE Explore
  BY <1>1, <1>3, ExploreInv, TarjanSame DEF SccInv
<1>4. CASE Finish
  <2>1. index' = index
    BY <1>4 DEF Finish
  <2> QED
    BY <1>1, <1>4, <2>1, FinishInv, TarjanSame DEF SccInv
<1>5. CASE UNCHANGED <<graph, sccVars>>
  <2>1. UNCHANGED <<index, low, stack, frames, comps>>
    BY <1>5 DEF sccVars
  <2> QED
    BY <1>1, <2>1, TarjanSame DEF SccInv
<1> QED
  BY <1>2, <1>3, <1>4, <1>5 DEF SccNext

\* Groups are numbered as they are visited, what is on the stack is linked, low numbers are
\* as low as what was looked at, and what left the stack is finished.
THEOREM SccInvHolds == SccSpec => []SccInv
<1>1. SccInv /\ [SccNext /\ UNCHANGED graph]_<<graph, sccVars>> => SccInv'
  BY SccNextInv
<1> QED
  BY <1>1, SccInitInv, PTL DEF SccSpec

\* In whatever order maps are walked, the cycles found are classes of groups that depend on
\* one another, whole and right when found; and at the end none is missing.
THEOREM CyclesAreRight == SccSpec => []CyclesAreExact
<1>1. SccInv => CyclesAreExact
  <2> SUFFICES ASSUME SccInv PROVE CyclesAreExact
    OBVIOUS
  <2> DEFINE past == Vis(index) \ ToSet(stack)
             real == {s \in {Cycle(x) : x \in Vertices} : Cardinality(s) > 1}
  <2>1. /\ Vis(index) \subseteq Vertices
        /\ comps = {s \in {Cycle(x) : x \in past} : Cardinality(s) > 1}
        /\ Linking(index, stack, frames)
    BY NumberingIs DEF SccInv, IsTarjan, Finished
  <2>2. comps \subseteq real
    BY <2>1
  <2>3. ASSUME SccDone PROVE comps = real
    <3>1. ToSet(stack) = {} /\ Vertices \subseteq Vis(index)
      BY <2>1, <2>3, NoCallsNoStack DEF SccDone, Visited, Vis
    <3>2. past = Vertices
      BY <2>1, <3>1
    <3> QED
      BY <2>1, <3>2
  <2> QED
    BY <2>2, <2>3 DEF CyclesAreExact
<1> QED
  BY <1>1, SccInvHolds, PTL
=============================================================================
