-------------------------------- MODULE Reach --------------------------------
(***************************************************************************)
(* The breadth-first searches of pkg/analysis: ReverseReach, ForwardReach  *)
(* and Neighborhood (algorithms.go), and DeadCandidates (deadcode.go).     *)
(* They are one loop, which differs in where it starts, which edges it     *)
(* follows, where it stops and what it answers.                            *)
(*                                                                         *)
(* A node, and the far end of an edge, are looked at in any order: none of *)
(* what is said here depends on that of the lists.                         *)
(***************************************************************************)
EXTENDS CodeGraph

CONSTANT Queries    \* what may be asked

Query == [task : {"reverse", "forward", "neighborhood", "dead"}, seed : Nodes,
          kinds : SUBSET Kinds, maxDepth : Int, limit : Int]

ASSUME ReachAssumption == Queries \subseteq Query

VARIABLES
    query,
    level,      \* node -> the depth it was found at, or Unseen
    rank,       \* node -> how many were found before it
    depth,      \* the depth the search is at
    todo,       \* <<m, n>>: from node m of the frontier, n is still to be looked at
    next,       \* the next frontier
    results,    \* what ReverseReach or ForwardReach will return
    outcome     \* "search", "cut" by the limit, or "done"

reachVars == <<query, level, rank, depth, todo, next, results, outcome>>

Unseen == -1
Seen == {n \in Nodes : level[n] # Unseen}

\* A slip: noticing the limit one node late.
FullAfter == Cardinality(results) > query.limit

Limited == query.task \in {"reverse", "forward"}
Full == Cardinality(results) >= query.limit

Seeds(g, q) == IF q.task = "dead" THEN g.roots ELSE {q.seed}

\* The edges the search follows.
Leads(g, q, m, n) == \E e \in g.edges :
    CASE q.task = "reverse"      -> e.kind \in q.kinds /\ e.tgt = m /\ e.src = n
      [] q.task = "forward"      -> e.kind \in q.kinds /\ e.src = m /\ e.tgt = n
      [] q.task = "neighborhood" -> (e.src = m /\ e.tgt = n) \/ (e.tgt = m /\ e.src = n)
      [] q.task = "dead"         -> e.kind = "calls" /\ e.src = m /\ e.tgt = n

\* A slip: one level too many.
GoesOnFurther(q, F, d) == F # {} /\ (q.task = "dead" \/ d <= q.maxDepth + 1)

\* The head of the outer loop, for frontier F at depth d.
GoesOn(q, F, d) == F # {} /\ (q.task = "dead" \/ d <= q.maxDepth)

Todo(g, q, F, d) == IF GoesOn(q, F, d) THEN {p \in F \X Nodes : Leads(g, q, p[1], p[2])} ELSE {}

ReachInit ==
    /\ query \in Queries
    /\ level = [n \in Nodes |-> IF n \in Seeds(graph, query) THEN 0 ELSE Unseen]
    /\ rank = [n \in Nodes |-> 0]
    /\ depth = 1
    /\ todo = Todo(graph, query, Seeds(graph, query), 1)
    /\ next = {} /\ results = {}
    /\ outcome = IF GoesOn(query, Seeds(graph, query), 1) THEN "search" ELSE "done"

\* n was found before.
PassOver(p) ==
    /\ level[p[2]] # Unseen
    /\ todo' = todo \ {p}
    /\ UNCHANGED <<query, level, rank, depth, next, results, outcome>>

Mark(n) == /\ level' = [level EXCEPT ![n] = depth]
           /\ rank' = [rank EXCEPT ![n] = Cardinality(Seen)]
           /\ UNCHANGED <<query, depth>>

\* A slip: going on only from nodes that are in the answer.
FindKnown(p) ==
    /\ level[p[2]] = Unseen /\ ~ (Limited /\ Full)
    /\ Mark(p[2])
    /\ todo' = todo \ {p}
    /\ results' = results \cup ({p[2]} \cap graph.nodes)
    /\ next' = next \cup ({p[2]} \cap graph.nodes)
    /\ UNCHANGED outcome

\* A slip: taking a node without a row into the answer.
FindAny(p) ==
    /\ level[p[2]] = Unseen /\ ~ (Limited /\ Full)
    /\ Mark(p[2])
    /\ todo' = todo \ {p}
    /\ results' = results \cup {p[2]} /\ next' = next \cup {p[2]}
    /\ UNCHANGED outcome

\* A node without a row is not in the answer, but the search goes on from it.
Find(p) ==
    /\ level[p[2]] = Unseen /\ ~ (Limited /\ Full)
    /\ Mark(p[2])
    /\ todo' = todo \ {p}
    /\ results' = results \cup ({p[2]} \cap graph.nodes)
    /\ next' = next \cup {p[2]}
    /\ UNCHANGED outcome

\* One node more than the limit allows.
Cut(p) ==
    /\ level[p[2]] = Unseen /\ Limited /\ Full
    /\ Mark(p[2])
    /\ todo' = {} /\ outcome' = "cut"
    /\ UNCHANGED <<next, results>>

Look(p) == PassOver(p) \/ Find(p) \/ Cut(p)

Deepen ==
    /\ outcome = "search" /\ todo = {}
    /\ depth' = depth + 1
    /\ todo' = Todo(graph, query, next, depth + 1)
    /\ outcome' = IF GoesOn(query, next, depth + 1) THEN "search" ELSE "done"
    /\ next' = {}
    /\ UNCHANGED <<query, level, rank, results>>

ReachNext == (\E p \in todo : Look(p)) \/ Deepen

ReachSpec == graph \in Graphs /\ ReachInit /\ [][ReachNext /\ UNCHANGED graph]_<<graph, reachVars>>

-----------------------------------------------------------------------------
(* The answers.                                                            *)

Dead == {n \in graph.callables : level[n] = Unseen}

\* Neighborhood shows the first `limit` nodes in the order they were found.
FoundBefore(n) == {m \in Seen \cap graph.nodes : rank[m] < rank[n]}

\* A slip: one node more than the limit.
ShownAndOne == {n \in Seen \cap graph.nodes : Cardinality(FoundBefore(n)) <= query.limit}

Shown == {n \in Seen \cap graph.nodes : Cardinality(FoundBefore(n)) < query.limit}

\* Some node is left for after that, with a row or without; the seed counts with one only.
Truncated == \E n \in Seen : /\ n = query.seed => n \in graph.nodes
                             /\ Cardinality(FoundBefore(n)) >= query.limit

-----------------------------------------------------------------------------
(* What must hold.                                                         *)

ReachTypeOK ==
    /\ query \in Query
    /\ level \in [Nodes -> Nat \cup {Unseen}] /\ rank \in [Nodes -> Nat]
    /\ depth \in Nat \ {0}
    /\ todo \subseteq Nodes \X Nodes
    /\ next \subseteq Nodes /\ results \subseteq graph.nodes
    /\ outcome \in {"search", "cut", "done"}

\* A walk of k edges leads from where the search starts to n.
WalkIn(g, q, n, k) ==
    \E w \in [0 .. k -> Nodes] :
       /\ w[0] \in Seeds(g, q) /\ w[k] = n
       /\ \A i \in 0 .. k - 1 : Leads(g, q, w[i], w[i + 1])

Walk(n, k) == WalkIn(graph, query, n, k)

Distance(n, k) == Walk(n, k) /\ \A j \in 0 .. k - 1 : ~ Walk(n, j)

Within(n) == \E k \in 1 .. query.maxDepth : Walk(n, k)

\* A search that is not cut returns all symbols but its own that the right edges
\* connect to it within the depth asked for, each with its distance.
ReachIsExact ==
    Limited /\ outcome = "done" =>
       /\ results = {n \in graph.nodes \ {query.seed} : Within(n)}
       /\ \A n \in results : Distance(n, level[n])

\* One that is cut says so rightly, there is more than it returns, and what it
\* returns is right and nearest: nothing left out is nearer than anything returned.
CutKeepsNearest ==
    outcome = "cut" =>
       /\ Cardinality(results) = IF query.limit < 0 THEN 0 ELSE query.limit
       /\ \E n \in Nodes \ results : n # query.seed /\ Within(n)
       /\ \A n \in results :
             /\ level[n] \in 1 .. query.maxDepth /\ Distance(n, level[n])
             /\ \A m \in graph.nodes \ ({query.seed} \cup results), k \in 0 .. level[n] - 1 : ~ Walk(m, k)

\* A set that no call leaves.
HoldsCalls(S) == \A e \in graph.edges : e.kind = "calls" /\ e.src \in S => e.tgt \in S

\* What is offered as dead is just what no chain of calls from a root reaches.
DeadIsUnreached ==
    query.task = "dead" /\ outcome = "done" =>
       Dead = {n \in graph.callables :
                 \E S \in SUBSET Nodes : graph.roots \subseteq S /\ HoldsCalls(S) /\ n \notin S}

\* A neighborhood holds every symbol within the radius, whichever way edges point,
\* unless it is truncated; then it is as large as the limit allows, and nothing left
\* out is nearer than anything in it.
NeighborhoodIsExact ==
    query.task = "neighborhood" /\ outcome = "done" =>
       IF Truncated
       THEN /\ Cardinality(Shown) = IF query.limit < 0 THEN 0 ELSE query.limit
            /\ \A n \in Shown, m \in graph.nodes \ Shown : \A k \in 0 .. level[n] - 1 : ~ Walk(m, k)
       ELSE Shown = {n \in graph.nodes : n = query.seed \/ Within(n)}
=============================================================================
