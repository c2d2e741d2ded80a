-------------------------------- MODULE Tools --------------------------------
(***************************************************************************)
(* The two tools of the MCP server that look for symbols by words:         *)
(* search_symbols (tools_orientation.go) and get_task_context              *)
(* (tool_task_context.go).                                                 *)
(*                                                                         *)
(* They ask the full-text index of the database and the graph in memory,   *)
(* which may be of another age: a hit of the index need not have a row in  *)
(* the graph.  What words are, and which symbols they fit, is given.       *)
(***************************************************************************)
EXTENDS CodeGraph, SequencesExt

CONSTANTS
    ToolArgs,       \* the arguments of a call, and what its words find
    Place,          \* node -> its place among equals: tests after code, and by id
    MaxSeeds        \* symbols a task starts from: 5 in the code

\* `index` are the hits of a query, best first, the index having one entry for a node, and
\* `fit` is how it fits the names of a node; `wanted` are the nodes of the kind asked for, external ones aside.  Of each token
\* of a task there are the hits, and the names that equal or contain it.
SearchArgs == [tool : {"search"}, limit : Nat, index : {hits \in Seq(Nodes) : IsInjective(hits)},
               fit : [Nodes -> {"exact", "prefix", "part", "none"}], wanted : SUBSET Nodes]
TaskArgs == [tool : {"task"}, limit : Int,
             tokens : Seq([hits : SUBSET Nodes, equal : SUBSET Nodes, part : SUBSET Nodes])]

ASSUME ToolsAssumption ==
    /\ \A x \in ToolArgs : x \in SearchArgs \/ x \in TaskArgs
    /\ Place \in [Nodes -> Nat] /\ IsInjective(Place)
    /\ MaxSeeds \in Nat

VARIABLES
    args,
    step,       \* "begin", "names", "seeds" or "done"
    matches,    \* search_symbols: node -> rank
    context,    \* get_task_context: contextNodeMap
    left        \* the seeds still to be added to it

toolVars == <<args, step, matches, context, left>>

-----------------------------------------------------------------------------
(* search_symbols.                                                         *)

\* A slip: the index is asked for no more than is shown.
HitsToShow == SubSeq(args.index, 1, Min({Len(args.index), IF args.limit = 0 THEN 20 ELSE args.limit}))

\* Store.Search, which takes a limit of 0 for 20.
Hits == SubSeq(args.index, 1, Min({Len(args.index), IF args.limit = 0 THEN 20 ELSE 2 * args.limit}))

Rank(n, other) ==
    CASE args.fit[n] = "exact" -> 0 [] args.fit[n] = "prefix" -> 1 [] OTHER -> other
Which(n) == CHOOSE i \in DOMAIN Hits : Hits[i] = n

AskIndex ==
    /\ args.tool = "search" /\ step = "begin" /\ step' = "names"
    /\ matches' = [n \in ToSet(Hits) \cap graph.nodes \cap args.wanted |-> Rank(n, 1 + Which(n))]
    /\ UNCHANGED <<args, context, left>>

\* The other nodes come in any order, and get the same ranks in each.
LookAtNames ==
    /\ step = "names" /\ step' = "done"
    /\ LET named == {n \in graph.nodes \cap args.wanted : args.fit[n] # "none"}
       IN matches' = [n \in DOMAIN matches \cup named |->
                         IF n \in DOMAIN matches THEN matches[n] ELSE Rank(n, 2 + Len(Hits))]
    /\ UNCHANGED <<args, context, left>>

Precedes(m, n) == matches[m] < matches[n] \/ (matches[m] = matches[n] /\ Place[m] < Place[n])

\* The answer, and whether there is more.
Listed == {n \in DOMAIN matches : Cardinality({m \in DOMAIN matches : Precedes(m, n)}) < args.limit}
MoreMatches == Cardinality(DOMAIN matches) > Cardinality(Listed)

-----------------------------------------------------------------------------
(* get_task_context.                                                       *)

Limit == IF args.limit <= 0 THEN 30 ELSE args.limit

Worth(g, n, t) ==
    (IF n \in t.hits THEN 3 ELSE 0)
      + (CASE n \in t.equal \cap g.nodes -> 5 [] n \in (t.part \ t.equal) \cap g.nodes -> 2 [] OTHER -> 0)
Scores(g, tokens, n) == FoldLeft(LAMBDA sum, t : sum + Worth(g, n, t), 0, tokens)
Score(n) == Scores(graph, args.tokens, n)
Better(m, n) == Score(m) > Score(n) \/ (Score(m) = Score(n) /\ Place[m] < Place[n])

Scored == {n \in graph.nodes : Score(n) > 0}
BestSeeds == {n \in Scored : Cardinality({m \in Scored : Better(m, n)}) < MaxSeeds}

NextTo(seed) == {n \in graph.nodes : \E e \in graph.edges : {e.src, e.tgt} = {seed, n}}

\* Neighborhood of radius 1, by what module Reach shows of it.
Neighborhoods(seed) ==
    LET near == {seed} \cup NextTo(seed)
    IN {s \in kSubset(Min({Limit, Cardinality(near)}), near) : seed \in s}

\* A slip: it stops one node early.
FillShort(found, sub) ==
    found \cup {n \in sub : Cardinality(found \cup {m \in sub : Place[m] < Place[n]}) + 1 < Limit}

\* The nodes of a neighborhood are added by id, up to the limit.
Fill(found, sub) ==
    found \cup {n \in sub : Cardinality(found \cup {m \in sub : Place[m] < Place[n]}) < Limit}

ScoreSymbols ==
    /\ args.tool = "task" /\ step = "begin"
    /\ left' = BestSeeds
    /\ step' = IF BestSeeds = {} THEN "done" ELSE "seeds"
    /\ UNCHANGED <<args, matches, context>>

\* A seed is added whether there is room for it or not.
AddSeed ==
    /\ step = "seeds"
    /\ \E seed \in left :
          /\ \A n \in left \ {seed} : Better(seed, n)
          /\ \E sub \in Neighborhoods(seed) : context' = Fill(context \cup {seed}, sub)
          /\ left' = left \ {seed}
    /\ step' = IF left' = {} THEN "done" ELSE step
    /\ UNCHANGED <<args, matches>>

Crowded == Cardinality(context) >= Limit

-----------------------------------------------------------------------------
ToolsInit == args \in ToolArgs /\ step = "begin" /\ matches = <<>> /\ context = {} /\ left = {}

ToolsNext == AskIndex \/ LookAtNames \/ ScoreSymbols \/ AddSeed

ToolsSpec == graph \in Graphs /\ ToolsInit /\ [][ToolsNext /\ UNCHANGED graph]_<<graph, toolVars>>

-----------------------------------------------------------------------------
(* What must hold.                                                         *)

\* All that a search might show: by the index or by name.
Findable == {n \in args.wanted \cap graph.nodes : n \in ToSet(args.index) \/ args.fit[n] # "none"}

\* The index gives twice as many hits as are shown.  That is enough to be honest, unless
\* hits are of another kind or not in the graph: an answer that does not say it is
\* truncated shows all there is; one that does is full.  A symbol whose name is the
\* query is never left out for one whose name is not, wherever the index has it.
SearchIsHonest ==
    args.tool = "search" /\ step = "done" =>
       /\ ToSet(args.index) \subseteq args.wanted \cap graph.nodes =>
             IF MoreMatches THEN Cardinality(Listed) = args.limit ELSE Listed = Findable
       /\ \A n \in Listed, m \in Findable \ Listed : args.fit[m] = "exact" => args.fit[n] = "exact"

\* A task's context has its seeds and nothing but symbols next to one; if it is not said
\* to be truncated, it has all of these, although seeds and neighbours share one limit,
\* and each neighborhood was cut by it first.  Of the seeds, all but one may go beyond it.
ContextIsWhole ==
    args.tool = "task" /\ step = "done" =>
       LET near == BestSeeds \cup UNION {NextTo(s) : s \in BestSeeds}
       IN /\ BestSeeds \subseteq context /\ context \subseteq near
          /\ ~ Crowded => context = near
          /\ Cardinality(context) <= Limit + Max({1, Cardinality(BestSeeds)}) - 1
=============================================================================
