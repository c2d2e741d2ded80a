------------------------------ MODULE CodeGraph ------------------------------
(***************************************************************************)
(* The symbol graph in memory (pkg/analysis/graph.go), which the analyses  *)
(* read and none of them changes.                                          *)
(***************************************************************************)
EXTENDS Integers, FiniteSets

CONSTANTS
    Nodes,      \* node ids
    Kinds,      \* kinds of edges, with "calls" among them
    Graphs      \* the graphs that may be asked about

Edge == [src : Nodes, tgt : Nodes, kind : Kinds, line : Nat]

\* `nodes` are those with a row of their own: nodes and edges are read one after
\* the other, so an edge may have an end that is not among them.  `roots` and
\* `callables` are the nodes of which isRoot holds, and the functions and methods.
Graph == [nodes : SUBSET Nodes, edges : SUBSET Edge, roots : SUBSET Nodes, callables : SUBSET Nodes]

ASSUME CodeGraphAssumption ==
    /\ IsFiniteSet(Nodes)
    /\ \A g \in Graphs : /\ g \in Graph
                         /\ g.roots \subseteq g.nodes /\ g.callables \subseteq g.nodes

VARIABLE graph
=============================================================================
