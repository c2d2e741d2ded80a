------------------------------ MODULE GraphDiff ------------------------------
(***************************************************************************)
(* queueGraphDiff (pkg/indexer/diff.go): the batch that turns the stored   *)
(* graph into a freshly resolved one, carrying only what differs.          *)
(***************************************************************************)
EXTENDS GraphBatch

\* A resolved graph: the node rows by id and the edge rows by key, counts as
\* the resolver sets them.
Resolved == [nodes : [Ids -> Maybe(Node)], edges : [EdgeKeys -> Maybe(Counts)]]

\* What the store makes of it.
Stored(res) == [nodes |-> res.nodes,
                edges |-> [k \in EdgeKeys |-> IF res.edges[k] = Absent THEN Absent
                                              ELSE Normalize(res.edges[k])]]

\* Every edge of the graph joins two of its nodes.
Closed(res) == \A k \in Keys(res.edges) : {k.src, k.tgt} \subseteq Keys(res.nodes)

\* The rows of `new` that `old` does not have, or has otherwise.
Changes(old, new) == [k \in DOMAIN new |-> IF new[k] = old[k] THEN Absent ELSE new[k]]

\* A slip: external nodes, which no file owns, are left to look after themselves.
OwnedNodesOnly(b, oldNodes, oldEdges, res) ==
    [b EXCEPT !.deletedNodes = @ \cup (Keys(oldNodes) \ Keys(res.nodes)),
              !.deletedEdges = @ \cup (Keys(oldEdges) \ Keys(res.edges)),
              !.nodes = [id \in Ids |-> IF id \in External THEN Absent
                                        ELSE Changes(oldNodes, res.nodes)[id]],
              !.edges = Changes(oldEdges, Stored(res).edges)]

QueueGraphDiff(b, oldNodes, oldEdges, res) ==
    [b EXCEPT !.deletedNodes = @ \cup (Keys(oldNodes) \ Keys(res.nodes)),
              !.deletedEdges = @ \cup (Keys(oldEdges) \ Keys(res.edges)),
              !.nodes = Changes(oldNodes, res.nodes),
              !.edges = Changes(oldEdges, Stored(res).edges)]
=============================================================================
