----------------------------- MODULE GraphBatch -----------------------------
(***************************************************************************)
(* The tables of one repository's graph (pkg/store/schema.go), the batch   *)
(* of queued changes (pkg/store/write.go) and the net effect of writing a  *)
(* whole batch.  A table is a function from its primary key to a row, with *)
(* Absent where there is no row.                                           *)
(*                                                                         *)
(* A node row is the file that owns it and a text that stands for every    *)
(* other column.  An edge row is its candidate count, which stands for the *)
(* two columns outside the primary key.                                    *)
(***************************************************************************)
EXTENDS Naturals, FiniteSets

CONSTANTS
    Ids,        \* node ids
    External,   \* ids of the synthetic nodes of external symbols
    Files,      \* paths of source files
    Texts,      \* the columns of a node other than id and file_path
    EdgeKeys,   \* primary keys of edges
    Counts,     \* candidate counts the resolver may emit, 0 when it set none
    Records,    \* rows of files, but for the path
    Parses,     \* rows of file_irs, but for the path
    Absent,     \* marks a missing row
    NoFile      \* file_path of a node no file owns

ASSUME EdgeKeysAssumption == EdgeKeys \subseteq [src : Ids, tgt : Ids, line : Nat]
ASSUME CountsAssumption == Counts \subseteq Nat
ASSUME ExternalAssumption == External \subseteq Ids

Node == [file : Files \cup {NoFile}, text : Texts]

ASSUME AbsentAssumption ==
    /\ Absent \notin Node /\ Absent \notin Nat
    /\ Absent \notin Records /\ Absent \notin Parses

Maybe(S) == S \cup {Absent}

\* insertEdges and normalizeEdge store a count of 1 where none was set.
Normalize(c) == IF c = 0 THEN 1 ELSE c

Labels == {Normalize(c) : c \in Counts}

Tables == [nodes : [Ids -> Maybe(Node)],
           edges : [EdgeKeys -> Maybe(Labels)],
           files : [Files -> Maybe(Records)],
           irs   : [Files -> Maybe(Parses)]]

EmptyTables == [nodes |-> [id \in Ids |-> Absent],
                edges |-> [k \in EdgeKeys |-> Absent],
                files |-> [f \in Files |-> Absent],
                irs   |-> [f \in Files |-> Absent]]

Batch == [deletedEdges : SUBSET EdgeKeys,
          deletedNodes : SUBSET Ids,
          touched      : [Files -> Maybe(Records)],
          removed      : SUBSET Files,
          nodes        : [Ids -> Maybe(Node)],
          edges        : [EdgeKeys -> Maybe(Counts \cup Labels)],
          recorded     : [Files -> Maybe(Records)],
          irs          : [Files -> Maybe(Parses)]]

NewBatch == [deletedEdges |-> {},
             deletedNodes |-> {},
             touched      |-> [f \in Files |-> Absent],
             removed      |-> {},
             nodes        |-> [id \in Ids |-> Absent],
             edges        |-> [k \in EdgeKeys |-> Absent],
             recorded     |-> [f \in Files |-> Absent],
             irs          |-> [f \in Files |-> Absent]]

\* A node of an external symbol is the only one no file owns.
NodesFor(id) == {n \in Node : id \in External <=> n.file = NoFile}

\* One call of AddNode, AddEdge, TouchFile, RemoveFile, RecordFile, DeleteNode,
\* DeleteEdge or PutIR turns batch b into batch c.
Queues(b, c) ==
    \/ \E id \in Ids : \/ \E n \in NodesFor(id) : c = [b EXCEPT !.nodes[id] = n]
                       \/ c = [b EXCEPT !.deletedNodes = @ \cup {id}]
    \/ \E k \in EdgeKeys : \/ \E n \in Counts : c = [b EXCEPT !.edges[k] = n]
                           \/ c = [b EXCEPT !.deletedEdges = @ \cup {k}]
    \/ \E f \in Files : \/ \E r \in Records : \/ c = [b EXCEPT !.touched[f] = r]
                                             \/ c = [b EXCEPT !.recorded[f] = r]
                       \/ \E ir \in Parses : c = [b EXCEPT !.irs[f] = ir]
                       \/ c = [b EXCEPT !.removed = @ \cup {f}]

Keys(table) == {k \in DOMAIN table : table[k] # Absent}

\* `over` wherever it has a row, `base` elsewhere: an upsert of many rows.
Upsert(base, over) ==
    [k \in DOMAIN base |-> IF over[k] # Absent THEN over[k] ELSE base[k]]

Without(table, ks) == [k \in DOMAIN table |-> IF k \in ks THEN Absent ELSE table[k]]

OwnedBy(nodes, fs) == {id \in Keys(nodes) : nodes[id].file \in fs}

-----------------------------------------------------------------------------
(* The net effect of Store.Commit, in the order it promises: deletes and   *)
(* purges, then nodes, then edges, then file records, then cached parses.  *)

GoneNodes(t, b) ==
    b.deletedNodes \cup OwnedBy(t.nodes, b.removed \cup Keys(b.touched))

Touching(ids) == {k \in EdgeKeys : k.src \in ids \/ k.tgt \in ids}

Applied(t, b) ==
    [nodes |-> Upsert(Without(t.nodes, GoneNodes(t, b)), b.nodes),
     edges |-> Upsert(Without(t.edges, b.deletedEdges \cup Touching(GoneNodes(t, b))),
                      [k \in EdgeKeys |-> IF b.edges[k] = Absent THEN Absent
                                          ELSE Normalize(b.edges[k])]),
     files |-> Upsert(Upsert(Without(t.files, b.removed), b.touched), b.recorded),
     irs   |-> Upsert(Without(t.irs, b.removed), b.irs)]

\* A foreign key of edges fails: a new edge has an endpoint that no node row
\* carries once every node of the batch is in.
Refused(t, b) ==
    \E k \in Keys(b.edges) : ~ {k.src, k.tgt} \subseteq Keys(Applied(t, b).nodes)

\* Every edge has both its nodes.
ForeignKeys(t) == \A k \in Keys(t.edges) : {k.src, k.tgt} \subseteq Keys(t.nodes)
=============================================================================
