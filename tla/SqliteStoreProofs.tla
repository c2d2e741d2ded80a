-------------------------- MODULE SqliteStoreProofs --------------------------
(***************************************************************************)
(* Proofs about SqliteStore, for every set of nodes, edges and files and   *)
(* every sequence of batches.                                              *)
(***************************************************************************)
EXTENDS SqliteStore, TLAPS

\* Deleting rows keeps a table a table.
LEMMA WithoutType ==
    ASSUME NEW K, NEW V, NEW t \in [K -> Maybe(V)], NEW ks
    PROVE  Without(t, ks) \in [K -> Maybe(V)]
  BY DEF Without, Maybe

\* So does writing rows over it.
LEMMA UpsertType ==
    ASSUME NEW K, NEW V, NEW t \in [K -> Maybe(V)], NEW u \in [K -> Maybe(V)]
    PROVE  Upsert(t, u) \in [K -> Maybe(V)]
  BY DEF Upsert, Maybe

\* A stored count is a label, whether it was stored before or not.
LEMMA NormalizeType == \A c \in Counts \cup Labels : Normalize(c) \in Labels
  BY CountsAssumption DEF Labels, Normalize

\* A call that queues a row turns a batch into a batch.
LEMMA QueuesType ==
    ASSUME NEW b \in Batch, NEW c, Queues(b, c)
    PROVE  c \in Batch
  <1>1. ASSUME NEW id \in Ids, NEW n \in NodesFor(id), c = [b EXCEPT !.nodes[id] = n]
        PROVE  c \in Batch
    BY <1>1 DEF NodesFor, Batch, Maybe
  <1>2. ASSUME NEW id \in Ids, c = [b EXCEPT !.deletedNodes = @ \cup {id}] PROVE c \in Batch
    BY <1>2 DEF Batch
  <1>3. ASSUME NEW k \in EdgeKeys, NEW n \in Counts, c = [b EXCEPT !.edges[k] = n]
        PROVE  c \in Batch
    BY <1>3 DEF Batch, Maybe
  <1>4. ASSUME NEW k \in EdgeKeys, c = [b EXCEPT !.deletedEdges = @ \cup {k}] PROVE c \in Batch
    BY <1>4 DEF Batch
  <1>5. ASSUME NEW f \in Files, NEW r \in Records,
               c = [b EXCEPT !.touched[f] = r] \/ c = [b EXCEPT !.recorded[f] = r]
        PROVE  c \in Batch
    BY <1>5 DEF Batch, Maybe
  <1>7. ASSUME NEW f \in Files, NEW ir \in Parses, c = [b EXCEPT !.irs[f] = ir]
        PROVE  c \in Batch
    BY <1>7 DEF Batch, Maybe
  <1>6. ASSUME NEW f \in Files, c = [b EXCEPT !.removed = @ \cup {f}] PROVE c \in Batch
    BY <1>6 DEF Batch
  <1>. QED BY <1>1, <1>2, <1>3, <1>4, <1>5, <1>6, <1>7 DEF Queues

\* Dropping nodes, with their entries and edges, leaves a disk.
LEMMA DropNodesType ==
    ASSUME NEW d \in Disk, NEW ids \in SUBSET Ids
    PROVE  DropNodes(d, ids) \in Disk
  <1>1. ClearFts(d, ids) \in Disk
    BY WithoutType DEF ClearFts, Disk
  <1>2. ASSUME NEW e \in Disk PROVE DropRows(e, ids) \in Disk
    BY WithoutType DEF DropRows, Disk
  <1>. QED BY <1>1, <1>2 DEF DropNodes

\* Writing a node and its entry leaves a disk.
LEMMA PutNodeType ==
    ASSUME NEW d \in Disk, NEW id \in Ids, NEW n \in Node, NEW r \in RowIds
    PROVE  PutNode(d, id, n, r) \in Disk
  BY DEF PutNode, Disk, Maybe, Entry, Node

\* The empty database and the empty batch are well-formed.
LEMMA EmptyTypes == EmptyDisk \in Disk /\ NewBatch \in Batch
  BY DEF EmptyDisk, Disk, NewBatch, Batch, Maybe

(* Every action keeps the variables in their types.                        *)
THEOREM TypeCorrect == Spec => []TypeOK
<1>1. Init => TypeOK
  BY EmptyTypes DEF Init, TypeOK
<1>2. TypeOK /\ [Next]_vars => TypeOK'
  <2>. SUFFICES ASSUME TypeOK, [Next]_vars PROVE TypeOK'
    OBVIOUS
  <2>. USE DEF TypeOK
  <2>2. CASE Queue
    <3>1. batch' \in Batch
      BY <2>2, QueuesType DEF Queue
    <3>. QED BY <2>2, <3>1 DEF Queue
  <2>3. CASE Begin
    BY <2>3 DEF Begin
  <2>4. ASSUME NEW d \in Disk, NEW rest \in Batch, Step(d, rest) PROVE TypeOK'
    BY <2>4 DEF Step
  <2>5. ASSUME NEW k \in EdgeKeys, DeleteEdgeRow(k) PROVE TypeOK'
    <3>1. [tx EXCEPT !.edges[k] = Absent] \in Disk
      BY DEF Disk, Maybe
    <3>2. [todo EXCEPT !.deletedEdges = @ \ {k}] \in Batch
      BY DEF Batch
    <3>. QED BY <2>5, <2>4, <3>1, <3>2 DEF DeleteEdgeRow
  <2>6. ASSUME NEW k \in EdgeKeys, InsertEdge(k) PROVE TypeOK'
    <3>1. todo.edges[k] \in Counts \cup Labels
      BY <2>6 DEF InsertEdge, Keys, Batch, Maybe
    <3>2. [tx EXCEPT !.edges[k] = Normalize(todo.edges[k])] \in Disk
      BY <3>1, NormalizeType DEF Disk, Maybe
    <3>3. [todo EXCEPT !.edges[k] = Absent] \in Batch
      BY DEF Batch, Maybe
    <3>. QED BY <2>6, <2>4, <3>2, <3>3 DEF InsertEdge
  <2>7. ASSUME NEW id \in Ids, DeleteNodeRow(id) PROVE TypeOK'
    <3>1. [todo EXCEPT !.deletedNodes = @ \ {id}] \in Batch
      BY DEF Batch
    <3>. QED BY <2>7, <2>4, <3>1, DropNodesType DEF DeleteNodeRow
  <2>8. ASSUME NEW f \in Files PROVE OwnedBy(tx.nodes, {f}) \in SUBSET Ids
    BY DEF OwnedBy, Keys, Disk
  <2>9. ASSUME NEW f \in Files, PurgeTouched(f) PROVE TypeOK'
    <3>1. [todo EXCEPT !.touched[f] = Absent] \in Batch
      BY DEF Batch, Maybe
    <3>. QED BY <2>9, <2>4, <2>8, <3>1, DropNodesType DEF PurgeTouched
  <2>10. ASSUME NEW f \in Files, RemovePath(f) PROVE TypeOK'
    <3>. DEFINE d == DropNodes(tx, OwnedBy(tx.nodes, {f}))
    <3>1. d \in Disk
      BY <2>8, DropNodesType
    <3>2. [d EXCEPT !.files[f] = Absent, !.irs[f] = Absent] \in Disk
      BY <3>1 DEF Disk, Maybe
    <3>3. [todo EXCEPT !.removed = @ \ {f}] \in Batch
      BY DEF Batch
    <3>. QED BY <2>10, <2>4, <3>2, <3>3 DEF RemovePath
  <2>11. ASSUME NEW id \in Ids, NEW r \in RowIds, InsertNode(id, r) PROVE TypeOK'
    <3>1. todo.nodes[id] \in Node
      BY <2>11 DEF InsertNode, Keys, Batch, Maybe
    <3>2. [todo EXCEPT !.nodes[id] = Absent] \in Batch
      BY DEF Batch, Maybe
    <3>. QED BY <2>11, <2>4, <3>1, <3>2, PutNodeType DEF InsertNode
  <2>12. CASE Finish
    <3>1. Upsert(Upsert(tx.files, batch.touched), batch.recorded) \in [Files -> Maybe(Records)]
      BY UpsertType DEF Disk, Batch
    <3>2. Upsert(tx.irs, batch.irs) \in [Files -> Maybe(Parses)]
      BY UpsertType DEF Disk, Batch
    <3>3. disk' \in Disk
      BY <2>12, <3>1, <3>2 DEF Finish, Disk
    <3>. QED BY <2>12, <3>3, EmptyTypes DEF Finish
  <2>13. CASE Rollback
    BY <2>13, EmptyTypes DEF Rollback
  <2>14. ASSUME NEW v \in Versions, Open(v) PROVE TypeOK'
    BY <2>14, EmptyTypes DEF Open
  <2>15. CASE UNCHANGED vars
    BY <2>15 DEF vars
  <2>. QED
    BY <2>2, <2>3, <2>5, <2>6, <2>7, <2>9, <2>10, <2>11, <2>12, <2>13, <2>14, <2>15
       DEF Next, Write
<1>. QED BY <1>1, <1>2, PTL DEF Spec

-----------------------------------------------------------------------------
(* Each statement of the transaction keeps its view sound.                 *)

\* An empty database is fit to commit.
LEMMA EmptySound == Sound(EmptyDisk)
  BY AbsentAssumption, EdgeKeysAssumption
     DEF Sound, EmptyDisk, OneRowPerNode, Indexed, NoOrphanEntry, ForeignKeys, Keys

\* Clearing the entries of a set of nodes and then their rows leaves neither
\* an entry without its node nor an edge without its ends.
LEMMA DropNodesSound ==
    ASSUME NEW d \in Disk, Sound(d), NEW ids \in SUBSET Ids
    PROVE  Sound(DropNodes(d, ids))
  <1>. DEFINE e == DropNodes(d, ids)
  <1>1. /\ \A id \in Ids : e.nodes[id] = IF id \in ids THEN Absent ELSE d.nodes[id]
        /\ \A id \in Ids : e.rowid[id] = IF id \in ids THEN Absent ELSE d.rowid[id]
        /\ \A r \in RowIds : e.fts[r] = IF r \in {d.rowid[id] : id \in ids} THEN Absent ELSE d.fts[r]
        /\ \A k \in EdgeKeys : e.edges[k] = IF k.src \in ids \/ k.tgt \in ids THEN Absent ELSE d.edges[k]
    BY DEF DropNodes, DropRows, ClearFts, Without, Touching, Disk
  <1>2. /\ DOMAIN e.nodes = Ids /\ DOMAIN e.edges = EdgeKeys /\ DOMAIN e.fts = RowIds
        /\ DOMAIN d.nodes = Ids /\ DOMAIN d.edges = EdgeKeys /\ DOMAIN d.fts = RowIds
    BY DEF DropNodes, DropRows, ClearFts, Without, Disk
  <1>3. \A id \in Ids : d.rowid[id] # Absent => d.rowid[id] \in RowIds
    BY DEF Disk, Maybe
  <1>4. \A r \in RowIds : d.fts[r] # Absent => d.fts[r].id \in Ids
    BY DEF Disk, Maybe, Entry
  <1>. HIDE DEF e
  <1>5. OneRowPerNode(e)
    BY <1>1 DEF Sound, OneRowPerNode
  <1>6. Indexed(e)
    BY <1>1, <1>2, <1>3 DEF Sound, OneRowPerNode, Indexed, Keys
  <1>7. NoOrphanEntry(e)
    BY <1>1, <1>2, <1>4 DEF Sound, NoOrphanEntry, Keys
  <1>8. ForeignKeys(e)
    BY <1>1, <1>2, EdgeKeysAssumption DEF Sound, ForeignKeys, Keys
  <1>. QED BY <1>5, <1>6, <1>7, <1>8 DEF Sound, e

\* An upsert either keeps the row id of the node or takes one that is free, so
\* it never lands on the entry of another node.
LEMMA PutNodeSound ==
    ASSUME NEW d \in Disk, Sound(d), NEW id \in Ids, NEW n \in Node, NEW r \in RowIds,
           RowIdFor(d, id, r)
    PROVE  Sound(PutNode(d, id, n, r))
  <1>. DEFINE e == PutNode(d, id, n, r)
  <1>1. /\ \A i \in Ids : e.nodes[i] = IF i = id THEN n ELSE d.nodes[i]
        /\ \A i \in Ids : e.rowid[i] = IF i = id THEN r ELSE d.rowid[i]
        /\ \A q \in RowIds : e.fts[q] = IF q = r /\ id \notin External
                                        THEN [id |-> id, text |-> n.text] ELSE d.fts[q]
        /\ e.edges = d.edges
    BY DEF PutNode, Disk
  <1>2. /\ DOMAIN e.nodes = Ids /\ DOMAIN e.edges = EdgeKeys /\ DOMAIN e.fts = RowIds
        /\ DOMAIN d.nodes = Ids /\ DOMAIN d.edges = EdgeKeys /\ DOMAIN d.fts = RowIds
    BY DEF PutNode, Disk
  <1>3. n # Absent /\ r # Absent /\ [id |-> id, text |-> n.text] # Absent
    BY AbsentAssumption, EntryAssumption DEF Node, Entry
  <1>4. \A i \in Ids : d.rowid[i] # Absent => d.rowid[i] \in RowIds
    BY DEF Disk, Maybe
  <1>5. \A q \in RowIds : d.fts[q] # Absent => d.fts[q].id \in Ids
    BY DEF Disk, Maybe, Entry
  <1>6. \A i \in Ids : i # id => d.rowid[i] # r
    BY <1>3 DEF RowIdFor, Sound, OneRowPerNode
  <1>. HIDE DEF e
  <1>7. OneRowPerNode(e)
    BY <1>1, <1>3, <1>6 DEF Sound, OneRowPerNode
  <1>8. Indexed(e)
    BY <1>1, <1>2, <1>4, <1>6 DEF Sound, OneRowPerNode, Indexed, Keys
  <1>9. d.fts[r] # Absent => d.fts[r].id = id
    BY <1>2, <1>5, <1>6 DEF Sound, NoOrphanEntry, Keys
  <1>10. NoOrphanEntry(e)
    <2>. SUFFICES ASSUME NEW q \in RowIds, e.fts[q] # Absent
                  PROVE  /\ e.fts[q].id \in Keys(e.nodes) \ External
                         /\ e.rowid[e.fts[q].id] = q
      BY <1>2 DEF NoOrphanEntry, Keys
    <2>1. CASE q = r /\ id \notin External
      BY <2>1, <1>1, <1>2, <1>3 DEF Keys
    <2>2. CASE ~ (q = r /\ id \notin External)
      <3>1. e.fts[q] = d.fts[q]
        BY <2>2, <1>1
      <3>2. /\ d.fts[q].id \in Keys(d.nodes) \ External
            /\ d.rowid[d.fts[q].id] = q
        BY <3>1, <1>2 DEF Sound, NoOrphanEntry, Keys
      <3>3. d.fts[q].id # id
        BY <3>2, <2>2, EntryAssumption DEF RowIdFor
      <3>. QED BY <3>1, <3>2, <3>3, <1>1, <1>2 DEF Keys
    <2>. QED BY <2>1, <2>2
  <1>11. ForeignKeys(e)
    BY <1>1, <1>2, <1>3, EdgeKeysAssumption DEF Sound, ForeignKeys, Keys
  <1>. QED BY <1>7, <1>8, <1>10, <1>11 DEF Sound, e

\* Sound says nothing of the file tables.
LEMMA SoundSame ==
    ASSUME NEW d, NEW e, Sound(d),
           e.nodes = d.nodes, e.edges = d.edges, e.rowid = d.rowid, e.fts = d.fts
    PROVE  Sound(e)
  BY DEF Sound, OneRowPerNode, Indexed, NoOrphanEntry, ForeignKeys

\* What is committed, and what a transaction would commit, is sound.
LEMMA SoundInvariant == Spec => [](TypeOK /\ TxSound)
<1>1. Init => TxSound
  BY EmptySound DEF Init, TxSound
<1>2. TypeOK /\ TxSound /\ [Next]_vars => TxSound'
  <2>. SUFFICES ASSUME TypeOK, TxSound, [Next]_vars PROVE TxSound'
    OBVIOUS
  <2>. USE DEF TxSound
  <2>0. tx \in Disk /\ todo \in Batch
    BY DEF TypeOK
  <2>2. CASE Queue
    BY <2>2 DEF Queue
  <2>3. CASE Begin
    BY <2>3 DEF Begin
  <2>4. ASSUME NEW d, NEW rest, Step(d, rest), Sound(d) PROVE TxSound'
    BY <2>4 DEF Step
  <2>5. ASSUME NEW k \in EdgeKeys, DeleteEdgeRow(k) PROVE TxSound'
    <3>. DEFINE d == [tx EXCEPT !.edges[k] = Absent]
    <3>1. ForeignKeys(d)
      BY <2>0 DEF Sound, ForeignKeys, Keys, Disk
    <3>2. d.nodes = tx.nodes /\ d.rowid = tx.rowid /\ d.fts = tx.fts
      BY <2>0 DEF Disk
    <3>. HIDE DEF d
    <3>3. Sound(d)
      BY <3>1, <3>2 DEF Sound, OneRowPerNode, Indexed, NoOrphanEntry
    <3>. QED BY <2>5, <2>4, <3>3 DEF DeleteEdgeRow, d
  <2>6. ASSUME NEW k \in EdgeKeys, InsertEdge(k) PROVE TxSound'
    <3>. DEFINE d == [tx EXCEPT !.edges[k] = Normalize(todo.edges[k])]
    <3>1. ForeignKeys(d)
      BY <2>0, <2>6 DEF Sound, ForeignKeys, Keys, Disk, InsertEdge, EndsExist
    <3>2. d.nodes = tx.nodes /\ d.rowid = tx.rowid /\ d.fts = tx.fts
      BY <2>0 DEF Disk
    <3>. HIDE DEF d
    <3>3. Sound(d)
      BY <3>1, <3>2 DEF Sound, OneRowPerNode, Indexed, NoOrphanEntry
    <3>. QED BY <2>6, <2>4, <3>3 DEF InsertEdge, d
  <2>7. ASSUME NEW id \in Ids, DeleteNodeRow(id) PROVE TxSound'
    BY <2>7, <2>4, <2>0, DropNodesSound DEF DeleteNodeRow
  <2>8. ASSUME NEW f \in Files PROVE Sound(DropNodes(tx, OwnedBy(tx.nodes, {f})))
    <3>1. OwnedBy(tx.nodes, {f}) \in SUBSET Ids
      BY <2>0 DEF OwnedBy, Keys, Disk
    <3>. QED BY <3>1, <2>0, DropNodesSound
  <2>9. ASSUME NEW f \in Files, PurgeTouched(f) PROVE TxSound'
    BY <2>9, <2>4, <2>8 DEF PurgeTouched
  <2>10. ASSUME NEW f \in Files, RemovePath(f) PROVE TxSound'
    <3>. DEFINE d == DropNodes(tx, OwnedBy(tx.nodes, {f}))
                e == [d EXCEPT !.files[f] = Absent, !.irs[f] = Absent]
    <3>1. e.nodes = d.nodes /\ e.edges = d.edges /\ e.rowid = d.rowid /\ e.fts = d.fts
      BY DEF DropNodes, DropRows, ClearFts
    <3>2. Sound(e)
      BY <3>1, <2>8, SoundSame
    <3>. QED BY <2>10, <2>4, <3>2 DEF RemovePath
  <2>11. ASSUME NEW id \in Ids, NEW r \in RowIds, InsertNode(id, r) PROVE TxSound'
    <3>1. todo.nodes[id] \in Node
      BY <2>0, <2>11 DEF InsertNode, Keys, Batch, Maybe
    <3>. QED BY <2>11, <2>4, <2>0, <3>1, PutNodeSound DEF InsertNode
  <2>12. CASE Finish
    <3>1. /\ disk'.nodes = tx.nodes /\ disk'.edges = tx.edges
          /\ disk'.rowid = tx.rowid /\ disk'.fts = tx.fts
      BY <2>12, <2>0 DEF Finish, Disk
    <3>2. Sound(disk')
      BY <3>1, SoundSame
    <3>. QED BY <2>12, <3>2 DEF Finish
  <2>13. CASE Rollback
    BY <2>13 DEF Rollback
  <2>14. ASSUME NEW v \in Versions, Open(v) PROVE TxSound'
    BY <2>14, EmptySound DEF Open
  <2>15. CASE UNCHANGED vars
    BY <2>15 DEF vars
  <2>. QED
    BY <2>2, <2>3, <2>5, <2>6, <2>7, <2>9, <2>10, <2>11, <2>12, <2>13, <2>14, <2>15
       DEF Next, Write
<1>. QED BY <1>1, <1>2, TypeCorrect, PTL DEF Spec

(* A reader of the database never meets an edge without both its nodes.    *)
THEOREM NoDanglingEdge == Spec => []CommittedForeignKeys
<1>1. TxSound => CommittedForeignKeys
  BY DEF TxSound, Sound, CommittedForeignKeys
<1>. QED BY <1>1, SoundInvariant, PTL

(* The full-text table and the node table never drift apart.               *)
THEOREM SearchFollowsNodes == Spec => []SearchMirrorsNodes
<1>1. TxSound => SearchMirrorsNodes
  BY DEF TxSound, Sound, SearchMirrorsNodes
<1>. QED BY <1>1, SoundInvariant, PTL

-----------------------------------------------------------------------------
(* The transaction, row by row, comes to what the batch as a whole means.  *)

NodeAfter(d, b, id) ==
    IF b.nodes[id] # Absent THEN b.nodes[id]
    ELSE IF id \in GoneNodes(TablesOf(d), b) THEN Absent ELSE d.nodes[id]

EdgeAfter(d, b, k) ==
    IF b.edges[k] # Absent THEN Normalize(b.edges[k])
    ELSE IF \/ k \in b.deletedEdges
            \/ k.src \in GoneNodes(TablesOf(d), b) \/ k.tgt \in GoneNodes(TablesOf(d), b)
         THEN Absent ELSE d.edges[k]

\* The outcome of a batch, row by row.
LEMMA AppliedRows ==
    ASSUME NEW d \in Disk, NEW b \in Batch
    PROVE  /\ Applied(TablesOf(d), b).nodes = [id \in Ids |-> NodeAfter(d, b, id)]
           /\ Applied(TablesOf(d), b).edges = [k \in EdgeKeys |-> EdgeAfter(d, b, k)]
  <1>. DEFINE t == TablesOf(d)
              u == Applied(t, b)
  <1>1. u.nodes = Upsert(Without(d.nodes, GoneNodes(t, b)), b.nodes)
    BY DEF Applied, TablesOf
  <1>2. u.nodes = [id \in Ids |-> NodeAfter(d, b, id)]
    BY <1>1 DEF Upsert, Without, Disk, NodeAfter
  <1>3. u.edges = Upsert(Without(d.edges, b.deletedEdges \cup Touching(GoneNodes(t, b))),
                         [k \in EdgeKeys |-> IF b.edges[k] = Absent THEN Absent
                                             ELSE Normalize(b.edges[k])])
    BY DEF Applied, TablesOf
  <1>4. \A k \in EdgeKeys : b.edges[k] # Absent => Normalize(b.edges[k]) # Absent
    BY CountsAssumption, AbsentAssumption DEF Normalize, Labels, Batch, Maybe
  <1>5. u.edges = [k \in EdgeKeys |-> EdgeAfter(d, b, k)]
    BY <1>3, <1>4 DEF Upsert, Without, Touching, Disk, EdgeAfter
  <1>. QED BY <1>2, <1>5

\* The nodes a batch drops: those it names, and those of its purged files.
LEMMA GoneRows ==
    ASSUME NEW d \in Disk, NEW b \in Batch
    PROVE  /\ GoneNodes(TablesOf(d), b) \subseteq Ids
           /\ \A id \in Ids : id \in GoneNodes(TablesOf(d), b) <=>
                 \/ id \in b.deletedNodes
                 \/ /\ d.nodes[id] # Absent
                    /\ \/ d.nodes[id].file \in b.removed
                       \/ /\ d.nodes[id].file \in Files
                          /\ b.touched[d.nodes[id].file] # Absent
  BY DEF GoneNodes, TablesOf, OwnedBy, Keys, Disk, Batch

\* What a batch drops depends on its deletes and purges alone.
LEMMA GoneSame ==
    ASSUME NEW d, NEW b, NEW e, NEW c, e.nodes = d.nodes, c.deletedNodes = b.deletedNodes,
           c.removed = b.removed, c.touched = b.touched
    PROVE  GoneNodes(TablesOf(e), c) = GoneNodes(TablesOf(d), b)
  BY DEF GoneNodes, TablesOf, OwnedBy, Keys

SameRest(d, b, e, c) ==
    /\ Applied(TablesOf(e), c).nodes = Applied(TablesOf(d), b).nodes
    /\ Applied(TablesOf(e), c).edges = Applied(TablesOf(d), b).edges

\* Two points of a transaction that lead to the same rows lead to the same tables.
LEMMA SameRows ==
    ASSUME NEW d \in Disk, NEW b \in Batch, NEW e \in Disk, NEW c \in Batch,
           \A id \in Ids : NodeAfter(e, c, id) = NodeAfter(d, b, id),
           \A k \in EdgeKeys : EdgeAfter(e, c, k) = EdgeAfter(d, b, k)
    PROVE  SameRest(d, b, e, c)
  <1>1. /\ Applied(TablesOf(d), b).nodes = [id \in Ids |-> NodeAfter(d, b, id)]
        /\ Applied(TablesOf(d), b).edges = [k \in EdgeKeys |-> EdgeAfter(d, b, k)]
        /\ Applied(TablesOf(e), c).nodes = [id \in Ids |-> NodeAfter(e, c, id)]
        /\ Applied(TablesOf(e), c).edges = [k \in EdgeKeys |-> EdgeAfter(e, c, k)]
    BY AppliedRows
  <1>2. [id \in Ids |-> NodeAfter(e, c, id)] = [id \in Ids |-> NodeAfter(d, b, id)]
    OBVIOUS
  <1>3. [k \in EdgeKeys |-> EdgeAfter(e, c, k)] = [k \in EdgeKeys |-> EdgeAfter(d, b, k)]
    OBVIOUS
  <1>. QED BY <1>1, <1>2, <1>3 DEF SameRest

\* Dropping some of the nodes the batch is going to drop changes nothing to
\* the outcome, as long as the rest still drops the others.
LEMMA DropKeepsRest ==
    ASSUME NEW d \in Disk, NEW b \in Batch, NEW e \in Disk, NEW c \in Batch,
           NEW ids \in SUBSET Ids,
           e.nodes = DropNodes(d, ids).nodes, e.edges = DropNodes(d, ids).edges,
           c.nodes = b.nodes, c.edges = b.edges, c.deletedEdges = b.deletedEdges,
           GoneNodes(TablesOf(d), b) = ids \cup GoneNodes(TablesOf(e), c)
    PROVE  SameRest(d, b, e, c)
  <1>1. /\ \A id \in Ids : e.nodes[id] = IF id \in ids THEN Absent ELSE d.nodes[id]
        /\ \A k \in EdgeKeys : e.edges[k] = IF k.src \in ids \/ k.tgt \in ids
                                             THEN Absent ELSE d.edges[k]
    BY DEF DropNodes, DropRows, ClearFts, Without, Touching, Disk
  <1>2. \A id \in Ids : NodeAfter(e, c, id) = NodeAfter(d, b, id)
    BY <1>1 DEF NodeAfter
  <1>3. \A k \in EdgeKeys : EdgeAfter(e, c, k) = EdgeAfter(d, b, k)
    BY <1>1 DEF EdgeAfter
  <1>. QED BY <1>2, <1>3, SameRows

Progress == RestApplies /\ EdgesAccepted

\* All along the transaction, the rest of the batch still leads to the outcome
\* of the whole of it.
LEMMA ProgressInvariant == Spec => [](TypeOK /\ TxSound /\ Progress)
<1>1. Init => Progress
  BY DEF Init, Progress, RestApplies, EdgesAccepted
<1>2. TypeOK /\ TxSound /\ Progress /\ [Next]_vars => Progress'
  <2>. SUFFICES ASSUME TypeOK, TxSound, Progress, [Next]_vars PROVE Progress'
    OBVIOUS
  <2>0. tx \in Disk /\ disk \in Disk /\ todo \in Batch /\ batch \in Batch
    BY DEF TypeOK
  <2>1. ASSUME ~writing' PROVE Progress'
    BY <2>1 DEF Progress, RestApplies, EdgesAccepted
  <2>2. CASE Queue
    BY <2>1, <2>2 DEF Queue
  <2>3. CASE Begin
    <3>1. tx = disk /\ tx' = disk /\ disk' = disk /\ todo' = batch /\ batch' = batch
      BY <2>3 DEF Begin, TxSound
    <3>2. /\ disk.files = Without(disk.files, batch.removed \ batch.removed)
          /\ disk.irs = Without(disk.irs, batch.removed \ batch.removed)
      BY <2>0 DEF Without, Disk
    <3>. QED BY <3>1, <3>2 DEF Progress, RestApplies, EdgesAccepted
  \* A step of the transaction, once it is seen to keep the rest the same.
  <2>4. ASSUME NEW d, NEW rest, Step(d, rest), SameRest(tx, todo, d, rest),
               d.files = Without(disk.files, batch.removed \ rest.removed),
               d.irs = Without(disk.irs, batch.removed \ rest.removed),
               rest.removed \subseteq batch.removed
        PROVE  RestApplies'
    BY <2>4 DEF Step, Progress, RestApplies, SameRest
  <2>5. ASSUME NEW d, NEW rest, Step(d, rest), ~NodesInserted, rest.edges = todo.edges
        PROVE  EdgesAccepted'
    BY <2>5 DEF Step, Progress, EdgesAccepted
  <2>6. ASSUME NEW k \in EdgeKeys, DeleteEdgeRow(k) PROVE Progress'
    <3>. DEFINE d == [tx EXCEPT !.edges[k] = Absent]
                c == [todo EXCEPT !.deletedEdges = @ \ {k}]
    <3>1. Step(d, c) /\ writing /\ k \in todo.deletedEdges
      BY <2>6 DEF DeleteEdgeRow, Step
    <3>2. d \in Disk /\ c \in Batch
      BY <2>0 DEF Disk, Batch, Maybe
    <3>3. /\ d.nodes = tx.nodes /\ d.files = tx.files /\ d.irs = tx.irs
          /\ \A e \in EdgeKeys : d.edges[e] = IF e = k THEN Absent ELSE tx.edges[e]
      BY <2>0 DEF Disk
    <3>4. /\ c.nodes = todo.nodes /\ c.edges = todo.edges /\ c.removed = todo.removed
          /\ c.touched = todo.touched /\ c.deletedNodes = todo.deletedNodes
          /\ c.deletedEdges = todo.deletedEdges \ {k}
      BY <2>0 DEF Batch
    <3>5. ~NodesInserted
      BY <3>1 DEF NodesInserted, Removed, Purged, NodesDeleted, EdgesDeleted
    <3>. HIDE DEF d, c
    <3>6. GoneNodes(TablesOf(d), c) = GoneNodes(TablesOf(tx), todo)
      BY <3>3, <3>4, GoneSame
    <3>7. SameRest(tx, todo, d, c)
      <4>1. \A id \in Ids : NodeAfter(d, c, id) = NodeAfter(tx, todo, id)
        BY <3>3, <3>4, <3>6 DEF NodeAfter
      <4>2. \A e \in EdgeKeys : EdgeAfter(d, c, e) = EdgeAfter(tx, todo, e)
        BY <3>1, <3>3, <3>4, <3>6 DEF EdgeAfter
      <4>. QED BY <2>0, <3>2, <4>1, <4>2, SameRows
    <3>8. RestApplies'
      BY <2>4, <3>1, <3>3, <3>4, <3>7 DEF Progress, RestApplies
    <3>. QED BY <2>5, <3>1, <3>4, <3>5, <3>8 DEF Progress
  <2>7. ASSUME NEW ids \in SUBSET Ids, NEW d \in Disk, NEW c \in Batch, Step(d, c),
               d.nodes = DropNodes(tx, ids).nodes, d.edges = DropNodes(tx, ids).edges,
               c.nodes = todo.nodes, c.edges = todo.edges, c.deletedEdges = todo.deletedEdges,
               GoneNodes(TablesOf(tx), todo) = ids \cup GoneNodes(TablesOf(d), c),
               d.files = Without(disk.files, batch.removed \ c.removed),
               d.irs = Without(disk.irs, batch.removed \ c.removed),
               c.removed \subseteq batch.removed,
               ~NodesInserted
        PROVE  Progress'
    BY <2>0, <2>4, <2>5, <2>7, DropKeepsRest DEF Progress
  <2>8. ASSUME NEW ids \in SUBSET Ids
        PROVE  LET d == DropNodes(tx, ids)
               IN  /\ d \in Disk /\ d.files = tx.files /\ d.irs = tx.irs
                   /\ \A id \in Ids : d.nodes[id] = IF id \in ids THEN Absent ELSE tx.nodes[id]
    <3>1. DropNodes(tx, ids) \in Disk
      BY <2>0, DropNodesType
    <3>. QED BY <3>1, <2>0 DEF DropNodes, DropRows, ClearFts, Without, Disk
  <2>9. ASSUME NEW id \in Ids, DeleteNodeRow(id) PROVE Progress'
    <3>. DEFINE d == DropNodes(tx, {id})
                c == [todo EXCEPT !.deletedNodes = @ \ {id}]
    <3>1. Step(d, c) /\ writing /\ id \in todo.deletedNodes
      BY <2>9 DEF DeleteNodeRow, Step
    <3>2. c \in Batch
      BY <2>0 DEF Batch
    <3>3. /\ d \in Disk /\ d.files = tx.files /\ d.irs = tx.irs
          /\ \A i \in Ids : d.nodes[i] = IF i = id THEN Absent ELSE tx.nodes[i]
      BY <2>8
    <3>4. /\ c.nodes = todo.nodes /\ c.edges = todo.edges /\ c.removed = todo.removed
          /\ c.deletedEdges = todo.deletedEdges /\ c.touched = todo.touched
          /\ c.deletedNodes = todo.deletedNodes \ {id}
      BY <2>0 DEF Batch
    <3>5. ~NodesInserted
      BY <3>1 DEF NodesInserted, Removed, Purged, NodesDeleted
    <3>6. GoneNodes(TablesOf(tx), todo) = {id} \cup GoneNodes(TablesOf(d), c)
      <4>. HIDE DEF d, c
      <4>. QED BY <2>0, <3>1, <3>2, <3>3, <3>4, GoneRows
    <3>7. d.nodes = DropNodes(tx, {id}).nodes /\ d.edges = DropNodes(tx, {id}).edges
      OBVIOUS
    <3>. HIDE DEF d, c
    <3>. QED BY <2>7, <3>1, <3>2, <3>3, <3>4, <3>5, <3>6, <3>7 DEF Progress, RestApplies
  <2>10. ASSUME NEW f \in Files
         PROVE  /\ OwnedBy(tx.nodes, {f}) \in SUBSET Ids
                /\ OwnedBy(tx.nodes, {f}) = {i \in Ids : tx.nodes[i] # Absent /\ tx.nodes[i].file = f}
    BY <2>0 DEF OwnedBy, Keys, Disk
  <2>11. ASSUME NEW f \in Files, PurgeTouched(f) PROVE Progress'
    <3>. DEFINE ids == OwnedBy(tx.nodes, {f})
                d == DropNodes(tx, ids)
                c == [todo EXCEPT !.touched[f] = Absent]
    <3>1. Step(d, c) /\ writing /\ todo.touched[f] # Absent
      BY <2>11 DEF PurgeTouched, Step, Keys
    <3>2. c \in Batch
      BY <2>0 DEF Batch, Maybe
    <3>3. /\ d \in Disk /\ d.files = tx.files /\ d.irs = tx.irs
          /\ \A i \in Ids : d.nodes[i] = IF i \in ids THEN Absent ELSE tx.nodes[i]
      BY <2>8, <2>10
    <3>4. /\ c.nodes = todo.nodes /\ c.edges = todo.edges /\ c.removed = todo.removed
          /\ c.deletedEdges = todo.deletedEdges /\ c.deletedNodes = todo.deletedNodes
          /\ \A g \in Files : c.touched[g] = IF g = f THEN Absent ELSE todo.touched[g]
      BY <2>0 DEF Batch
    <3>5. ~NodesInserted
      BY <2>11 DEF PurgeTouched, NodesInserted, Removed, Purged
    <3>6. GoneNodes(TablesOf(tx), todo) = ids \cup GoneNodes(TablesOf(d), c)
      <4>1. ids = {i \in Ids : tx.nodes[i] # Absent /\ tx.nodes[i].file = f}
        BY <2>10
      <4>. HIDE DEF ids, d, c
      <4>. QED BY <2>0, <3>1, <3>2, <3>3, <3>4, <4>1, GoneRows
    <3>7. d.nodes = DropNodes(tx, ids).nodes /\ d.edges = DropNodes(tx, ids).edges
      OBVIOUS
    <3>8. ids \in SUBSET Ids
      BY <2>10
    <3>. HIDE DEF ids, d, c
    <3>. QED BY <2>7, <3>1, <3>2, <3>3, <3>4, <3>5, <3>6, <3>7, <3>8 DEF Progress, RestApplies
  <2>12. ASSUME NEW f \in Files, RemovePath(f) PROVE Progress'
    <3>. DEFINE ids == OwnedBy(tx.nodes, {f})
                e == DropNodes(tx, ids)
                d == [e EXCEPT !.files[f] = Absent, !.irs[f] = Absent]
                c == [todo EXCEPT !.removed = @ \ {f}]
    <3>1. Step(d, c) /\ writing /\ f \in todo.removed
      BY <2>12 DEF RemovePath, Step
    <3>2. c \in Batch
      BY <2>0 DEF Batch
    <3>3. /\ e \in Disk /\ e.files = tx.files /\ e.irs = tx.irs
          /\ \A i \in Ids : e.nodes[i] = IF i \in ids THEN Absent ELSE tx.nodes[i]
      BY <2>8, <2>10
    <3>4. /\ c.nodes = todo.nodes /\ c.edges = todo.edges /\ c.touched = todo.touched
          /\ c.deletedEdges = todo.deletedEdges /\ c.deletedNodes = todo.deletedNodes
          /\ c.removed = todo.removed \ {f}
      BY <2>0 DEF Batch
    <3>5. ~NodesInserted
      BY <3>1 DEF NodesInserted, Removed
    <3>6. /\ d \in Disk /\ d.nodes = e.nodes /\ d.edges = e.edges
          /\ d.files = [g \in Files |-> IF g = f THEN Absent ELSE e.files[g]]
          /\ d.irs = [g \in Files |-> IF g = f THEN Absent ELSE e.irs[g]]
      BY <3>3 DEF Disk, Maybe
    <3>7. GoneNodes(TablesOf(tx), todo) = ids \cup GoneNodes(TablesOf(d), c)
      <4>1. ids = {i \in Ids : tx.nodes[i] # Absent /\ tx.nodes[i].file = f}
        BY <2>10
      <4>. HIDE DEF ids, e, d, c
      <4>. QED BY <2>0, <3>1, <3>2, <3>3, <3>4, <3>6, <4>1, GoneRows
    <3>8. /\ tx.files = [g \in Files |-> IF g \in batch.removed \ todo.removed
                                        THEN Absent ELSE disk.files[g]]
          /\ tx.irs = [g \in Files |-> IF g \in batch.removed \ todo.removed
                                      THEN Absent ELSE disk.irs[g]]
          /\ todo.removed \subseteq batch.removed
      BY <2>0, <3>1 DEF Progress, RestApplies, Without, Disk
    <3>9. d.nodes = DropNodes(tx, ids).nodes /\ d.edges = DropNodes(tx, ids).edges
      BY <3>6
    <3>10. ids \in SUBSET Ids
      BY <2>10
    <3>. HIDE DEF ids, e, d, c
    <3>11. /\ d.files = Without(disk.files, batch.removed \ c.removed)
           /\ d.irs = Without(disk.irs, batch.removed \ c.removed)
           /\ c.removed \subseteq batch.removed
      BY <2>0, <3>1, <3>3, <3>4, <3>6, <3>8 DEF Without, Disk
    <3>. QED BY <2>7, <3>1, <3>2, <3>4, <3>5, <3>6, <3>7, <3>9, <3>10, <3>11
  <2>13. ASSUME NEW id \in Ids, NEW r \in RowIds, InsertNode(id, r) PROVE Progress'
    <3>. DEFINE n == todo.nodes[id]
                d == PutNode(tx, id, n, r)
                c == [todo EXCEPT !.nodes[id] = Absent]
    <3>1. Step(d, c) /\ writing /\ Removed /\ n \in Node
      BY <2>0, <2>13 DEF InsertNode, Step, Keys, Batch, Maybe
    <3>2. c \in Batch /\ d \in Disk
      BY <2>0, <3>1, PutNodeType DEF Batch, Maybe
    <3>3. /\ \A i \in Ids : d.nodes[i] = IF i = id THEN n ELSE tx.nodes[i]
          /\ d.edges = tx.edges /\ d.files = tx.files /\ d.irs = tx.irs
      BY <2>0 DEF PutNode, Disk
    <3>4. /\ \A i \in Ids : c.nodes[i] = IF i = id THEN Absent ELSE todo.nodes[i]
          /\ c.edges = todo.edges /\ c.removed = todo.removed /\ c.touched = todo.touched
          /\ c.deletedEdges = todo.deletedEdges /\ c.deletedNodes = todo.deletedNodes
      BY <2>0 DEF Batch
    <3>5. /\ todo.deletedNodes = {} /\ todo.removed = {}
          /\ \A f \in Files : todo.touched[f] = Absent
      BY <2>0, <3>1 DEF Removed, Purged, NodesDeleted, Keys, Batch
    <3>6. n # Absent
      BY <2>13 DEF InsertNode, Keys
    <3>7. ~NodesInserted
      BY <2>0, <3>6 DEF NodesInserted, Keys, Batch
    <3>. HIDE DEF n, d, c
    <3>8. GoneNodes(TablesOf(tx), todo) = {} /\ GoneNodes(TablesOf(d), c) = {}
      BY <2>0, <3>2, <3>4, <3>5, GoneRows
    <3>9. SameRest(tx, todo, d, c)
      <4>1. \A i \in Ids : NodeAfter(d, c, i) = NodeAfter(tx, todo, i)
        BY <3>3, <3>4, <3>6, <3>8 DEF NodeAfter, n
      <4>2. \A k \in EdgeKeys : EdgeAfter(d, c, k) = EdgeAfter(tx, todo, k)
        BY <3>3, <3>4, <3>8 DEF EdgeAfter
      <4>. QED BY <2>0, <3>2, <4>1, <4>2, SameRows
    <3>10. RestApplies'
      BY <2>4, <3>1, <3>3, <3>4, <3>9 DEF Progress, RestApplies
    <3>. QED BY <2>5, <3>1, <3>4, <3>7, <3>10 DEF Progress
  <2>14. ASSUME NEW k \in EdgeKeys, InsertEdge(k) PROVE Progress'
    <3>. DEFINE d == [tx EXCEPT !.edges[k] = Normalize(todo.edges[k])]
                c == [todo EXCEPT !.edges[k] = Absent]
    <3>1. Step(d, c) /\ writing /\ NodesInserted /\ todo.edges[k] # Absent /\ EndsExist(k)
      BY <2>14 DEF InsertEdge, Step, Keys
    <3>2. c \in Batch
      BY <2>0 DEF Batch, Maybe
    <3>3. d \in Disk
      <4>1. todo.edges[k] \in Counts \cup Labels
        BY <2>0, <3>1 DEF Batch, Maybe
      <4>. QED BY <4>1, <2>0, NormalizeType DEF Disk, Maybe
    <3>4. /\ \A e \in EdgeKeys : d.edges[e] = IF e = k THEN Normalize(todo.edges[k]) ELSE tx.edges[e]
          /\ d.nodes = tx.nodes /\ d.files = tx.files /\ d.irs = tx.irs
      BY <2>0 DEF Disk
    <3>5. /\ \A e \in EdgeKeys : c.edges[e] = IF e = k THEN Absent ELSE todo.edges[e]
          /\ c.nodes = todo.nodes /\ c.removed = todo.removed /\ c.touched = todo.touched
          /\ c.deletedEdges = todo.deletedEdges /\ c.deletedNodes = todo.deletedNodes
      BY <2>0 DEF Batch
    <3>6. /\ todo.deletedNodes = {} /\ todo.removed = {} /\ todo.deletedEdges = {}
          /\ \A f \in Files : todo.touched[f] = Absent
      BY <2>0, <3>1 DEF NodesInserted, Removed, Purged, NodesDeleted, EdgesDeleted, Keys, Batch
    <3>. HIDE DEF d, c
    <3>7. GoneNodes(TablesOf(tx), todo) = {} /\ GoneNodes(TablesOf(d), c) = {}
      BY <2>0, <3>2, <3>3, <3>5, <3>6, GoneRows
    <3>8. SameRest(tx, todo, d, c)
      <4>1. \A i \in Ids : NodeAfter(d, c, i) = NodeAfter(tx, todo, i)
        BY <3>4, <3>5, <3>7 DEF NodeAfter
      <4>2. \A e \in EdgeKeys : EdgeAfter(d, c, e) = EdgeAfter(tx, todo, e)
        BY <3>1, <3>4, <3>5, <3>6, <3>7 DEF EdgeAfter
      <4>. QED BY <2>0, <3>2, <3>3, <4>1, <4>2, SameRows
    <3>10. RestApplies'
      BY <2>4, <3>1, <3>4, <3>5, <3>8 DEF Progress, RestApplies
    <3>11. EdgesAccepted'
      <4>. SUFFICES ASSUME NEW e \in (Keys(batch.edges) \ Keys(todo.edges))'
                    PROVE  NodesInserted' /\ EndsExist(e)'
        BY DEF EdgesAccepted
      <4>1. tx' = d /\ todo' = c /\ batch' = batch
        BY <3>1 DEF Step
      <4>2. NodesInserted'
        BY <3>1, <3>5, <4>1 DEF NodesInserted, Removed, Purged, NodesDeleted, EdgesDeleted
      <4>3. e = k \/ e \in Keys(batch.edges) \ Keys(todo.edges)
        BY <2>0, <3>2, <3>5, <4>1 DEF Keys, Batch
      <4>4. EndsExist(e)
        BY <3>1, <4>3 DEF Progress, EdgesAccepted
      <4>. QED BY <3>4, <4>1, <4>2, <4>4 DEF EndsExist
    <3>. QED BY <3>10, <3>11 DEF Progress
  <2>15. CASE Finish \/ Rollback
    BY <2>1, <2>15 DEF Finish, Rollback
  <2>16. ASSUME NEW v \in Versions, Open(v) PROVE Progress'
    BY <2>1, <2>16 DEF Open
  <2>17. CASE UNCHANGED vars
    BY <2>17 DEF vars, Progress, RestApplies, EdgesAccepted, NodesInserted, Removed, Purged,
                NodesDeleted, EdgesDeleted, EndsExist
  <2>. QED
    BY <2>2, <2>3, <2>6, <2>9, <2>11, <2>12, <2>13, <2>14, <2>15, <2>16, <2>17
       DEF Next, Write
<1>. QED BY <1>1, <1>2, SoundInvariant, PTL DEF Spec

-----------------------------------------------------------------------------
(* Commit implements the atomic write GraphStore promises.                 *)

\* The search answers of a sound disk are those of its nodes.
LEMMA SearchFound ==
    ASSUME NEW d \in Disk, Sound(d)
    PROVE  SearchOf(d) = [id \in Ids |-> IF d.nodes[id] = Absent \/ id \in External THEN Absent
                                        ELSE d.nodes[id].text]
  <1>1. DOMAIN d.nodes = Ids /\ DOMAIN d.fts = RowIds
    BY DEF Disk
  <1>2. \A r \in Keys(d.fts) : /\ d.nodes[d.fts[r].id] # Absent
                               /\ d.fts[r].id \in Ids \ External
                               /\ d.rowid[d.fts[r].id] = r
    BY <1>1 DEF Sound, NoOrphanEntry, Keys
  <1>3. \A id \in Ids \ External : d.nodes[id] # Absent =>
            /\ d.rowid[id] \in Keys(d.fts)
            /\ d.fts[d.rowid[id]] = [id |-> id, text |-> d.nodes[id].text]
    <2>. SUFFICES ASSUME NEW id \in Ids \ External, d.nodes[id] # Absent
                  PROVE  /\ d.rowid[id] \in Keys(d.fts)
                         /\ d.fts[d.rowid[id]] = [id |-> id, text |-> d.nodes[id].text]
      OBVIOUS
    <2>1. d.fts[d.rowid[id]] = [id |-> id, text |-> d.nodes[id].text]
      BY <1>1 DEF Sound, Indexed, Keys
    <2>2. d.rowid[id] \in RowIds
      BY DEF Sound, OneRowPerNode, Disk, Maybe
    <2>3. d.nodes[id].text \in Texts
      BY DEF Disk, Maybe, Node
    <2>4. [id |-> id, text |-> d.nodes[id].text] # Absent
      BY <2>3, EntryAssumption DEF Entry
    <2>. QED BY <2>1, <2>2, <2>4, <1>1 DEF Keys
  <1>4. ASSUME NEW id \in Ids
        PROVE  SearchOf(d)[id] = IF d.nodes[id] = Absent \/ id \in External THEN Absent
                                 ELSE d.nodes[id].text
    <2>1. CASE d.nodes[id] = Absent \/ id \in External
      <3>1. ~ \E r \in Keys(d.fts) : d.fts[r].id = id
        BY <2>1, <1>2
      <3>. QED BY <2>1, <3>1 DEF SearchOf
    <2>2. CASE ~ (d.nodes[id] = Absent \/ id \in External)
      <3>. DEFINE c == CHOOSE r \in Keys(d.fts) : d.fts[r].id = id
                  w == [id |-> id, text |-> d.nodes[id].text]
      <3>0. d.rowid[id] \in Keys(d.fts) /\ d.fts[d.rowid[id]] = w
        BY <2>2, <1>3
      <3>1. d.rowid[id] \in Keys(d.fts) /\ d.fts[d.rowid[id]].id = id
        <4>1. w.id = id
          OBVIOUS
        <4>. QED BY <3>0, <4>1
      <3>2. c \in Keys(d.fts) /\ d.fts[c].id = id
        BY <3>1
      <3>3. c = d.rowid[id]
        BY <3>2, <1>2
      <3>4. d.fts[c].text = d.nodes[id].text
        <4>1. w.text = d.nodes[id].text
          OBVIOUS
        <4>. QED BY <3>0, <3>3, <4>1
      <3>. QED BY <2>2, <3>1, <3>4 DEF SearchOf
    <2>. QED BY <2>1, <2>2
  <1>. QED BY <1>4 DEF SearchOf

\* Search depends on the entries alone.
LEMMA SearchSame ==
    ASSUME NEW d, NEW e, e.fts = d.fts
    PROVE  SearchOf(e) = SearchOf(d)
  BY DEF SearchOf, Keys

\* When the transaction reaches COMMIT, what it has written is the batch.
LEMMA FinishApplies ==
    ASSUME TypeOK, TxSound, Progress, Finish
    PROVE  /\ ~ Refused(TablesOf(disk), batch)
           /\ TablesOf(disk') = Applied(TablesOf(disk), batch)
           /\ disk' \in Disk /\ Sound(disk')
  <1>0. tx \in Disk /\ disk \in Disk /\ todo \in Batch /\ batch \in Batch
    BY DEF TypeOK
  <1>1. writing /\ EdgesInserted
    BY DEF Finish
  <1>2. /\ todo.deletedNodes = {} /\ todo.removed = {} /\ todo.deletedEdges = {}
        /\ \A f \in Files : todo.touched[f] = Absent
        /\ \A id \in Ids : todo.nodes[id] = Absent
        /\ \A k \in EdgeKeys : todo.edges[k] = Absent
    BY <1>0, <1>1 DEF EdgesInserted, NodesInserted, Removed, Purged, NodesDeleted, EdgesDeleted,
                      Keys, Batch
  <1>3. GoneNodes(TablesOf(tx), todo) = {}
    BY <1>0, <1>2, GoneRows
  <1>4. Applied(TablesOf(tx), todo).nodes = tx.nodes
    <2>1. [id \in Ids |-> NodeAfter(tx, todo, id)] = tx.nodes
      BY <1>0, <1>2, <1>3 DEF NodeAfter, Disk
    <2>. QED BY <2>1, <1>0, AppliedRows
  <1>5. Applied(TablesOf(tx), todo).edges = tx.edges
    <2>1. [k \in EdgeKeys |-> EdgeAfter(tx, todo, k)] = tx.edges
      BY <1>0, <1>2, <1>3 DEF EdgeAfter, Disk
    <2>. QED BY <2>1, <1>0, AppliedRows
  <1>6. /\ Applied(TablesOf(disk), batch).nodes = tx.nodes
        /\ Applied(TablesOf(disk), batch).edges = tx.edges
        /\ tx.files = Without(disk.files, batch.removed)
        /\ tx.irs = Without(disk.irs, batch.removed)
    BY <1>1, <1>2, <1>4, <1>5 DEF Progress, RestApplies
  <1>7. /\ disk'.nodes = tx.nodes /\ disk'.edges = tx.edges
        /\ disk'.rowid = tx.rowid /\ disk'.fts = tx.fts
        /\ disk'.files = Upsert(Upsert(tx.files, batch.touched), batch.recorded)
        /\ disk'.irs = Upsert(tx.irs, batch.irs)
    BY <1>0 DEF Finish, Disk
  <1>8. TablesOf(disk') = Applied(TablesOf(disk), batch)
    <2>1. /\ Applied(TablesOf(disk), batch).files
               = Upsert(Upsert(Without(disk.files, batch.removed), batch.touched), batch.recorded)
          /\ Applied(TablesOf(disk), batch).irs
               = Upsert(Without(disk.irs, batch.removed), batch.irs)
      BY DEF Applied, TablesOf
    <2>2. Applied(TablesOf(disk), batch) =
            [nodes |-> Applied(TablesOf(disk), batch).nodes,
             edges |-> Applied(TablesOf(disk), batch).edges,
             files |-> Applied(TablesOf(disk), batch).files,
             irs   |-> Applied(TablesOf(disk), batch).irs]
      BY DEF Applied
    <2>3. TablesOf(disk') = [nodes |-> disk'.nodes, edges |-> disk'.edges,
                             files |-> disk'.files, irs |-> disk'.irs]
      BY DEF TablesOf
    <2>. QED BY <1>6, <1>7, <2>1, <2>2, <2>3
  <1>9. ~ Refused(TablesOf(disk), batch)
    <2>. SUFFICES ASSUME NEW k \in Keys(batch.edges)
                  PROVE  {k.src, k.tgt} \subseteq Keys(Applied(TablesOf(disk), batch).nodes)
      BY DEF Refused
    <2>1. k \in Keys(batch.edges) \ Keys(todo.edges)
      BY <1>0, <1>2 DEF Keys, Batch
    <2>2. EndsExist(k)
      BY <2>1, <1>1 DEF Progress, EdgesAccepted
    <2>. QED BY <2>2, <1>6 DEF EndsExist
  <1>10. disk' \in Disk
    <2>1. Upsert(Upsert(tx.files, batch.touched), batch.recorded) \in [Files -> Maybe(Records)]
      BY <1>0, UpsertType DEF Disk, Batch
    <2>2. Upsert(tx.irs, batch.irs) \in [Files -> Maybe(Parses)]
      BY <1>0, UpsertType DEF Disk, Batch
    <2>. QED BY <1>0, <2>1, <2>2 DEF Finish, Disk
  <1>11. Sound(disk')
    BY <1>7, SoundSame DEF TxSound
  <1>. QED BY <1>8, <1>9, <1>10, <1>11

(* Row by row, with its row ids and its index, Commit implements the       *)
(* indivisible write of the whole batch.                                   *)
THEOREM CommitIsAtomic == Spec => ImplementsGraphStore
<1>1. Init => Promise!Init
  <2>. SUFFICES ASSUME Init PROVE Promise!Init
    OBVIOUS
  <2>1. TablesOf(disk) = Promise!EmptyTables
    BY DEF Init, TablesOf, EmptyDisk, Promise!EmptyTables
  <2>2. SearchOf(disk) = [id \in Ids |-> Absent]
    <3>1. Keys(EmptyDisk.fts) = {}
      BY DEF EmptyDisk, Keys
    <3>. QED BY <3>1 DEF Init, SearchOf
  <2>. QED BY <2>1, <2>2 DEF Init, Promise!Init, NewBatch, Promise!NewBatch
<1>2. TypeOK /\ TxSound /\ Progress /\ [Next]_vars => [Promise!Next]_Promise!vars
  <2>. SUFFICES ASSUME TypeOK, TxSound, Progress, [Next]_vars
                PROVE  [Promise!Next]_Promise!vars
    OBVIOUS
  <2>0. tx \in Disk /\ disk \in Disk /\ todo \in Batch /\ batch \in Batch
    BY DEF TypeOK
  <2>1. CASE Queue
    <3>1. Promise!Queues(batch, batch')
      BY <2>1 DEF Queue, Queues, Promise!Queues, NodesFor, Promise!NodesFor, Node, Promise!Node
    <3>. QED BY <2>1, <3>1 DEF Queue, Promise!Queue, Promise!Next
  <2>2. CASE Begin
    BY <2>2 DEF Begin, Promise!Next, Promise!Start
  <2>3. ASSUME NEW d, NEW rest, Step(d, rest) PROVE UNCHANGED Promise!vars
    BY <2>3 DEF Step, Promise!vars
  <2>4. ASSUME NEW k \in EdgeKeys, DeleteEdgeRow(k) \/ InsertEdge(k)
        PROVE  UNCHANGED Promise!vars
    BY <2>3, <2>4 DEF DeleteEdgeRow, InsertEdge
  <2>5. ASSUME NEW id \in Ids, DeleteNodeRow(id) PROVE UNCHANGED Promise!vars
    BY <2>3, <2>5 DEF DeleteNodeRow
  <2>6. ASSUME NEW f \in Files, PurgeTouched(f) \/ RemovePath(f) PROVE UNCHANGED Promise!vars
    BY <2>3, <2>6 DEF PurgeTouched, RemovePath
  <2>7. ASSUME NEW id \in Ids, NEW r \in RowIds, InsertNode(id, r)
        PROVE  UNCHANGED Promise!vars
    BY <2>3, <2>7 DEF InsertNode
  <2>8. CASE Finish
    <3>1. /\ ~ Promise!Refused(TablesOf(disk), batch)
          /\ TablesOf(disk') = Promise!Applied(TablesOf(disk), batch)
      <4>1. \A t, b : Promise!Applied(t, b) = Applied(t, b)
        BY DEF Promise!Applied, Applied, Promise!Upsert, Upsert, Promise!Without, Without,
               Promise!GoneNodes, GoneNodes, Promise!OwnedBy, OwnedBy, Promise!Keys, Keys,
               Promise!Touching, Touching, Promise!Normalize, Normalize
      <4>2. \A t, b : Promise!Refused(t, b) = Refused(t, b)
        BY <4>1 DEF Promise!Refused, Refused, Promise!Keys, Keys
      <4>. QED BY <2>8, <4>1, <4>2, FinishApplies
    <3>2. SearchOf(disk') = Promise!Searchable(TablesOf(disk').nodes)
      <4>1. SearchOf(disk') = [id \in Ids |->
                IF disk'.nodes[id] = Absent \/ id \in External THEN Absent
                ELSE disk'.nodes[id].text]
        BY <2>8, FinishApplies, SearchFound
      <4>2. TablesOf(disk').nodes = disk'.nodes
        BY DEF TablesOf
      <4>. QED BY <4>1, <4>2 DEF Promise!Searchable
    <3>3. Promise!Succeed
      BY <2>8, <3>1, <3>2 DEF Finish, Promise!Succeed, NewBatch, Promise!NewBatch
    <3>. QED BY <3>3 DEF Promise!Next
  <2>9. CASE Rollback
    BY <2>9 DEF Rollback, Promise!Next, Promise!Fail, NewBatch, Promise!NewBatch
  <2>10. ASSUME NEW v \in Versions, Open(v) PROVE Promise!Open(v)
    <3>1. TablesOf(EmptyDisk) = Promise!EmptyTables
      BY DEF TablesOf, EmptyDisk, Promise!EmptyTables
    <3>2. SearchOf(EmptyDisk) = [id \in Ids |-> Absent]
      <4>1. Keys(EmptyDisk.fts) = {}
        BY DEF EmptyDisk, Keys
      <4>. QED BY <4>1 DEF SearchOf
    <3>. QED BY <2>10, <3>1, <3>2 DEF Open, Promise!Open, NewBatch, Promise!NewBatch
  <2>11. CASE UNCHANGED vars
    BY <2>11 DEF vars, Promise!vars
  <2>. QED
    BY <2>1, <2>2, <2>4, <2>5, <2>6, <2>7, <2>8, <2>9, <2>10, <2>11
       DEF Next, Write, Promise!Next
<1>. QED BY <1>1, <1>2, ProgressInvariant, PTL DEF Spec, ImplementsGraphStore, Promise!Spec
=============================================================================
