----------------------------- MODULE SqliteStore -----------------------------
(***************************************************************************)
(* Store.Commit (pkg/store/write.go) as it runs: one SQL transaction that  *)
(* walks the batch row by row.  Two things GraphStore does not know of     *)
(* live here: the row id SQLite gives each node, and the full-text table,  *)
(* whose rows are tied to nodes by that row id alone.                      *)
(*                                                                         *)
(* `disk` is what is committed and what every reader sees, `tx` the        *)
(* transaction's own view, `todo` the part of the batch not yet written.   *)
(* The rows of one section of the batch are taken in any order, where the  *)
(* code takes them in the order they were queued.                          *)
(***************************************************************************)
EXTENDS GraphBatch

CONSTANTS RowIds, Versions, MaxQueued

VARIABLES disk, tx, todo, batch, writing, version

vars == <<disk, tx, todo, batch, writing, version>>

Entry == [id : Ids, text : Texts]

ASSUME EntryAssumption == Absent \notin Entry /\ Absent \notin RowIds

\* At most one row id per node is ever needed at a time.
ASSUME RowIdsAssumption == IsFiniteSet(Ids) /\ IsFiniteSet(RowIds)
                           /\ Cardinality(RowIds) >= Cardinality(Ids)

Disk == [nodes : [Ids -> Maybe(Node)],
         edges : [EdgeKeys -> Maybe(Labels)],
         files : [Files -> Maybe(Records)],
         irs   : [Files -> Maybe(Parses)],
         rowid : [Ids -> Maybe(RowIds)],
         fts   : [RowIds -> Maybe(Entry)]]

EmptyDisk == [nodes |-> [id \in Ids |-> Absent],
              edges |-> [k \in EdgeKeys |-> Absent],
              files |-> [f \in Files |-> Absent],
              irs   |-> [f \in Files |-> Absent],
              rowid |-> [id \in Ids |-> Absent],
              fts   |-> [r \in RowIds |-> Absent]]

TablesOf(d) == [nodes |-> d.nodes, edges |-> d.edges, files |-> d.files, irs |-> d.irs]

-----------------------------------------------------------------------------
(* One statement of the transaction on one row, or on all rows of a file.  *)

\* DELETE FROM symbols_fts WHERE rowid IN (SELECT rowid FROM nodes ...), then
\* DELETE FROM nodes, whose edges go by ON DELETE CASCADE.
ClearFts(d, ids) == [d EXCEPT !.fts = Without(d.fts, {d.rowid[id] : id \in ids})]

DropRows(d, ids) == [d EXCEPT !.nodes = Without(d.nodes, ids),
                              !.rowid = Without(d.rowid, ids),
                              !.edges = Without(d.edges, Touching(ids))]

\* A slip: clearing the index after the rows are gone finds no row ids.
DropNodesThenFts(d, ids) == ClearFts(DropRows(d, ids), ids)

DropNodes(d, ids) == DropRows(ClearFts(d, ids), ids)

\* SQLite picks a row id no node holds; an upsert keeps the row it updates.
RowIdFor(d, id, r) == IF d.rowid[id] # Absent THEN r = d.rowid[id]
                      ELSE r \notin {d.rowid[i] : i \in Ids}

\* External nodes are not worth searching: the loop goes on before the index.
PutNode(d, id, n, r) ==
    [d EXCEPT !.nodes[id] = n, !.rowid[id] = r,
              !.fts[r] = IF id \in External THEN @ ELSE [id |-> id, text |-> n.text]]

-----------------------------------------------------------------------------
Queued(b) == Cardinality(b.deletedEdges) + Cardinality(b.deletedNodes)
             + Cardinality(Keys(b.touched)) + Cardinality(b.removed)
             + Cardinality(Keys(b.nodes)) + Cardinality(Keys(b.edges))
             + Cardinality(Keys(b.recorded)) + Cardinality(Keys(b.irs))

Queue == /\ ~writing
         /\ Queued(batch) < MaxQueued
         /\ Queues(batch, batch')
         /\ UNCHANGED <<disk, tx, todo, writing, version>>

-----------------------------------------------------------------------------
Init == /\ disk = EmptyDisk
        /\ tx = EmptyDisk
        /\ batch = NewBatch
        /\ todo = NewBatch
        /\ writing = FALSE
        /\ version \in Versions

Begin == /\ ~writing
         /\ writing' = TRUE
         /\ todo' = batch
         /\ UNCHANGED <<disk, tx, batch, version>>

Step(d, rest) == /\ writing
                 /\ tx' = d
                 /\ todo' = rest
                 /\ UNCHANGED <<disk, batch, writing, version>>

DeleteEdgeRow(k) ==
    /\ k \in todo.deletedEdges
    /\ Step([tx EXCEPT !.edges[k] = Absent], [todo EXCEPT !.deletedEdges = @ \ {k}])

EdgesDeleted == todo.deletedEdges = {}

DeleteNodeRow(id) ==
    /\ EdgesDeleted
    /\ id \in todo.deletedNodes
    /\ Step(DropNodes(tx, {id}), [todo EXCEPT !.deletedNodes = @ \ {id}])

NodesDeleted == EdgesDeleted /\ todo.deletedNodes = {}

PurgeTouched(f) ==
    /\ NodesDeleted
    /\ f \in Keys(todo.touched)
    /\ Step(DropNodes(tx, OwnedBy(tx.nodes, {f})), [todo EXCEPT !.touched[f] = Absent])

Purged == NodesDeleted /\ Keys(todo.touched) = {}

RemovePath(f) ==
    /\ Purged
    /\ f \in todo.removed
    /\ LET d == DropNodes(tx, OwnedBy(tx.nodes, {f}))
       IN Step([d EXCEPT !.files[f] = Absent, !.irs[f] = Absent],
               [todo EXCEPT !.removed = @ \ {f}])

\* A slip: inserting before the purges, which then eat the new rows.
RemovedEarly == NodesDeleted

Removed == Purged /\ todo.removed = {}

InsertNode(id, r) ==
    /\ Removed
    /\ id \in Keys(todo.nodes)
    /\ RowIdFor(tx, id, r)
    /\ Step(PutNode(tx, id, todo.nodes[id], r), [todo EXCEPT !.nodes[id] = Absent])

NodesInserted == Removed /\ Keys(todo.nodes) = {}

\* A slip: foreign_keys left OFF, SQLite's default.
EndsUnchecked(k) == k \in EdgeKeys

EndsExist(k) == {k.src, k.tgt} \subseteq Keys(tx.nodes)

\* A slip: writing the resolver's 0 where the column's default is 1.
InsertRaw(k) ==
    /\ NodesInserted
    /\ k \in Keys(todo.edges)
    /\ EndsExist(k)
    /\ Step([tx EXCEPT !.edges[k] = todo.edges[k]], [todo EXCEPT !.edges[k] = Absent])

InsertEdge(k) ==
    /\ NodesInserted
    /\ k \in Keys(todo.edges)
    /\ EndsExist(k)
    /\ Step([tx EXCEPT !.edges[k] = Normalize(todo.edges[k])],
            [todo EXCEPT !.edges[k] = Absent])

EdgesInserted == NodesInserted /\ Keys(todo.edges) = {}

\* File records and cached parses, then COMMIT.
Finish ==
    /\ writing
    /\ EdgesInserted
    /\ disk' = [tx EXCEPT !.files = Upsert(Upsert(@, batch.touched), batch.recorded),
                          !.irs = Upsert(@, batch.irs)]
    /\ tx' = disk'
    /\ batch' = NewBatch
    /\ todo' = NewBatch
    /\ writing' = FALSE
    /\ UNCHANGED version

\* A foreign key fails, the disk is full, another process holds the lock, or
\* the process dies: the deferred Rollback discards the transaction, and the
\* caller its batch.
Rollback ==
    /\ tx' = disk
    /\ batch' = NewBatch
    /\ todo' = NewBatch
    /\ writing' = FALSE
    /\ UNCHANGED <<disk, version>>

Open(v) ==
    /\ ~writing
    /\ version' = v
    /\ batch' = NewBatch
    /\ disk' = IF v = version THEN disk ELSE EmptyDisk
    /\ tx' = disk'
    /\ UNCHANGED <<todo, writing>>

Write == \/ Begin
         \/ \E k \in EdgeKeys : DeleteEdgeRow(k) \/ InsertEdge(k)
         \/ \E id \in Ids : DeleteNodeRow(id)
         \/ \E f \in Files : PurgeTouched(f) \/ RemovePath(f)
         \/ \E id \in Ids, r \in RowIds : InsertNode(id, r)
         \/ Finish
         \/ Rollback

Next == Queue \/ Write \/ \E v \in Versions : Open(v)

Spec == Init /\ [][Next]_vars

-----------------------------------------------------------------------------
(* What must hold of a disk.                                                *)

OneRowPerNode(d) ==
    /\ \A id \in Ids : d.nodes[id] = Absent <=> d.rowid[id] = Absent
    /\ \A i, j \in Ids : d.rowid[i] # Absent /\ d.rowid[i] = d.rowid[j] => i = j

\* Every node that is not external has its own entry, with its current text.
Indexed(d) ==
    \A id \in Keys(d.nodes) \ External :
        d.fts[d.rowid[id]] = [id |-> id, text |-> d.nodes[id].text]

\* Every entry belongs to a node that is there, and that carries its row id.
NoOrphanEntry(d) ==
    \A r \in Keys(d.fts) : /\ d.fts[r].id \in Keys(d.nodes) \ External
                           /\ d.rowid[d.fts[r].id] = r

\* Type correctness.
TypeOK ==
    /\ disk \in Disk /\ tx \in Disk
    /\ batch \in Batch /\ todo \in Batch
    /\ writing \in BOOLEAN
    /\ version \in Versions

\* While a commit runs, what is left of the batch, applied to what the
\* transaction sees, still comes out as the whole batch applied to the disk.
RestApplies ==
    writing =>
        /\ Applied(TablesOf(tx), todo).nodes = Applied(TablesOf(disk), batch).nodes
        /\ Applied(TablesOf(tx), todo).edges = Applied(TablesOf(disk), batch).edges
        /\ tx.files = Without(disk.files, batch.removed \ todo.removed)
        /\ tx.irs = Without(disk.irs, batch.removed \ todo.removed)
        /\ todo.removed \subseteq batch.removed

\* Every edge the transaction has inserted was found to have both its nodes.
EdgesAccepted ==
    writing => \A k \in Keys(batch.edges) \ Keys(todo.edges) : NodesInserted /\ EndsExist(k)

\* Nothing the transaction does to its own view makes it unfit to commit.
Sound(d) == OneRowPerNode(d) /\ Indexed(d) /\ NoOrphanEntry(d) /\ ForeignKeys(d)

TxSound == Sound(tx) /\ Sound(disk) /\ (~writing => tx = disk)

\* No committed edge dangles, whatever the batches were, in whatever order the
\* rows were written and wherever a commit stopped: both ends of every row of
\* edges are rows of nodes, so loading the graph never meets a missing node.
CommittedForeignKeys == ForeignKeys(disk)

\* The full-text table mirrors the nodes exactly.  Nothing in SQLite relates
\* the two; only the order of the statements in purgeFile, deleteNodes and
\* insertNodes does, and a row left behind would later be adopted by whatever
\* node is given its row id.
SearchMirrorsNodes == Indexed(disk) /\ NoOrphanEntry(disk)

\* The search answers of a disk: the text MATCH finds for each node id.
SearchOf(d) ==
    [id \in Ids |-> IF \E r \in Keys(d.fts) : d.fts[r].id = id
                    THEN d.fts[CHOOSE r \in Keys(d.fts) : d.fts[r].id = id].text
                    ELSE Absent]

\* Row by row, Commit does what the batch as a whole is said to do: all of it
\* at once or none of it, with a search index that follows.
Promise == INSTANCE GraphStore WITH db <- TablesOf(disk), search <- SearchOf(disk)

ImplementsGraphStore == Promise!Spec
=============================================================================
