----------------------------- MODULE GraphStore -----------------------------
(***************************************************************************)
(* What a Store promises its callers: a batch is queued piece by piece,    *)
(* and Commit writes all of it in one indivisible step or none of it, and  *)
(* the search index always answers for exactly the stored nodes.           *)
(***************************************************************************)
EXTENDS GraphBatch

CONSTANT Versions

VARIABLES
    db,       \* the committed tables
    search,   \* what the full-text index finds: id -> text, or Absent
    batch,    \* the batch being filled, or written
    writing,  \* Commit is running
    version   \* meta.schema_version

vars == <<db, search, batch, writing, version>>

Searchable(nodes) ==
    [id \in Ids |-> IF nodes[id] = Absent \/ id \in External THEN Absent
                    ELSE nodes[id].text]

Queue == /\ ~writing
         /\ Queues(batch, batch')
         /\ UNCHANGED <<db, search, writing, version>>

Init == /\ db = EmptyTables
        /\ search = [id \in Ids |-> Absent]
        /\ batch = NewBatch
        /\ writing = FALSE
        /\ version \in Versions

Start == /\ ~writing
         /\ writing' = TRUE
         /\ UNCHANGED <<db, search, batch, version>>

\* Commit returns nil.
Succeed == /\ writing
           /\ ~Refused(db, batch)
           /\ db' = Applied(db, batch)
           /\ search' = Searchable(db'.nodes)
           /\ batch' = NewBatch
           /\ writing' = FALSE
           /\ UNCHANGED version

\* Commit returns an error, or the process dies: nothing was written, and the
\* caller drops the batch.
Fail == /\ batch' = NewBatch
        /\ writing' = FALSE
        /\ UNCHANGED <<db, search, version>>

\* Open by a program of schema version v: a database of another version is
\* deleted and rebuilt, which is safe because it is a derived artifact.
Open(v) == /\ ~writing
           /\ version' = v
           /\ batch' = NewBatch
           /\ db' = IF v = version THEN db ELSE EmptyTables
           /\ search' = IF v = version THEN search ELSE [id \in Ids |-> Absent]
           /\ UNCHANGED writing

Next == Queue \/ Start \/ Succeed \/ Fail \/ \E v \in Versions : Open(v)

Spec == Init /\ [][Next]_vars
=============================================================================
