---------------------------- MODULE IndexerProofs ----------------------------
(***************************************************************************)
(* Proofs about Indexer, for every repository, resolver and number of      *)
(* processes, as long as runs do not overlap, mtimes tell writes apart and *)
(* nobody disturbs a rebuild.                                              *)
(***************************************************************************)
EXTENDS Indexer, TLAPS

-----------------------------------------------------------------------------
(* Tables and batches.                                                     *)

\* Deleting rows keeps a table a table.
LEMMA WithoutType ==
    ASSUME NEW K, NEW V, NEW t \in [K -> Maybe(V)], NEW ks
    PROVE  Without(t, ks) \in [K -> Maybe(V)]
  BY DEF Without, Maybe

\* So does writing rows over it.
LEMMA UpsertType ==
    ASSUME NEW K, NEW V, NEW t \in [K -> Maybe(V)], NEW u \in [K -> Maybe(V)]
    PROVE  Upsert(t, u) \in [K -> Maybe(V)]
  BY DEF Upsert, Maybe

\* A stored count is a label, whether it was stored before or not.
LEMMA NormalizeType == \A c \in Counts \cup Labels : Normalize(c) \in Labels
  BY CountsAssumption DEF Labels, Normalize

\* The net effect of any batch on well-formed tables is well-formed tables.
LEMMA AppliedType ==
    ASSUME NEW t \in Tables, NEW b \in Batch
    PROVE  Applied(t, b) \in Tables
<1>. DEFINE labels == [k \in EdgeKeys |-> IF b.edges[k] = Absent THEN Absent
                                          ELSE Normalize(b.edges[k])]
<1>1. labels \in [EdgeKeys -> Maybe(Labels)]
  <2>. SUFFICES ASSUME NEW k \in EdgeKeys, b.edges[k] # Absent
                PROVE  Normalize(b.edges[k]) \in Labels
    BY DEF Maybe
  <2>. QED BY NormalizeType DEF Batch, Maybe
<1>2. Upsert(Without(t.nodes, GoneNodes(t, b)), b.nodes) \in [Ids -> Maybe(Node)]
  BY WithoutType, UpsertType DEF Tables, Batch
<1>3. Upsert(Without(t.edges, b.deletedEdges \cup Touching(GoneNodes(t, b))), labels)
        \in [EdgeKeys -> Maybe(Labels)]
  BY <1>1, WithoutType, UpsertType DEF Tables
<1>4. Upsert(Upsert(Without(t.files, b.removed), b.touched), b.recorded)
        \in [Files -> Maybe(Records)]
  <2>1. Upsert(Without(t.files, b.removed), b.touched) \in [Files -> Maybe(Records)]
    BY WithoutType, UpsertType DEF Tables, Batch
  <2>. QED BY <2>1, UpsertType DEF Batch
<1>5. Upsert(Without(t.irs, b.removed), b.irs) \in [Files -> Maybe(Parses)]
  BY WithoutType, UpsertType DEF Tables, Batch
<1>. QED BY <1>2, <1>3, <1>4, <1>5 DEF Applied, Tables

-----------------------------------------------------------------------------
(* The diff.                                                               *)

\* Normalising a count twice is normalising it once, and never yields Absent.
LEMMA NormalizeOnce ==
    ASSUME NEW c \in Counts
    PROVE  Normalize(c) \in Labels /\ Normalize(Normalize(c)) = Normalize(c)
           /\ Normalize(c) # Absent
  BY CountsAssumption, AbsentAssumption DEF Normalize, Labels

\* What a batch b without deletions of its own becomes once the diff is queued:
\* every row of the resolved graph survives or is written, every other goes.
\* The two hypotheses about files hold because a node's id names its file, and
\* a removed file has no nodes in the new graph.
THEOREM DiffIsExact ==
    ASSUME NEW t \in Tables, NEW b \in Batch, NEW res \in Resolved, Closed(res),
           b.deletedNodes = {}, b.deletedEdges = {}, Keys(b.touched) = {},
           \A id \in Keys(t.nodes) : t.nodes[id].file \in b.removed => res.nodes[id] = Absent
    PROVE  LET c == QueueGraphDiff(b, t.nodes, t.edges, res)
           IN  /\ ~ Refused(t, c)
               /\ Applied(t, c).nodes = Stored(res).nodes
               /\ Applied(t, c).edges = Stored(res).edges
               /\ Applied(t, c).files = Applied(t, b).files
               /\ Applied(t, c).irs = Applied(t, b).irs
<1>. DEFINE c == QueueGraphDiff(b, t.nodes, t.edges, res)
            gone == GoneNodes(t, c)
            kept == [k \in EdgeKeys |-> IF c.edges[k] = Absent THEN Absent
                                        ELSE Normalize(c.edges[k])]
<1>1. /\ c.deletedNodes = Keys(t.nodes) \ Keys(res.nodes)
      /\ c.deletedEdges = Keys(t.edges) \ Keys(res.edges)
      /\ c.nodes = Changes(t.nodes, res.nodes)
      /\ c.edges = Changes(t.edges, Stored(res).edges)
      /\ c.removed = b.removed /\ c.touched = b.touched
      /\ c.recorded = b.recorded /\ c.irs = b.irs
  BY DEF QueueGraphDiff, Batch
<1>2. /\ t.nodes \in [Ids -> Maybe(Node)] /\ res.nodes \in [Ids -> Maybe(Node)]
      /\ t.edges \in [EdgeKeys -> Maybe(Labels)] /\ res.edges \in [EdgeKeys -> Maybe(Counts)]
  BY DEF Tables, Resolved
<1>3. gone = c.deletedNodes \cup OwnedBy(t.nodes, b.removed)
  BY <1>1 DEF GoneNodes
<1>4. ASSUME NEW id \in gone PROVE res.nodes[id] = Absent
  <2>1. CASE id \in c.deletedNodes
    BY <2>1, <1>1, <1>2 DEF Keys
  <2>2. CASE id \in OwnedBy(t.nodes, b.removed)
    BY <2>2 DEF OwnedBy
  <2>. QED BY <1>3, <1>4, <2>1, <2>2
<1>5. Applied(t, c).nodes = res.nodes
  <2>1. Applied(t, c).nodes
          = [id \in Ids |-> IF c.nodes[id] # Absent THEN c.nodes[id]
                            ELSE IF id \in gone THEN Absent ELSE t.nodes[id]]
    BY <1>2 DEF Applied, Upsert, Without
  <2>2. ASSUME NEW id \in Ids
        PROVE  (IF c.nodes[id] # Absent THEN c.nodes[id]
                ELSE IF id \in gone THEN Absent ELSE t.nodes[id]) = res.nodes[id]
    <3>1. c.nodes[id] = IF res.nodes[id] = t.nodes[id] THEN Absent ELSE res.nodes[id]
      BY <1>1, <1>2 DEF Changes
    <3>2. t.nodes[id] # Absent /\ res.nodes[id] = Absent => id \in gone
      BY <1>1, <1>2, <1>3 DEF Keys
    <3>. QED BY <3>1, <3>2, <1>4
  <2>. QED BY <2>1, <2>2, <1>2
<1>6. ASSUME NEW k \in EdgeKeys, res.edges[k] # Absent
      PROVE  k \notin c.deletedEdges \cup Touching(gone)
  <2>1. k \in Keys(res.edges)
    BY <1>6, <1>2 DEF Keys
  <2>2. {k.src, k.tgt} \subseteq Keys(res.nodes)
    BY <2>1 DEF Closed
  <2>3. k.src \notin gone /\ k.tgt \notin gone
    BY <2>2, <1>4 DEF Keys
  <2>. QED BY <2>1, <2>3, <1>1 DEF Touching
<1>7. Applied(t, c).edges = Stored(res).edges
  <2>1. Applied(t, c).edges
          = [k \in EdgeKeys |->
               IF kept[k] # Absent THEN kept[k]
               ELSE IF k \in c.deletedEdges \cup Touching(gone) THEN Absent ELSE t.edges[k]]
    BY <1>2 DEF Applied, Upsert, Without
  <2>2. Stored(res).edges = [k \in EdgeKeys |-> IF res.edges[k] = Absent THEN Absent
                                                ELSE Normalize(res.edges[k])]
    BY DEF Stored
  <2>3. ASSUME NEW k \in EdgeKeys
        PROVE  (IF kept[k] # Absent THEN kept[k]
                ELSE IF k \in c.deletedEdges \cup Touching(gone) THEN Absent ELSE t.edges[k])
               = Stored(res).edges[k]
    <3>1. c.edges[k] = IF Stored(res).edges[k] = t.edges[k] THEN Absent ELSE Stored(res).edges[k]
      BY <1>1, <2>2 DEF Changes
    <3>2. CASE res.edges[k] = Absent
      <4>1. Stored(res).edges[k] = Absent
        BY <2>2, <3>2
      <4>2. kept[k] = Absent
        BY <3>1, <4>1
      <4>3. t.edges[k] # Absent => k \in c.deletedEdges
        BY <1>1, <1>2, <3>2 DEF Keys
      <4>. QED BY <4>1, <4>2, <4>3
    <3>3. CASE res.edges[k] # Absent
      <4>1. res.edges[k] \in Counts
        BY <3>3, <1>2 DEF Maybe
      <4>2. Stored(res).edges[k] = Normalize(res.edges[k])
        BY <2>2, <3>3
      <4>3. Stored(res).edges[k] # Absent /\ Normalize(Stored(res).edges[k]) = Stored(res).edges[k]
        BY <4>1, <4>2, NormalizeOnce
      <4>4. k \notin c.deletedEdges \cup Touching(gone)
        BY <1>6, <3>3
      <4>. HIDE DEF c, gone
      <4>. QED BY <3>1, <4>3, <4>4
    <3>. QED BY <3>2, <3>3
  <2>. HIDE DEF c, gone, kept
  <2>4. Stored(res).edges = [k \in EdgeKeys |-> Stored(res).edges[k]]
    BY <2>2
  <2>. QED BY <2>1, <2>3, <2>4
<1>8. ~ Refused(t, c)
  <2>. SUFFICES ASSUME NEW k \in Keys(c.edges)
                PROVE  {k.src, k.tgt} \subseteq Keys(Applied(t, c).nodes)
    BY DEF Refused
  <2>1. k \in EdgeKeys /\ c.edges[k] # Absent
    BY <1>1 DEF Keys, Changes, Stored
  <2>2. Stored(res).edges[k] # Absent
    BY <2>1, <1>1 DEF Changes, Stored
  <2>3. k \in Keys(res.edges)
    BY <2>1, <2>2, <1>2 DEF Stored, Keys
  <2>. QED BY <2>3, <1>5 DEF Closed
<1>9. Applied(t, c).files = Applied(t, b).files /\ Applied(t, c).irs = Applied(t, b).irs
  BY <1>1 DEF Applied
<1>10. Stored(res).nodes = res.nodes
  BY DEF Stored
<1>. QED BY <1>5, <1>7, <1>8, <1>9, <1>10

-----------------------------------------------------------------------------
(* EnsureFresh.                                                            *)

Calm == OneAtATime /\ FineClock /\ CalmRebuild

-----------------------------------------------------------------------------
(* The inductive invariant, in named parts.                                *)

\* Records are never newer than their files, and one that carries its file's
\* mtime carries its content's hash.
RecordsHold ==
    \A f \in Files :
        /\ mtime[f] <= clock
        /\ db.files[f] # Absent =>
              /\ db.files[f].mtime <= mtime[f]
              /\ content[f] # Absent /\ db.files[f].mtime = mtime[f]
                    => content[f] = db.files[f].hash

Alone == \A p, q \in Procs : run[p].pc # "idle" /\ run[q].pc # "idle" => p = q

\* The stored graph is of a version no older than meta says, and of no future one.
InStep == \E v \in irVersion .. program : v # 0 /\ GraphOf(v) /\ CacheOf(v)

Busy(p) == run[p].pc # "idle"

\* What a run knows of the files it has seen.
ScanHolds(p) ==
    LET r == run[p]
    IN  Busy(p) =>
        /\ r.version = program
        /\ \A f \in Files :
              /\ content[f] \in during[p][f]
              /\ r.statted[f] # Absent => r.statted[f].mtime <= mtime[f]
              /\ r.files[f] = Absent /\ (r.pc = "scan" => f \notin r.todo)
                    => Absent \in during[p][f]
              /\ r.files[f] # Absent =>
                    /\ r.files[f].mtime <= mtime[f]
                    /\ content[f] # Absent /\ r.files[f].mtime = mtime[f]
                          => content[f] = r.files[f].hash
                    /\ r.files[f].hash \in during[p][f]
                    /\ ~ r.files[f].read =>
                          /\ r.stored[f] # Absent /\ r.stored[f].hash = r.files[f].hash
                          /\ irVersion # r.version => content[f] = r.files[f].hash

BeforeCommit == {"scan", "cache", "parse", "edges", "commit"}

\* Nothing changes what a run has read of the database before it commits.
ReadsHold(p) ==
    LET r == run[p]
        parsing == r.pc \in {"parse", "edges"} \/ (r.pc = "commit" /\ Changed(r))
    IN  /\ r.pc \in BeforeCommit => r.stored = db.files
        /\ r.pc = "scan" => r.irs = NoFiles /\ r.cached = NoFiles
        /\ r.pc \in {"cache", "parse", "edges", "commit"} => r.stale = (irVersion # r.version)
        /\ r.pc \in {"cache", "parse", "edges"} => Changed(r)
        /\ r.pc = "cache" => ~ r.stale
        /\ r.pc = "commit" /\ ~ Changed(r) => Seen(r) # {}
        /\ parsing => r.cached = IF r.stale THEN NoFiles ELSE db.irs
        /\ r.pc = "edges" \/ (r.pc = "commit" /\ Changed(r)) => r.nodes = db.nodes
        /\ r.pc = "commit" /\ Changed(r) => r.edges = db.edges

\* A file's parse is that of the hash it will be recorded with.
ParseOf(r, f) == IF r.files[f] = Absent THEN Absent
                 ELSE [content |-> r.files[f].hash, version |-> r.version]

ParsesHold(p) ==
    LET r == run[p]
    IN  /\ r.pc = "cache" => r.todo = Seen(r) /\ r.irs = NoFiles
        /\ r.pc = "parse" => /\ r.todo \subseteq Seen(r)
                             /\ \A f \in Files \ r.todo : r.irs[f] = ParseOf(r, f)
        /\ r.pc = "edges" \/ (r.pc = "commit" /\ Changed(r))
              => \A f \in Files : r.irs[f] = ParseOf(r, f)

\* The database answers for what the run has seen.
Answered(p) ==
    /\ GraphOf(run[p].version)
    /\ \A f \in Files : HashOf(f) \in during[p][f]

AnswersHold(p) ==
    /\ run[p].pc = "meta" => Answered(p) /\ CacheOf(run[p].version)
    /\ run[p].pc = "done" /\ ~ run[p].error => Answered(p)

RunHolds(p) == ScanHolds(p) /\ ReadsHold(p) /\ ParsesHold(p) /\ AnswersHold(p)

Inv == TypeOK /\ RecordsHold /\ Alone /\ InStep /\ \A p \in Procs : RunHolds(p)

-----------------------------------------------------------------------------
(* Facts that many steps use.                                              *)

\* What the database says does not change while the database does not.
LEMMA DbSame ==
    ASSUME db' = db
    PROVE  /\ \A f \in Files : HashOf(f)' = HashOf(f)
           /\ \A v : GraphOf(v)' = GraphOf(v)
           /\ \A v : CacheOf(v)' = CacheOf(v)
  BY DEF HashOf, GraphOf, CacheOf, RecordedView

\* What a run has to do depends on its records, its findings and the version.
LEMMA ChangedSame ==
    ASSUME NEW r, NEW s, r.stored = s.stored, r.files = s.files, r.stale = s.stale
    PROVE  /\ Changed(r) = Changed(s) /\ Seen(r) = Seen(s) /\ Dirty(r) = Dirty(s)
           /\ Deleted(r) = Deleted(s) /\ Restat(r) = Restat(s)
  BY DEF Changed, Seen, Dirty, Deleted, Restat

\* Nothing is asked of a process that is not running EnsureFresh.
LEMMA IdleHolds == ASSUME NEW p, run[p].pc = "idle" PROVE RunHolds(p)
  BY DEF RunHolds, ScanHolds, ReadsHold, ParsesHold, AnswersHold, Busy, BeforeCommit

\* The same, of the state after a step.
LEMMA IdleHoldsNext == ASSUME NEW p, run'[p].pc = "idle" PROVE RunHolds(p)'
  BY DEF RunHolds, ScanHolds, ReadsHold, ParsesHold, AnswersHold, Busy, BeforeCommit

\* The state of a process that is not running is a Run.
LEMMA IdleType == Idle \in Run
<1>1. /\ NoFiles \in [Files -> Maybe(FileRecord)] /\ NoFiles \in [Files -> Maybe(FileStat)]
      /\ NoFiles \in [Files -> Maybe(FileData)] /\ NoFiles \in [Files -> Maybe(FileIR)]
      /\ NoFiles \in View
  BY DEF NoFiles, Maybe, View
<1>2. /\ [id \in Ids |-> Absent] \in [Ids -> Maybe(Node)]
      /\ [k \in EdgeKeys |-> Absent] \in [EdgeKeys -> Maybe(Labels)]
  BY DEF Maybe
<1>3. 1 \in 1 .. MaxVersion /\ 0 \in Ticks
  BY VersionAssumption, ClockAssumption DEF Ticks
<1>. QED BY <1>1, <1>2, <1>3 DEF Idle, Run, Pcs

\* A step of one run that leaves the files, the database and the other runs
\* alone keeps the invariant if it keeps what that run knows.
LEMMA RunStep ==
    ASSUME Inv, NEW p \in Procs, NEW s \in Run, run' = [run EXCEPT ![p] = s],
           \A q \in Procs \ {p} : run[q].pc = "idle",
           UNCHANGED <<content, mtime, clock, program, db, irVersion>>,
           during' \in [Procs -> [Files -> SUBSET Maybe(Contents)]],
           RunHolds(p)'
    PROVE  Inv'
<1>1. TypeOK'
  BY DEF Inv, TypeOK
<1>2. RecordsHold'
  BY DEF Inv, RecordsHold
<1>3. InStep'
  BY DbSame DEF Inv, InStep
<1>4. ASSUME NEW q \in Procs, q # p PROVE run'[q].pc = "idle"
  BY <1>4 DEF Inv, TypeOK
<1>5. Alone'
  BY <1>4 DEF Alone
<1>6. \A q \in Procs : RunHolds(q)'
  BY <1>4, IdleHoldsNext
<1>. QED BY <1>1, <1>2, <1>3, <1>5, <1>6 DEF Inv

\* Where one process runs, the others do not.
LEMMA OthersIdle ==
    ASSUME Inv, NEW p \in Procs, run[p].pc # "idle"
    PROVE  \A q \in Procs \ {p} : run[q].pc = "idle"
  BY DEF Inv, Alone

-----------------------------------------------------------------------------
(* The steps of a run up to its commit.                                    *)

\* A run starts from the file records alone, and knows nothing yet.
LEMMA StartHolds ==
    ASSUME Calm, Inv, NEW p \in Procs, Start(p)
    PROVE  Inv'
<1>. DEFINE s == [[Idle EXCEPT !.version = program, !.stored = db.files, !.todo = Files]
                    EXCEPT !.pc = "scan"]
<1>1. TypeOK
  BY DEF Inv
<1>2. s \in Run
  BY <1>1, IdleType, RowsAssumption DEF TypeOK, Tables, Run, Pcs
<1>3. s.pc = "scan" /\ s.version = program /\ s.stored = db.files /\ s.todo = Files
      /\ s.files = NoFiles /\ s.statted = NoFiles /\ s.irs = NoFiles /\ s.cached = NoFiles
  BY DEF Idle
<1>. HIDE DEF s
<1>4. run' = [run EXCEPT ![p] = s] /\ \A q \in Procs \ {p} : run[q].pc = "idle"
  BY DEF Start, Goto, s, Calm
<1>5. /\ UNCHANGED <<content, mtime, clock, program, db, irVersion>>
      /\ during' = [during EXCEPT ![p] = [f \in Files |-> {content[f]}]]
  BY DEF Start, Fixed
<1>6. during' \in [Procs -> [Files -> SUBSET Maybe(Contents)]]
  BY <1>1, <1>5 DEF TypeOK
<1>7. run'[p] = s
  BY <1>1, <1>4 DEF TypeOK
<1>8. ScanHolds(p)'
  BY <1>1, <1>3, <1>5, <1>7 DEF ScanHolds, NoFiles, TypeOK
<1>9. ReadsHold(p)' /\ ParsesHold(p)' /\ AnswersHold(p)'
  BY <1>3, <1>5, <1>7 DEF ReadsHold, ParsesHold, AnswersHold
<1>. QED BY <1>2, <1>4, <1>5, <1>6, <1>8, <1>9, RunStep DEF RunHolds

\* A trusted stat vouches for the recorded content, because the file was last
\* written before the second its record was made in.
LEMMA StatFileHolds ==
    ASSUME Calm, Inv, NEW p \in Procs, NEW f \in Files, StatFile(p, f)
    PROVE  Inv'
<1>. DEFINE r == run[p]
            s == run'[p]
            trusted == r.stored[f] # Absent /\ StatUnchanged(r.stored[f], Stat(f))
<1>1. TypeOK /\ r \in Run /\ r.pc = "scan" /\ content[f] # Absent
  BY DEF Inv, TypeOK, StatFile
<1>2. /\ UNCHANGED <<content, mtime, clock, program, db, irVersion, during>>
      /\ run' = [run EXCEPT ![p] = s]
  BY <1>1 DEF StatFile, Fixed, Goto, TypeOK
<1>3. Stat(f) \in FileStat
  BY <1>1, MayHoldAssumption DEF Stat, FileStat, TypeOK, Sizes, Maybe
<1>4. r.stored = db.files /\ r.irs = NoFiles /\ r.cached = NoFiles /\ ScanHolds(p)
  BY <1>1 DEF Inv, RunHolds, ReadsHold, BeforeCommit
<1>5. ASSUME trusted
      PROVE  LET d == Data(r.stored[f].hash, Stat(f), FALSE)
             IN  /\ d \in FileData /\ d.mtime = mtime[f] /\ d.hash = content[f]
                 /\ d.hash = r.stored[f].hash /\ ~ d.read
  <2>1. r.stored[f] \in FileRecord
    BY <1>1, <1>5 DEF Run, Maybe
  <2>2. Data(r.stored[f].hash, Stat(f), FALSE) \in FileData
    BY <2>1, <1>3 DEF Data, FileRecord, FileStat, FileData
  <2>3. r.stored[f].mtime = mtime[f]
    BY <1>5 DEF StatUnchanged, Stat
  <2>4. r.stored[f].hash = content[f]
    BY <2>3, <1>1, <1>4, <1>5 DEF Inv, RecordsHold
  <2>. QED BY <2>2, <2>4 DEF Data, Stat
<1>6. CASE trusted
  <2>. DEFINE d == Data(r.stored[f].hash, Stat(f), FALSE)
  <2>1. s = [[r EXCEPT !.todo = @ \ {f}, !.files[f] = d] EXCEPT !.pc = "scan"]
    BY <1>1, <1>6 DEF StatFile, Goto, TypeOK
  <2>2. d \in FileData /\ d.mtime = mtime[f] /\ d.hash = content[f]
        /\ d.hash = r.stored[f].hash /\ ~ d.read
    BY <1>5, <1>6
  <2>. HIDE DEF d
  <2>3. s \in Run /\ s.pc = "scan" /\ s.todo = r.todo \ {f} /\ s.files = [r.files EXCEPT ![f] = d]
        /\ s.version = r.version /\ s.stored = r.stored /\ s.statted = r.statted
        /\ s.irs = r.irs /\ s.cached = r.cached
    <3>1. [r.files EXCEPT ![f] = d] \in [Files -> Maybe(FileData)]
      BY <2>2, <1>1 DEF Run, Maybe
    <3>2. r.todo \ {f} \in SUBSET Files
      BY <1>1 DEF Run
    <3>. QED BY <2>1, <3>1, <3>2, <1>1 DEF Run, Pcs
  <2>4. s.files[f] = d /\ \A g \in Files \ {f} : s.files[g] = r.files[g]
    BY <2>3, <1>1 DEF Run
  <2>5. ScanHolds(p)'
    <3>. SUFFICES ASSUME NEW g \in Files
         PROVE /\ content[g] \in during[p][g]
               /\ s.statted[g] # Absent => s.statted[g].mtime <= mtime[g]
               /\ s.files[g] = Absent /\ (s.pc = "scan" => g \notin s.todo)
                     => Absent \in during[p][g]
               /\ s.files[g] # Absent =>
                    /\ s.files[g].mtime <= mtime[g]
                    /\ content[g] # Absent /\ s.files[g].mtime = mtime[g]
                          => content[g] = s.files[g].hash
                    /\ s.files[g].hash \in during[p][g]
                    /\ ~ s.files[g].read =>
                          /\ s.stored[g] # Absent /\ s.stored[g].hash = s.files[g].hash
                          /\ irVersion # s.version => content[g] = s.files[g].hash
      BY <1>1, <1>2, <1>4, <2>3 DEF ScanHolds, Busy
    <3>1. CASE g = f
      <4>1. mtime[f] \in Nat
        BY <1>1, ClockAssumption DEF TypeOK, Ticks
      <4>2. d # Absent
        BY <2>2, MarkAssumption
      <4>3. content[f] \in during[p][f] /\ (r.statted[f] # Absent => r.statted[f].mtime <= mtime[f])
        BY <1>1, <1>4 DEF ScanHolds, Busy
      <4>4. s.stored[f] # Absent /\ s.files[f] = d
        BY <1>6, <2>3, <2>4
      <4>. QED BY <3>1, <4>1, <4>2, <4>3, <4>4, <2>2, <2>3
    <3>2. CASE g # f
      BY <3>2, <1>1, <1>4, <2>3, <2>4 DEF ScanHolds, Busy
    <3>. QED BY <3>1, <3>2
  <2>6. ReadsHold(p)' /\ ParsesHold(p)' /\ AnswersHold(p)'
    BY <2>3, <1>2, <1>4 DEF ReadsHold, ParsesHold, AnswersHold
  <2>7. during' \in [Procs -> [Files -> SUBSET Maybe(Contents)]]
    BY <1>1, <1>2 DEF TypeOK
  <2>8. \A q \in Procs \ {p} : run[q].pc = "idle"
    BY <1>1, OthersIdle
  <2>. QED BY <1>2, <2>3, <2>5, <2>6, <2>7, <2>8, RunStep DEF RunHolds
<1>7. CASE ~ trusted
  <2>1. s = [[r EXCEPT !.statted[f] = Stat(f)] EXCEPT !.pc = "scan"]
    BY <1>1, <1>7 DEF StatFile, Goto, TypeOK
  <2>3. s \in Run /\ s.pc = "scan" /\ s.todo = r.todo /\ s.files = r.files
        /\ s.statted = [r.statted EXCEPT ![f] = Stat(f)]
        /\ s.version = r.version /\ s.stored = r.stored
        /\ s.irs = r.irs /\ s.cached = r.cached
    <3>1. [r.statted EXCEPT ![f] = Stat(f)] \in [Files -> Maybe(FileStat)]
      BY <1>1, <1>3 DEF Run, Maybe
    <3>. QED BY <2>1, <3>1, <1>1 DEF Run, Pcs
  <2>4. s.statted[f].mtime = mtime[f] /\ \A g \in Files \ {f} : s.statted[g] = r.statted[g]
    BY <2>3, <1>1 DEF Run, Stat
  <2>5. ScanHolds(p)'
    <3>1. \A g \in Files : s.statted[g] # Absent => s.statted[g].mtime <= mtime[g]
      <4>1. mtime[f] \in Nat
        BY <1>1, ClockAssumption DEF TypeOK, Ticks
      <4>. QED BY <4>1, <2>4, <1>1, <1>4 DEF ScanHolds, Busy
    <3>. QED BY <3>1, <2>3, <1>1, <1>2, <1>4 DEF ScanHolds, Busy
  <2>6. ReadsHold(p)' /\ ParsesHold(p)' /\ AnswersHold(p)'
    BY <2>3, <1>2, <1>4 DEF ReadsHold, ParsesHold, AnswersHold
  <2>7. during' \in [Procs -> [Files -> SUBSET Maybe(Contents)]]
    BY <1>1, <1>2 DEF TypeOK
  <2>8. \A q \in Procs \ {p} : run[q].pc = "idle"
    BY <1>1, OthersIdle
  <2>. QED BY <1>2, <2>3, <2>5, <2>6, <2>7, <2>8, RunStep DEF RunHolds
<1>. QED BY <1>6, <1>7

\* A hash is of a content the file has had since the run began.
LEMMA ReadFileHolds ==
    ASSUME Calm, Inv, NEW p \in Procs, NEW f \in Files, ReadFile(p, f)
    PROVE  Inv'
<1>. DEFINE r == run[p]
            s == run'[p]
            d == Data(content[f], r.statted[f], TRUE)
<1>1. TypeOK /\ r \in Run /\ r.pc = "scan" /\ content[f] # Absent /\ r.statted[f] # Absent
  BY DEF Inv, TypeOK, ReadFile
<1>2. /\ UNCHANGED <<content, mtime, clock, program, db, irVersion, during>>
      /\ run' = [run EXCEPT ![p] = s]
      /\ s = [[r EXCEPT !.todo = @ \ {f}, !.statted[f] = Absent, !.files[f] = d]
                EXCEPT !.pc = "scan"]
  BY <1>1 DEF ReadFile, Fixed, Goto, TypeOK
<1>3. r.stored = db.files /\ r.irs = NoFiles /\ r.cached = NoFiles /\ ScanHolds(p)
  BY <1>1 DEF Inv, RunHolds, ReadsHold, BeforeCommit
<1>4. r.statted[f] \in FileStat /\ content[f] \in Contents
  BY <1>1 DEF Run, Maybe, TypeOK
<1>5. d \in FileData /\ d.hash = content[f] /\ d.mtime = r.statted[f].mtime /\ d.read
  BY <1>4 DEF Data, FileData, FileStat
<1>. HIDE DEF d
<1>6. s \in Run /\ s.pc = "scan" /\ s.todo = r.todo \ {f} /\ s.files = [r.files EXCEPT ![f] = d]
      /\ s.statted = [r.statted EXCEPT ![f] = Absent]
      /\ s.version = r.version /\ s.stored = r.stored /\ s.irs = r.irs /\ s.cached = r.cached
  <2>1. [r.files EXCEPT ![f] = d] \in [Files -> Maybe(FileData)]
    BY <1>1, <1>5 DEF Run, Maybe
  <2>2. [r.statted EXCEPT ![f] = Absent] \in [Files -> Maybe(FileStat)]
    BY <1>1 DEF Run, Maybe
  <2>3. r.todo \ {f} \in SUBSET Files
    BY <1>1 DEF Run
  <2>. QED BY <1>1, <1>2, <2>1, <2>2, <2>3 DEF Run, Pcs
<1>7. /\ s.files[f] = d /\ \A g \in Files \ {f} : s.files[g] = r.files[g]
      /\ s.statted[f] = Absent /\ \A g \in Files \ {f} : s.statted[g] = r.statted[g]
  BY <1>1, <1>6 DEF Run
<1>8. ScanHolds(p)'
  <2>. SUFFICES ASSUME NEW g \in Files
       PROVE /\ content[g] \in during[p][g]
             /\ s.statted[g] # Absent => s.statted[g].mtime <= mtime[g]
             /\ s.files[g] = Absent /\ (s.pc = "scan" => g \notin s.todo)
                   => Absent \in during[p][g]
             /\ s.files[g] # Absent =>
                  /\ s.files[g].mtime <= mtime[g]
                  /\ content[g] # Absent /\ s.files[g].mtime = mtime[g]
                        => content[g] = s.files[g].hash
                  /\ s.files[g].hash \in during[p][g]
                  /\ ~ s.files[g].read =>
                        /\ s.stored[g] # Absent /\ s.stored[g].hash = s.files[g].hash
                        /\ irVersion # s.version => content[g] = s.files[g].hash
    BY <1>1, <1>2, <1>3, <1>6 DEF ScanHolds, Busy
  <2>1. CASE g = f
    <3>1. content[f] \in during[p][f] /\ r.statted[f].mtime <= mtime[f]
      BY <1>1, <1>3 DEF ScanHolds, Busy
    <3>2. d # Absent
      BY <1>5, MarkAssumption
    <3>. QED BY <2>1, <3>1, <3>2, <1>5, <1>6, <1>7
  <2>2. CASE g # f
    BY <2>2, <1>1, <1>3, <1>6, <1>7 DEF ScanHolds, Busy
  <2>. QED BY <2>1, <2>2
<1>9. ReadsHold(p)' /\ ParsesHold(p)' /\ AnswersHold(p)'
  BY <1>6, <1>2, <1>3 DEF ReadsHold, ParsesHold, AnswersHold
<1>10. during' \in [Procs -> [Files -> SUBSET Maybe(Contents)]]
  BY <1>1, <1>2 DEF TypeOK
<1>11. \A q \in Procs \ {p} : run[q].pc = "idle"
  BY <1>1, OthersIdle
<1>. QED BY <1>2, <1>6, <1>8, <1>9, <1>10, <1>11, RunStep DEF RunHolds

\* Passing over a file only takes it off the list.
LEMMA PassOverHolds ==
    ASSUME Calm, Inv, NEW p \in Procs, NEW f \in Files, PassOver(p, f)
    PROVE  Inv'
<1>. DEFINE r == run[p]
            s == run'[p]
<1>1. TypeOK /\ r \in Run /\ r.pc = "scan"
  BY DEF Inv, TypeOK, PassOver
<1>2. /\ UNCHANGED <<content, mtime, clock, program, db, irVersion>>
      /\ during' = [during EXCEPT ![p][f] = @ \cup {Absent}]
      /\ run' = [run EXCEPT ![p] = s]
      /\ s = [[r EXCEPT !.todo = @ \ {f}, !.statted[f] = Absent] EXCEPT !.pc = "scan"]
  BY <1>1 DEF PassOver, Fixed, Goto, TypeOK
<1>3. r.stored = db.files /\ r.irs = NoFiles /\ r.cached = NoFiles /\ ScanHolds(p)
  BY <1>1 DEF Inv, RunHolds, ReadsHold, BeforeCommit
<1>6. s \in Run /\ s.pc = "scan" /\ s.todo = r.todo \ {f} /\ s.files = r.files
      /\ s.statted = [r.statted EXCEPT ![f] = Absent]
      /\ s.version = r.version /\ s.stored = r.stored /\ s.irs = r.irs /\ s.cached = r.cached
  <2>2. [r.statted EXCEPT ![f] = Absent] \in [Files -> Maybe(FileStat)]
    BY <1>1 DEF Run, Maybe
  <2>3. r.todo \ {f} \in SUBSET Files
    BY <1>1 DEF Run
  <2>. QED BY <1>1, <1>2, <2>2, <2>3 DEF Run, Pcs
<1>7. s.statted[f] = Absent /\ \A g \in Files \ {f} : s.statted[g] = r.statted[g]
  BY <1>1, <1>6 DEF Run
<1>8. /\ during' \in [Procs -> [Files -> SUBSET Maybe(Contents)]]
      /\ Absent \in during'[p][f]
      /\ \A g \in Files : during[p][g] \subseteq during'[p][g]
  BY <1>1, <1>2 DEF TypeOK, Maybe
<1>9. ScanHolds(p)'
  BY <1>1, <1>2, <1>3, <1>6, <1>7, <1>8 DEF ScanHolds, Busy
<1>10. ReadsHold(p)' /\ ParsesHold(p)' /\ AnswersHold(p)'
  BY <1>6, <1>2, <1>3 DEF ReadsHold, ParsesHold, AnswersHold
<1>11. \A q \in Procs \ {p} : run[q].pc = "idle"
  BY <1>1, OthersIdle
<1>. QED BY <1>2, <1>6, <1>8, <1>9, <1>10, <1>11, RunStep DEF RunHolds

\* After the scan, what a run knows of the files does not change.
LEMMA ScanKept ==
    ASSUME NEW p, ScanHolds(p), Busy(p),
           UNCHANGED <<content, mtime, program, during>>,
           irVersion' = irVersion \/ irVersion' = run[p].version,
           run'[p].version = run[p].version, run'[p].files = run[p].files,
           run'[p].stored = run[p].stored, run'[p].statted = run[p].statted,
           run'[p].pc # "scan", run[p].pc = "scan" => run[p].todo = {}
    PROVE  ScanHolds(p)'
  BY DEF ScanHolds, Busy

\* The second of a time stamp is no later than the stamp.
LEMMA SecondType == ASSUME NEW t \in Ticks PROVE Second(t) \in Ticks
<1>1. t \in Nat /\ TicksPerSecond \in Nat \ {0} /\ MaxClock \in Nat /\ t <= MaxClock
  BY ClockAssumption DEF Ticks
<1>2. t \div TicksPerSecond \in Nat /\ t \div TicksPerSecond <= t
  BY <1>1, SMTT(30)
<1>. QED BY <1>1, <1>2 DEF Second, Ticks

\* The decision reads the version and the time, and leads to a step that fits it.
LEMMA DecideHolds ==
    ASSUME Calm, Inv, NEW p \in Procs, Decide(p)
    PROVE  Inv'
<1>. DEFINE r == run[p]
            s == run'[p]
            t == [r EXCEPT !.stale = (irVersion # r.version), !.second = Second(clock)]
            pc == IF Changed(t) THEN (IF t.stale THEN "parse" ELSE "cache")
                  ELSE IF Restat(t) # {} THEN "commit" ELSE "done"
<1>1. TypeOK /\ r \in Run /\ r.pc = "scan" /\ r.todo = {}
  BY DEF Inv, TypeOK, Decide
<1>2. /\ UNCHANGED <<content, mtime, clock, program, db, irVersion, during>>
      /\ run' = [run EXCEPT ![p] = s]
      /\ s = [[t EXCEPT !.todo = Seen(t)] EXCEPT !.pc = pc]
  BY <1>1 DEF Decide, Fixed, Goto, TypeOK
<1>3. r.stored = db.files /\ r.irs = NoFiles /\ r.cached = NoFiles /\ ScanHolds(p)
  BY <1>1 DEF Inv, RunHolds, ReadsHold, BeforeCommit
<1>4. Second(clock) \in Ticks
  BY <1>1, SecondType DEF TypeOK
<1>5. pc \in Pcs \ {"idle", "scan", "edges", "meta"}
  BY DEF Pcs
<1>6. t \in Run /\ t.files = r.files /\ t.stored = r.stored /\ t.version = r.version
      /\ t.stale = (irVersion # r.version)
      /\ t.statted = r.statted /\ t.irs = r.irs /\ t.cached = r.cached
  BY <1>1, <1>4 DEF Run
<1>7. Seen(t) \in SUBSET Files
  BY <1>6 DEF Seen, Keys, Run
<1>. HIDE DEF t, pc
<1>8. s \in Run /\ s.pc = pc /\ s.todo = Seen(t) /\ s.files = t.files /\ s.stored = t.stored
      /\ s.version = t.version /\ s.stale = t.stale
      /\ s.statted = t.statted /\ s.irs = t.irs /\ s.cached = t.cached
  BY <1>2, <1>5, <1>6, <1>7 DEF Run
<1>9. /\ Changed(s) = Changed(t) /\ Seen(s) = Seen(t) /\ Dirty(s) = Dirty(t)
      /\ Deleted(s) = Deleted(t) /\ Restat(s) = Restat(t)
  BY <1>8, ChangedSame
<1>10. ScanHolds(p)'
  BY <1>1, <1>2, <1>3, <1>5, <1>6, <1>8, ScanKept DEF Busy
<1>11. ReadsHold(p)'
  <2>1. pc = "commit" => Seen(t) # {} /\ ~ Changed(t)
    BY DEF pc, Restat
  <2>2. pc \in {"parse", "cache"} => Changed(t)
    BY DEF pc
  <2>3. (pc = "cache" => ~ t.stale) /\ (pc = "parse" => t.stale)
    BY DEF pc
  <2>. QED BY <1>2, <1>3, <1>5, <1>6, <1>8, <1>9, <2>1, <2>2, <2>3 DEF ReadsHold, BeforeCommit
<1>12. ParsesHold(p)'
  <2>1. pc = "commit" => ~ Changed(t)
    BY DEF pc
  <2>2. \A f \in Files \ Seen(s) : s.irs[f] = ParseOf(s, f)
    BY <1>3, <1>6, <1>8 DEF Seen, Keys, ParseOf, NoFiles, Run
  <2>. QED BY <1>3, <1>5, <1>6, <1>8, <1>9, <2>1, <2>2 DEF ParsesHold
<1>13. pc = "done" => Answered(p)
  <2>. SUFFICES ASSUME pc = "done" PROVE Answered(p)
    OBVIOUS
  <2>1. ~ Changed(t) /\ Restat(t) = {}
    BY DEF pc
  <2>2. Dirty(t) = {} /\ Deleted(t) = {} /\ (t.stale => Seen(t) = {})
    BY <2>1 DEF Changed
  <2>3. \A f \in Files : /\ t.files[f] = Absent => db.files[f] = Absent
                         /\ t.files[f] # Absent => ~ t.files[f].read
    BY <2>1, <2>2, <1>1, <1>3, <1>6 DEF Deleted, Seen, Keys, Restat, Run
  <2>4. \A f \in Files : HashOf(f) \in during[p][f]
    <3>. SUFFICES ASSUME NEW f \in Files PROVE HashOf(f) \in during[p][f]
      OBVIOUS
    <3>1. CASE t.files[f] = Absent
      <4>1. Absent \in during[p][f]
        BY <3>1, <1>1, <1>3, <1>6 DEF ScanHolds, Busy
      <4>. QED BY <3>1, <4>1, <2>3 DEF HashOf
    <3>2. CASE t.files[f] # Absent
      <4>1. /\ r.stored[f] # Absent /\ r.stored[f].hash = r.files[f].hash
            /\ r.files[f].hash \in during[p][f]
        BY <3>2, <2>3, <1>1, <1>3, <1>6 DEF ScanHolds, Busy
      <4>. QED BY <4>1, <1>3 DEF HashOf
    <3>. QED BY <3>1, <3>2
  <2>5. GraphOf(r.version)
    <3>1. PICK v \in irVersion .. program : v # 0 /\ GraphOf(v)
      BY DEF Inv, InStep
    <3>2. r.version = program
      BY <1>1, <1>3 DEF ScanHolds, Busy
    <3>3. CASE ~ t.stale
      <4>1. irVersion = program /\ program \in 1 .. MaxVersion
        BY <3>2, <3>3, <1>1, <1>6 DEF TypeOK
      <4>2. v = program
        BY <3>1, <4>1, VersionAssumption
      <4>. QED BY <3>1, <3>2, <4>2
    <3>4. CASE t.stale
      <4>1. \A f \in Files : HashOf(f) = Absent
        <5>1. \A f \in Files : t.files[f] = Absent
          BY <3>4, <2>2, <1>6 DEF Seen, Keys, Run
        <5>. QED BY <5>1, <2>3 DEF HashOf
      <4>2. RecordedView(v) = RecordedView(r.version)
        BY <4>1 DEF RecordedView
      <4>. QED BY <3>1, <4>2 DEF GraphOf
    <3>. QED BY <3>3, <3>4
  <2>. QED BY <2>4, <2>5 DEF Answered
<1>14. AnswersHold(p)'
  <2>1. pc = "done" => (Answered(p))'
    <3>1. s.version = r.version
      BY <1>6, <1>8
    <3>. QED BY <1>13, <1>2, <3>1, DbSame DEF Answered
  <2>. QED BY <1>5, <1>8, <2>1 DEF AnswersHold
<1>15. during' \in [Procs -> [Files -> SUBSET Maybe(Contents)]]
  BY <1>1, <1>2 DEF TypeOK
<1>16. \A q \in Procs \ {p} : run[q].pc = "idle"
  BY <1>1, OthersIdle
<1>. QED BY <1>2, <1>8, <1>10, <1>11, <1>12, <1>14, <1>15, <1>16, RunStep DEF RunHolds

\* Where meta names the running version, the stored graph is of that version.
LEMMA CurrentVersion ==
    ASSUME Inv, NEW p \in Procs, Busy(p), irVersion = run[p].version
    PROVE  GraphOf(run[p].version) /\ CacheOf(run[p].version)
<1>1. run[p].version = program /\ program \in 1 .. MaxVersion
  BY DEF Inv, RunHolds, ScanHolds, TypeOK
<1>2. PICK v \in irVersion .. program : v # 0 /\ GraphOf(v) /\ CacheOf(v)
  BY DEF Inv, InStep
<1>3. v = program
  BY <1>1, <1>2, VersionAssumption
<1>. QED BY <1>1, <1>2, <1>3

\* The cached parses read are those of the recorded contents.
LEMMA ReadCacheHolds ==
    ASSUME Calm, Inv, NEW p \in Procs, ReadCache(p)
    PROVE  Inv'
<1>. DEFINE r == run[p]
            s == run'[p]
<1>1. TypeOK /\ r \in Run /\ r.pc = "cache" /\ RunHolds(p)
  BY DEF Inv, TypeOK, ReadCache
<1>2. /\ UNCHANGED <<content, mtime, clock, program, db, irVersion, during>>
      /\ run' = [run EXCEPT ![p] = s]
      /\ s = [[r EXCEPT !.cached = db.irs] EXCEPT !.pc = "parse"]
  BY <1>1 DEF ReadCache, Fixed, Goto, TypeOK
<1>3. db.irs \in [Files -> Maybe(FileIR)]
  BY <1>1, RowsAssumption DEF TypeOK, Tables
<1>4. s \in Run /\ s.pc = "parse" /\ s.cached = db.irs /\ s.todo = r.todo
      /\ s.files = r.files /\ s.stored = r.stored /\ s.version = r.version
      /\ s.stale = r.stale /\ s.statted = r.statted /\ s.irs = r.irs
  BY <1>1, <1>2, <1>3 DEF Run, Pcs
<1>5. Changed(s) = Changed(r) /\ Seen(s) = Seen(r)
  BY <1>4, ChangedSame
<1>6. ScanHolds(p)'
  BY <1>1, <1>2, <1>4, ScanKept DEF RunHolds, Busy
<1>7. ReadsHold(p)'
  BY <1>1, <1>2, <1>4, <1>5 DEF RunHolds, ReadsHold, BeforeCommit
<1>8. ParsesHold(p)'
  <2>1. \A f \in Files \ Seen(s) : s.irs[f] = ParseOf(s, f)
    BY <1>1, <1>4 DEF RunHolds, ParsesHold, Seen, Keys, ParseOf, NoFiles, Run
  <2>. QED BY <1>1, <1>4, <1>5, <2>1 DEF RunHolds, ParsesHold
<1>9. AnswersHold(p)'
  BY <1>4 DEF AnswersHold
<1>10. during' \in [Procs -> [Files -> SUBSET Maybe(Contents)]]
  BY <1>1, <1>2 DEF TypeOK
<1>11. \A q \in Procs \ {p} : run[q].pc = "idle"
  BY <1>1, OthersIdle
<1>. QED BY <1>2, <1>4, <1>6, <1>7, <1>8, <1>9, <1>10, <1>11, RunStep DEF RunHolds

\* A cached parse under the recorded hash is the parse that a file would get,
\* and a file whose stat was trusted either has one or still has that content.
LEMMA ParsesRight ==
    ASSUME Inv, NEW p \in Procs, NEW f \in Files, run[p].pc = "parse", f \in run[p].todo
    PROVE  LET r == run[p]
           IN  /\ r.files[f] \in FileData /\ r.files[f] # Absent
               /\ Cached(r, f) => r.cached[f].data = ParseOf(r, f)
               /\ ~ Cached(r, f) /\ ~ r.files[f].read => content[f] = r.files[f].hash
<1>. DEFINE r == run[p]
<1>1. TypeOK /\ r \in Run /\ RunHolds(p) /\ Busy(p)
  BY DEF Inv, TypeOK, Busy
<1>2. /\ r.files[f] # Absent /\ r.stored = db.files /\ r.stale = (irVersion # r.version)
      /\ r.cached = IF r.stale THEN NoFiles ELSE db.irs
  BY <1>1 DEF RunHolds, ReadsHold, ParsesHold, Seen, Keys, BeforeCommit
<1>3. r.files[f] \in FileData
  BY <1>1, <1>2 DEF Run, Maybe
<1>4. ~ r.stale => db.irs[f] = IF HashOf(f) = Absent THEN Absent
                               ELSE [hash |-> HashOf(f), data |-> RecordedView(r.version)[f]]
  BY <1>1, <1>2, CurrentVersion DEF CacheOf
<1>5. HashOf(f) # Absent =>
        RecordedView(r.version)[f] = [content |-> HashOf(f), version |-> r.version]
  BY DEF RecordedView
<1>6. ASSUME Cached(r, f) PROVE r.cached[f].data = ParseOf(r, f)
  <2>1. ~ r.stale /\ db.irs[f] # Absent /\ db.irs[f].hash = r.files[f].hash
    BY <1>2, <1>6 DEF Cached, NoFiles
  <2>. QED BY <2>1, <1>2, <1>4, <1>5 DEF ParseOf
<1>7. ASSUME ~ Cached(r, f), ~ r.files[f].read PROVE content[f] = r.files[f].hash
  <2>1. CASE r.stale
    BY <2>1, <1>1, <1>2, <1>7 DEF RunHolds, ScanHolds
  <2>2. CASE ~ r.stale
    <3>1. r.stored[f] # Absent /\ r.stored[f].hash = r.files[f].hash
      BY <1>1, <1>2, <1>7 DEF RunHolds, ScanHolds
    <3>2. HashOf(f) = r.files[f].hash /\ HashOf(f) \in Contents
      BY <3>1, <1>2, <1>3 DEF HashOf, FileData
    <3>3. db.irs[f] = [hash |-> HashOf(f), data |-> RecordedView(r.version)[f]]
      BY <2>2, <3>2, <1>4, MarkAssumption
    <3>4. RecordedView(r.version)[f] \in IR
      BY <3>2, <1>1, <1>5, MarkAssumption DEF IR, Run
    <3>5. db.irs[f] \in FileIR
      BY <3>2, <3>3, <3>4 DEF FileIR
    <3>6. db.irs[f] # Absent
      BY <3>5, RowsAssumption, AbsentAssumption
    <3>. QED BY <2>2, <3>2, <3>3, <3>6, <1>2, <1>7 DEF Cached
  <2>. QED BY <2>1, <2>2
<1>. QED BY <1>2, <1>3, <1>6, <1>7

\* Each parse is of the content found, in the version of the run.
LEMMA ParseFileHolds ==
    ASSUME Calm, Inv, NEW p \in Procs, NEW f \in Files, ParseFile(p, f)
    PROVE  Inv'
<1>. DEFINE r == run[p]
            s == run'[p]
            source == IF r.files[f].read THEN r.files[f].hash ELSE content[f]
            ir == IF Cached(r, f) THEN r.cached[f].data
                  ELSE [content |-> source, version |-> r.version]
<1>1. TypeOK /\ r \in Run /\ r.pc = "parse" /\ RunHolds(p) /\ f \in r.todo
  BY DEF Inv, TypeOK, ParseFile
<1>2. /\ UNCHANGED <<content, mtime, clock, program, db, irVersion, during>>
      /\ run' = [run EXCEPT ![p] = s]
      /\ s = [[r EXCEPT !.todo = @ \ {f}, !.irs[f] = ir] EXCEPT !.pc = "parse"]
  BY <1>1 DEF ParseFile, Fixed, Goto, TypeOK
<1>3. ir = ParseOf(r, f) /\ r.files[f] \in FileData /\ r.files[f] # Absent
  BY <1>1, ParsesRight DEF ParseOf
<1>4. ParseOf(r, f) \in IR
  BY <1>1, <1>3 DEF ParseOf, IR, FileData, Run
<1>. HIDE DEF ir
<1>5. [r.irs EXCEPT ![f] = ir] \in View
  BY <1>1, <1>3, <1>4 DEF View, Maybe, Run
<1>6. s \in Run /\ s.pc = "parse" /\ s.cached = r.cached /\ s.todo = r.todo \ {f}
      /\ s.files = r.files /\ s.stored = r.stored /\ s.version = r.version
      /\ s.stale = r.stale /\ s.statted = r.statted /\ s.irs = [r.irs EXCEPT ![f] = ir]
  <2>1. r.todo \ {f} \in SUBSET Files
    BY <1>1 DEF Run
  <2>. QED BY <1>1, <1>2, <1>5, <2>1 DEF Run, Pcs
<1>7. Changed(s) = Changed(r) /\ Seen(s) = Seen(r)
  BY <1>6, ChangedSame
<1>8. ScanHolds(p)'
  BY <1>1, <1>2, <1>6, ScanKept DEF RunHolds, Busy
<1>9. ReadsHold(p)'
  BY <1>1, <1>2, <1>6, <1>7 DEF RunHolds, ReadsHold, BeforeCommit
<1>10. ParsesHold(p)'
  <2>1. \A g \in Files \ s.todo : s.irs[g] = ParseOf(s, g)
    <3>1. s.irs[f] = ir /\ \A g \in Files \ {f} : s.irs[g] = r.irs[g]
      BY <1>1, <1>6 DEF Run, View
    <3>2. \A g \in Files \ r.todo : r.irs[g] = ParseOf(r, g)
      BY <1>1 DEF RunHolds, ParsesHold
    <3>3. \A g \in Files : ParseOf(s, g) = ParseOf(r, g)
      BY <1>6 DEF ParseOf
    <3>. QED BY <3>1, <3>2, <3>3, <1>3, <1>6
  <2>. QED BY <1>1, <1>6, <1>7, <2>1 DEF RunHolds, ParsesHold
<1>11. AnswersHold(p)'
  BY <1>6 DEF AnswersHold
<1>12. during' \in [Procs -> [Files -> SUBSET Maybe(Contents)]]
  BY <1>1, <1>2 DEF TypeOK
<1>13. \A q \in Procs \ {p} : run[q].pc = "idle"
  BY <1>1, OthersIdle
<1>. QED BY <1>2, <1>6, <1>8, <1>9, <1>10, <1>11, <1>12, <1>13, RunStep DEF RunHolds

\* In a calm rebuild every file that was seen can still be parsed.
LEMMA NothingLost ==
    ASSUME Calm, Inv, NEW p \in Procs, NEW f \in Files
    PROVE  ~ LoseFile(p, f)
<1>. SUFFICES ASSUME LoseFile(p, f) PROVE FALSE
  OBVIOUS
<1>1. /\ run[p].pc = "parse" /\ f \in run[p].todo /\ ~ Cached(run[p], f)
      /\ ~ run[p].files[f].read /\ content[f] = Absent
  BY DEF LoseFile, Calm
<1>2. content[f] = run[p].files[f].hash /\ run[p].files[f] \in FileData
  BY <1>1, ParsesRight
<1>. QED BY <1>1, <1>2, MarkAssumption DEF FileData

\* The nodes read are the stored ones, and every file seen has been parsed.
LEMMA ReadNodesHolds ==
    ASSUME Calm, Inv, NEW p \in Procs, ReadNodes(p)
    PROVE  Inv'
<1>. DEFINE r == run[p]
            s == run'[p]
<1>1. TypeOK /\ r \in Run /\ r.pc = "parse" /\ r.todo = {} /\ RunHolds(p)
  BY DEF Inv, TypeOK, ReadNodes
<1>2. /\ UNCHANGED <<content, mtime, clock, program, db, irVersion, during>>
      /\ run' = [run EXCEPT ![p] = s]
      /\ s = [[r EXCEPT !.nodes = db.nodes] EXCEPT !.pc = "edges"]
  BY <1>1 DEF ReadNodes, Fixed, Goto, TypeOK
<1>3. s \in Run /\ s.pc = "edges" /\ s.cached = r.cached /\ s.nodes = db.nodes
      /\ s.files = r.files /\ s.stored = r.stored /\ s.version = r.version
      /\ s.stale = r.stale /\ s.statted = r.statted /\ s.irs = r.irs
  BY <1>1, <1>2 DEF Run, Pcs, TypeOK, Tables
<1>4. Changed(s) = Changed(r) /\ Seen(s) = Seen(r)
  BY <1>3, ChangedSame
<1>5. ScanHolds(p)'
  BY <1>1, <1>2, <1>3, ScanKept DEF RunHolds, Busy
<1>6. ReadsHold(p)'
  BY <1>1, <1>2, <1>3, <1>4 DEF RunHolds, ReadsHold, BeforeCommit
<1>7. ParsesHold(p)'
  BY <1>1, <1>3 DEF RunHolds, ParsesHold, ParseOf
<1>8. AnswersHold(p)'
  BY <1>3 DEF AnswersHold
<1>9. during' \in [Procs -> [Files -> SUBSET Maybe(Contents)]]
  BY <1>1, <1>2 DEF TypeOK
<1>10. \A q \in Procs \ {p} : run[q].pc = "idle"
  BY <1>1, OthersIdle
<1>. QED BY <1>2, <1>3, <1>5, <1>6, <1>7, <1>8, <1>9, <1>10, RunStep DEF RunHolds

\* The edges read belong to the nodes read before.
LEMMA ReadEdgesHolds ==
    ASSUME Calm, Inv, NEW p \in Procs, ReadEdges(p)
    PROVE  Inv'
<1>. DEFINE r == run[p]
            s == run'[p]
<1>1. TypeOK /\ r \in Run /\ r.pc = "edges" /\ RunHolds(p)
  BY DEF Inv, TypeOK, ReadEdges
<1>2. /\ UNCHANGED <<content, mtime, clock, program, db, irVersion, during>>
      /\ run' = [run EXCEPT ![p] = s]
      /\ s = [[r EXCEPT !.edges = db.edges] EXCEPT !.pc = "commit"]
  BY <1>1 DEF ReadEdges, Fixed, Goto, TypeOK
<1>3. s \in Run /\ s.pc = "commit" /\ s.cached = r.cached /\ s.nodes = r.nodes
      /\ s.edges = db.edges
      /\ s.files = r.files /\ s.stored = r.stored /\ s.version = r.version
      /\ s.stale = r.stale /\ s.statted = r.statted /\ s.irs = r.irs
  BY <1>1, <1>2 DEF Run, Pcs, TypeOK, Tables
<1>4. Changed(s) = Changed(r) /\ Seen(s) = Seen(r)
  BY <1>3, ChangedSame
<1>5. ScanHolds(p)'
  BY <1>1, <1>2, <1>3, ScanKept DEF RunHolds, Busy
<1>6. ReadsHold(p)'
  BY <1>1, <1>2, <1>3, <1>4 DEF RunHolds, ReadsHold, BeforeCommit
<1>7. ParsesHold(p)'
  BY <1>1, <1>3 DEF RunHolds, ParsesHold, ParseOf
<1>8. AnswersHold(p)'
  BY <1>3 DEF AnswersHold
<1>9. during' \in [Procs -> [Files -> SUBSET Maybe(Contents)]]
  BY <1>1, <1>2 DEF TypeOK
<1>10. \A q \in Procs \ {p} : run[q].pc = "idle"
  BY <1>1, OthersIdle
<1>. QED BY <1>2, <1>3, <1>5, <1>6, <1>7, <1>8, <1>9, <1>10, RunStep DEF RunHolds

-----------------------------------------------------------------------------
(* The commit.                                                             *)

\* The batch a run commits, without the graph's diff.
Base(r) == IF Changed(r) THEN [RecordBatch(r) EXCEPT !.irs = FreshIRs(r), !.removed = Deleted(r)]
           ELSE RecordBatch(r)

\* The batch before the diff is queued is a batch.
LEMMA BaseType ==
    ASSUME NEW r \in Run
    PROVE  /\ Base(r) \in Batch
           /\ Base(r).deletedNodes = {} /\ Base(r).deletedEdges = {} /\ Keys(Base(r).touched) = {}
           /\ Base(r).nodes = [id \in Ids |-> Absent]
           /\ Base(r).edges = [k \in EdgeKeys |-> Absent]
           /\ Base(r).touched = [f \in Files |-> Absent]
           /\ Base(r).removed = IF Changed(r) THEN Deleted(r) ELSE {}
           /\ Base(r).recorded = RecordsOf(r, Dirty(r) \cup Restat(r))
           /\ Base(r).irs = IF Changed(r) THEN FreshIRs(r) ELSE [f \in Files |-> Absent]
<1>1. RecordsOf(r, Dirty(r) \cup Restat(r)) \in [Files -> Maybe(Records)]
  <2>. SUFFICES ASSUME NEW f \in Files, f \in Dirty(r) \cup Restat(r)
                PROVE  [hash |-> r.files[f].hash, size |-> r.files[f].size,
                        mtime |-> r.files[f].mtime, second |-> r.second] \in FileRecord
    BY RowsAssumption DEF RecordsOf, Maybe
  <2>1. r.files[f] \in FileData
    BY DEF Dirty, Restat, Seen, Keys, Run, Maybe
  <2>. QED BY <2>1 DEF FileData, FileRecord, Run
<1>2. FreshIRs(r) \in [Files -> Maybe(Parses)]
  <2>. SUFFICES ASSUME NEW f \in Files, r.irs[f] # Absent, r.irs[f].content = r.files[f].hash
                PROVE  [hash |-> r.files[f].hash, data |-> r.irs[f]] \in FileIR
    BY RowsAssumption DEF FreshIRs, Maybe
  <2>1. r.irs[f] \in IR
    BY DEF Run, View, Maybe
  <2>. QED BY <2>1 DEF IR, FileIR
<1>3. Deleted(r) \in SUBSET Files
  BY DEF Deleted, Keys, Run
<1>4. NewBatch \in Batch
  BY DEF NewBatch, Batch, Maybe
<1>5. RecordBatch(r) \in Batch
  BY <1>1, <1>4 DEF RecordBatch, Batch
<1>6. Base(r) \in Batch
  BY <1>2, <1>3, <1>5 DEF Base, Batch
<1>. QED BY <1>6 DEF Base, RecordBatch, NewBatch, Keys

\* What a commit that nobody disturbs makes of the database.
LEMMA CommitEffect ==
    ASSUME Inv, NEW p \in Procs, run[p].pc = "commit"
    PROVE  LET r == run[p]
               t == Applied(db, BatchOf(r))
           IN  /\ ~ Refused(db, BatchOf(r))
               /\ t \in Tables
               /\ t.files = Applied(db, Base(r)).files
               /\ t.irs = Applied(db, Base(r)).irs
               /\ t.nodes = IF Changed(r) THEN Stored(Resolve(r.irs)).nodes ELSE db.nodes
               /\ t.edges = IF Changed(r) THEN Stored(Resolve(r.irs)).edges ELSE db.edges
<1>. DEFINE r == run[p]
            res == Resolve(r.irs)
<1>1. TypeOK /\ r \in Run /\ db \in Tables /\ RunHolds(p)
  BY DEF Inv, TypeOK
<1>2. CASE Changed(r)
  <2>1. r.nodes = db.nodes /\ r.edges = db.edges /\ r.stored = db.files
    BY <1>1, <1>2 DEF RunHolds, ReadsHold, BeforeCommit
  <2>2. BatchOf(r) = QueueGraphDiff(Base(r), db.nodes, db.edges, res)
    BY <1>2, <2>1 DEF BatchOf, FullBatch, Base
  <2>3. res \in Resolved /\ Closed(res)
    BY <1>1, ResolveAssumption DEF Run
  <2>4. PICK owner \in [Ids -> Files \cup {NoFile}] :
          \A view \in View, id \in Ids : ResolveNodes(view)[id] # Absent =>
              /\ ResolveNodes(view)[id].file = owner[id]
              /\ owner[id] \in Files => view[owner[id]] # Absent
    BY OwnerAssumption
  <2>5. PICK v \in irVersion .. program : v # 0 /\ GraphOf(v)
    BY DEF Inv, InStep
  <2>6. v \in 1 .. MaxVersion
    BY <1>1, <2>5, VersionAssumption DEF TypeOK
  <2>7. RecordedView(v) \in View
    <3>. SUFFICES ASSUME NEW f \in Files, HashOf(f) # Absent
                  PROVE  [content |-> HashOf(f), version |-> v] \in IR
      BY DEF RecordedView, View, Maybe
    <3>1. db.files[f] \in FileRecord
      BY <1>1, RowsAssumption DEF HashOf, Tables, Maybe
    <3>. QED BY <3>1, <2>6 DEF HashOf, FileRecord, IR
  <2>8. db.nodes = ResolveNodes(RecordedView(v))
    BY <2>5 DEF GraphOf, Stored, Resolve
  <2>9. ASSUME NEW id \in Keys(db.nodes), db.nodes[id].file \in Base(r).removed
        PROVE  res.nodes[id] = Absent
    <3>. SUFFICES ASSUME ResolveNodes(r.irs)[id] # Absent PROVE FALSE
      BY DEF Resolve
    <3>1. id \in Ids /\ db.nodes[id] # Absent
      BY <1>1, <2>9 DEF Keys, Tables
    <3>2. db.nodes[id].file = owner[id]
      BY <2>4, <2>7, <2>8, <3>1
    <3>3. owner[id] \in Deleted(r)
      BY <2>9, <3>2, <1>1, <1>2, BaseType
    <3>4. owner[id] \in Files /\ r.files[owner[id]] = Absent
      BY <3>3, <1>1 DEF Deleted, Seen, Keys, Run
    <3>5. r.irs[owner[id]] = Absent
      BY <3>4, <1>1, <1>2 DEF RunHolds, ParsesHold, ParseOf
    <3>6. r.irs \in View
      BY <1>1 DEF Run
    <3>. QED BY <2>4, <3>1, <3>4, <3>5, <3>6
  <2>10. Base(r) \in Batch /\ Base(r).deletedNodes = {} /\ Base(r).deletedEdges = {}
         /\ Keys(Base(r).touched) = {}
    BY <1>1, BaseType
  <2>11. BatchOf(r) \in Batch
    <3>1. Changes(db.nodes, res.nodes) \in [Ids -> Maybe(Node)]
      BY <2>3 DEF Changes, Resolved, Maybe
    <3>2. Stored(res).edges \in [EdgeKeys -> Maybe(Labels)]
      <4>1. \A k \in EdgeKeys : res.edges[k] # Absent => Normalize(res.edges[k]) \in Labels
        BY <2>3, NormalizeType DEF Resolved, Maybe
      <4>. QED BY <4>1 DEF Stored, Maybe
    <3>3. Changes(db.edges, Stored(res).edges) \in [EdgeKeys -> Maybe(Counts \cup Labels)]
      BY <3>2 DEF Changes, Maybe
    <3>4. Keys(db.nodes) \in SUBSET Ids /\ Keys(db.edges) \in SUBSET EdgeKeys
      BY <1>1 DEF Keys, Tables
    <3>. HIDE DEF res
    <3>5. /\ Base(r).deletedNodes \cup (Keys(db.nodes) \ Keys(res.nodes)) \in SUBSET Ids
          /\ Base(r).deletedEdges \cup (Keys(db.edges) \ Keys(res.edges)) \in SUBSET EdgeKeys
      BY <2>10, <3>4
    <3>. QED BY <2>2, <2>10, <3>1, <3>3, <3>5 DEF QueueGraphDiff, Batch
  <2>12. Applied(db, BatchOf(r)) \in Tables
    BY <1>1, <2>11, AppliedType
  <2>. HIDE DEF res
  <2>13. LET c == QueueGraphDiff(Base(r), db.nodes, db.edges, res)
         IN  /\ ~ Refused(db, c)
             /\ Applied(db, c).nodes = Stored(res).nodes
             /\ Applied(db, c).edges = Stored(res).edges
             /\ Applied(db, c).files = Applied(db, Base(r)).files
             /\ Applied(db, c).irs = Applied(db, Base(r)).irs
    BY <1>1, <2>3, <2>9, <2>10, DiffIsExact
  <2>. QED BY <1>2, <2>2, <2>12, <2>13 DEF res
<1>3. CASE ~ Changed(r)
  <2>1. BatchOf(r) = Base(r)
    BY <1>3 DEF BatchOf, Base
  <2>2. Keys(Base(r).edges) = {} /\ Base(r).removed = {}
    <3>1. Base(r).edges = [k \in EdgeKeys |-> Absent] /\ Base(r).removed = {}
      BY <1>1, <1>3, BaseType
    <3>. QED BY <3>1 DEF Keys
  <2>3. GoneNodes(db, Base(r)) = {}
    BY <1>1, <2>2, BaseType DEF GoneNodes, OwnedBy
  <2>4. Applied(db, Base(r)).nodes = db.nodes
    <3>1. Base(r).nodes = [id \in Ids |-> Absent]
      BY <1>1, BaseType
    <3>. QED BY <1>1, <2>3, <3>1 DEF Applied, Upsert, Without, Tables
  <2>5. Applied(db, Base(r)).edges = db.edges
    <3>1. Touching(GoneNodes(db, Base(r))) = {}
      BY <2>3 DEF Touching
    <3>2. Base(r).deletedEdges = {} /\ Base(r).edges = [k \in EdgeKeys |-> Absent]
      BY <1>1, BaseType
    <3>. QED BY <1>1, <3>1, <3>2 DEF Applied, Upsert, Without, Tables
  <2>6. ~ Refused(db, Base(r))
    BY <2>2 DEF Refused
  <2>7. Applied(db, Base(r)) \in Tables
    BY <1>1, BaseType, AppliedType
  <2>. QED BY <1>3, <2>1, <2>4, <2>5, <2>6, <2>7
<1>. QED BY <1>2, <1>3

\* The file records after a commit: exactly the files seen, under their hashes.
LEMMA RecordsEffect ==
    ASSUME Inv, NEW p \in Procs, run[p].pc = "commit", NEW f \in Files
    PROVE  LET r == run[p]
               rec == Applied(db, Base(r)).files[f]
           IN  /\ r.files[f] = Absent => rec = Absent
               /\ r.files[f] # Absent =>
                     /\ rec # Absent /\ rec.hash = r.files[f].hash
                     /\ rec = db.files[f] \/ rec.mtime = r.files[f].mtime
<1>. DEFINE r == run[p]
            b == Base(r)
            fresh == Dirty(r) \cup Restat(r)
            new == [hash |-> r.files[f].hash, size |-> r.files[f].size,
                    mtime |-> r.files[f].mtime, second |-> r.second]
<1>1. TypeOK /\ r \in Run /\ db \in Tables /\ RunHolds(p) /\ r.stored = db.files
  BY DEF Inv, TypeOK, RunHolds, ReadsHold, BeforeCommit
<1>2. /\ b.removed = IF Changed(r) THEN Deleted(r) ELSE {}
      /\ b.touched = [g \in Files |-> Absent]
      /\ b.recorded = RecordsOf(r, fresh)
  BY <1>1, BaseType
<1>. HIDE DEF b
<1>3. Applied(db, b).files[f] = IF b.recorded[f] # Absent THEN b.recorded[f]
                                ELSE IF f \in b.removed THEN Absent ELSE db.files[f]
  BY <1>1, <1>2 DEF Applied, Upsert, Without, Tables
<1>4. b.recorded[f] = IF f \in fresh THEN new ELSE Absent
  BY <1>2 DEF RecordsOf
<1>5. CASE r.files[f] = Absent
  <2>1. f \notin fresh
    BY <1>5 DEF Dirty, Restat, Seen, Keys
  <2>2. db.files[f] # Absent => f \in Deleted(r)
    BY <1>1, <1>5 DEF Deleted, Seen, Keys, Tables
  <2>3. Deleted(r) # {} => Changed(r)
    BY DEF Changed
  <2>. QED BY <1>2, <1>3, <1>4, <1>5, <2>1, <2>2, <2>3 DEF b
<1>6. CASE r.files[f] # Absent
  <2>1. f \in Seen(r) /\ f \notin b.removed
    BY <1>1, <1>2, <1>6 DEF Seen, Keys, Deleted, Run
  <2>2. CASE r.files[f].read
    <3>1. f \in fresh
      BY <2>1, <2>2 DEF Restat
    <3>2. new \in FileRecord
      <4>1. r.files[f] \in FileData
        BY <1>1, <1>6 DEF Run, Maybe
      <4>. QED BY <1>1, <4>1 DEF FileData, FileRecord, Run
    <3>3. new # Absent
      BY <3>2, RowsAssumption, AbsentAssumption
    <3>. QED BY <1>3, <1>4, <1>6, <3>1, <3>3 DEF b
  <2>3. CASE ~ r.files[f].read
    <3>1. f \notin fresh
      BY <2>3 DEF Dirty, Restat
    <3>2. r.stored[f] # Absent /\ r.stored[f].hash = r.files[f].hash
      BY <1>1, <1>6, <2>3 DEF RunHolds, ScanHolds, Busy
    <3>. QED BY <1>1, <1>3, <1>4, <1>6, <2>1, <3>1, <3>2 DEF b
  <2>. QED BY <2>2, <2>3
<1>. QED BY <1>5, <1>6

\* A commit leaves graph, parses and records in step, and is never refused.
LEMMA CommitHolds ==
    ASSUME Calm, Inv, NEW p \in Procs, Commit(p)
    PROVE  Inv'
<1>. DEFINE r == run[p]
            s == run'[p]
            pc == IF Changed(r) /\ r.stale THEN "meta" ELSE "done"
<1>1. TypeOK /\ r \in Run /\ r.pc = "commit" /\ RunHolds(p) /\ Busy(p)
  BY DEF Inv, TypeOK, Commit, Busy
<1>2. /\ ~ Refused(db, BatchOf(r))
      /\ Applied(db, BatchOf(r)) \in Tables
      /\ Applied(db, BatchOf(r)).files = Applied(db, Base(r)).files
      /\ Applied(db, BatchOf(r)).irs = Applied(db, Base(r)).irs
      /\ Applied(db, BatchOf(r)).nodes
            = IF Changed(r) THEN Stored(Resolve(r.irs)).nodes ELSE db.nodes
      /\ Applied(db, BatchOf(r)).edges
            = IF Changed(r) THEN Stored(Resolve(r.irs)).edges ELSE db.edges
  BY <1>1, CommitEffect
<1>3. /\ UNCHANGED <<content, mtime, clock, program, irVersion, during>>
      /\ db' = Applied(db, BatchOf(r))
      /\ run' = [run EXCEPT ![p] = s]
      /\ s = [[r EXCEPT !.error = FALSE] EXCEPT !.pc = pc]
  <2>1. run' = [run EXCEPT ![p] = [[r EXCEPT !.error = FALSE] EXCEPT !.pc = pc]]
    <3>1. Refused(db, BatchOf(r)) = FALSE
      BY <1>2 DEF Refused
    <3>. QED BY <3>1 DEF Commit, Goto
  <2>. QED BY <1>1, <1>2, <2>1 DEF Commit, Fixed, TypeOK
<1>4. s \in Run /\ s.pc = pc /\ s.pc \in {"meta", "done"} /\ s.error = FALSE
      /\ s.files = r.files /\ s.stored = r.stored /\ s.version = r.version
      /\ s.statted = r.statted
  <2>1. pc \in {"meta", "done"}
    OBVIOUS
  <2>. HIDE DEF pc
  <2>. QED BY <1>1, <1>3, <2>1 DEF Run, Pcs
<1>5. db' \in Tables /\ db'.files = Applied(db, Base(r)).files
      /\ db'.irs = Applied(db, Base(r)).irs
  BY <1>2, <1>3
<1>6. \A f \in Files :
        /\ r.files[f] = Absent => db'.files[f] = Absent
        /\ r.files[f] # Absent =>
              /\ db'.files[f] # Absent /\ db'.files[f].hash = r.files[f].hash
              /\ db'.files[f] = db.files[f] \/ db'.files[f].mtime = r.files[f].mtime
  BY <1>1, <1>5, RecordsEffect
<1>7. \A f \in Files : HashOf(f)' = IF r.files[f] = Absent THEN Absent ELSE r.files[f].hash
  BY <1>6 DEF HashOf
<1>8. r.version = program /\ program \in 1 .. MaxVersion /\ irVersion \in 0 .. MaxVersion
  BY <1>1 DEF RunHolds, ScanHolds, TypeOK
<1>9. GraphOf(r.version)' /\ CacheOf(r.version)'
  <2>1. CASE Changed(r)
    <3>1. RecordedView(r.version)' = r.irs
      <4>1. r.irs \in [Files -> Maybe(IR)]
        BY <1>1 DEF Run, View
      <4>2. \A f \in Files : r.irs[f] = ParseOf(r, f)
        BY <1>1, <2>1 DEF RunHolds, ParsesHold
      <4>3. ASSUME NEW f \in Files
            PROVE  r.irs[f] = IF HashOf(f)' = Absent THEN Absent
                              ELSE [content |-> HashOf(f)', version |-> r.version]
        <5>1. CASE r.files[f] = Absent
          BY <5>1, <4>2, <1>7 DEF ParseOf
        <5>2. CASE r.files[f] # Absent
          <6>1. r.files[f].hash # Absent
            BY <5>2, <1>1, MarkAssumption DEF Run, Maybe, FileData
          <6>. QED BY <5>2, <6>1, <4>2, <1>7 DEF ParseOf
        <5>. QED BY <5>1, <5>2
      <4>4. RecordedView(r.version)'
              = [f \in Files |-> IF HashOf(f)' = Absent THEN Absent
                                 ELSE [content |-> HashOf(f)', version |-> r.version]]
        BY <1>3, <1>4, <1>8 DEF RecordedView
      <4>. QED BY <4>1, <4>3, <4>4
    <3>2. GraphOf(r.version)'
      <4>1. db'.nodes = Stored(Resolve(r.irs)).nodes /\ db'.edges = Stored(Resolve(r.irs)).edges
        BY <1>2, <1>3, <2>1
      <4>. QED BY <4>1, <3>1 DEF GraphOf, Stored
    <3>3. CacheOf(r.version)'
      <4>. SUFFICES ASSUME NEW f \in Files
                    PROVE  db'.irs[f] = IF HashOf(f)' = Absent THEN Absent
                                        ELSE [hash |-> HashOf(f)', data |-> r.irs[f]]
        BY <3>1 DEF CacheOf
      <4>1. /\ Base(r).removed = Deleted(r) /\ Base(r).irs = FreshIRs(r)
            /\ r.stored = db.files
            /\ r.cached = IF r.stale THEN NoFiles ELSE db.irs
            /\ r.stale = (irVersion # r.version)
            /\ r.irs[f] = ParseOf(r, f)
        BY <1>1, <2>1, BaseType DEF RunHolds, ReadsHold, ParsesHold, BeforeCommit
      <4>2. db'.irs[f] = IF FreshIRs(r)[f] # Absent THEN FreshIRs(r)[f]
                         ELSE IF f \in Deleted(r) THEN Absent ELSE db.irs[f]
        BY <1>1, <1>5, <4>1 DEF Applied, Upsert, Without, TypeOK, Tables
      <4>3. PICK v \in irVersion .. program : CacheOf(v)
        BY DEF Inv, InStep
      <4>4. CASE r.files[f] = Absent
        <5>1. FreshIRs(r)[f] = Absent
          BY <4>1, <4>4 DEF FreshIRs, ParseOf
        <5>2. f \notin Deleted(r) => db.irs[f] = Absent
          <6>1. f \notin Deleted(r) => db.files[f] = Absent
            BY <4>1, <4>4, <1>1 DEF Deleted, Seen, Keys, Run
          <6>. QED BY <6>1, <4>3 DEF CacheOf, HashOf
        <5>. QED BY <4>2, <4>4, <5>1, <5>2, <1>7
      <4>5. CASE r.files[f] # Absent /\ ~ Cached(r, f)
        <5>1. r.files[f] \in FileData /\ r.files[f].hash # Absent
          BY <4>5, <1>1, MarkAssumption DEF Run, Maybe, FileData
        <5>2. r.irs[f] = [content |-> r.files[f].hash, version |-> r.version]
          BY <4>1, <4>5 DEF ParseOf
        <5>3. r.irs[f] \in IR /\ r.irs[f] # Absent
          BY <5>1, <5>2, <1>8, MarkAssumption DEF IR, FileData
        <5>4. FreshIRs(r)[f] = [hash |-> r.files[f].hash, data |-> r.irs[f]]
          BY <4>5, <5>2, <5>3 DEF FreshIRs
        <5>5. FreshIRs(r)[f] \in FileIR
          BY <5>1, <5>3, <5>4 DEF FileIR, FileData
        <5>6. FreshIRs(r)[f] # Absent
          BY <5>5, RowsAssumption, AbsentAssumption
        <5>. QED BY <4>2, <4>5, <5>1, <5>4, <5>6, <1>7
      <4>6. CASE r.files[f] # Absent /\ Cached(r, f)
        <5>1. FreshIRs(r)[f] = Absent /\ f \notin Deleted(r)
          BY <4>6, <1>1 DEF FreshIRs, Deleted, Seen, Keys, Run
        <5>2. ~ r.stale /\ db.irs[f] # Absent /\ db.irs[f].hash = r.files[f].hash
          BY <4>1, <4>6 DEF Cached, NoFiles
        <5>3. CacheOf(r.version)
          BY <5>2, <4>1, <1>1, CurrentVersion
        <5>4. HashOf(f) # Absent
              /\ db.irs[f] = [hash |-> HashOf(f),
                              data |-> [content |-> HashOf(f), version |-> r.version]]
          BY <5>2, <5>3 DEF CacheOf, RecordedView
        <5>5. r.irs[f] = [content |-> r.files[f].hash, version |-> r.version]
          BY <4>1, <4>6 DEF ParseOf
        <5>. QED BY <4>2, <4>6, <5>1, <5>2, <5>4, <5>5, <1>7
      <4>. QED BY <4>4, <4>5, <4>6
    <3>. QED BY <3>2, <3>3
  <2>2. CASE ~ Changed(r)
    <3>1. ~ r.stale /\ Dirty(r) = {} /\ Deleted(r) = {} /\ r.stored = db.files
          /\ r.stale = (irVersion # r.version)
      BY <1>1, <2>2 DEF RunHolds, ReadsHold, Changed, BeforeCommit
    <3>2. GraphOf(r.version) /\ CacheOf(r.version)
      BY <3>1, <1>1, CurrentVersion
    <3>3. ASSUME NEW f \in Files PROVE HashOf(f)' = HashOf(f)
      <4>1. CASE r.files[f] = Absent
        <5>1. db.files[f] = Absent
          BY <4>1, <3>1, <1>1 DEF Deleted, Seen, Keys, Run
        <5>. QED BY <4>1, <5>1, <1>7 DEF HashOf
      <4>2. CASE r.files[f] # Absent
        <5>1. db.files[f] # Absent /\ db.files[f].hash = r.files[f].hash
          <6>1. CASE r.files[f].read
            BY <6>1, <4>2, <3>1, <1>1 DEF Dirty, Seen, Keys, Run
          <6>2. CASE ~ r.files[f].read
            BY <6>2, <4>2, <3>1, <1>1 DEF RunHolds, ScanHolds, Busy
          <6>. QED BY <6>1, <6>2
        <5>. QED BY <4>2, <5>1, <1>7 DEF HashOf
      <4>. QED BY <4>1, <4>2
    <3>4. RecordedView(r.version)' = RecordedView(r.version)
      BY <3>3, <1>3, <1>4, <1>8 DEF RecordedView
    <3>5. db'.nodes = db.nodes /\ db'.edges = db.edges
      BY <1>2, <1>3, <2>2
    <3>6. db'.irs = db.irs
      <4>1. Base(r).removed = {} /\ Base(r).irs = [f \in Files |-> Absent]
        BY <1>1, <2>2, BaseType
      <4>. QED BY <1>1, <1>5, <4>1 DEF Applied, Upsert, Without, TypeOK, Tables
    <3>. QED BY <3>2, <3>3, <3>4, <3>5, <3>6 DEF GraphOf, CacheOf
  <2>. QED BY <2>1, <2>2
<1>10. TypeOK'
  BY <1>1, <1>3, <1>4, <1>5 DEF TypeOK
<1>11. RecordsHold'
  <2>. SUFFICES ASSUME NEW f \in Files
                PROVE  /\ mtime[f] <= clock
                       /\ db'.files[f] # Absent =>
                             /\ db'.files[f].mtime <= mtime[f]
                             /\ content[f] # Absent /\ db'.files[f].mtime = mtime[f]
                                   => content[f] = db'.files[f].hash
    BY <1>3 DEF RecordsHold
  <2>1. CASE r.files[f] = Absent
    BY <2>1, <1>6 DEF Inv, RecordsHold
  <2>2. CASE r.files[f] # Absent
    <3>1. /\ r.files[f].mtime <= mtime[f]
          /\ content[f] # Absent /\ r.files[f].mtime = mtime[f] => content[f] = r.files[f].hash
      BY <2>2, <1>1 DEF RunHolds, ScanHolds
    <3>. QED BY <2>2, <3>1, <1>6 DEF Inv, RecordsHold
  <2>. QED BY <2>1, <2>2
<1>12. InStep'
  <2>1. program \in irVersion .. program
    <3>1. PICK v \in irVersion .. program : TRUE
      BY DEF Inv, InStep
    <3>. QED BY <1>8, <3>1, VersionAssumption
  <2>2. program # 0
    BY <1>8, VersionAssumption
  <2>3. GraphOf(program)' /\ CacheOf(program)'
    <3>1. s.version = program'
      BY <1>3, <1>4, <1>8
    <3>. QED BY <1>9, <3>1 DEF GraphOf, CacheOf, RecordedView
  <2>. QED BY <1>3, <2>1, <2>2, <2>3 DEF InStep
<1>13. \A q \in Procs \ {p} : run'[q].pc = "idle"
  BY <1>1, <1>3, OthersIdle DEF TypeOK
<1>14. Alone'
  BY <1>13 DEF Alone
<1>15. RunHolds(p)'
  <2>1. ScanHolds(p)'
    BY <1>1, <1>3, <1>4, ScanKept DEF RunHolds
  <2>2. ReadsHold(p)' /\ ParsesHold(p)'
    BY <1>4 DEF ReadsHold, ParsesHold, BeforeCommit
  <2>3. \A f \in Files : HashOf(f)' \in during'[p][f]
    BY <1>1, <1>3, <1>7 DEF RunHolds, ScanHolds
  <2>4. AnswersHold(p)'
    BY <1>4, <1>9, <2>3 DEF AnswersHold, Answered
  <2>. QED BY <2>1, <2>2, <2>4 DEF RunHolds
<1>16. \A q \in Procs : RunHolds(q)'
  BY <1>13, <1>15, IdleHoldsNext
<1>. QED BY <1>10, <1>11, <1>12, <1>14, <1>16 DEF Inv

-----------------------------------------------------------------------------
(* The rest of a run, and the environment.                                 *)

\* Setting the version after the commit names the version of the stored graph.
LEMMA SetVersionHolds ==
    ASSUME Calm, Inv, NEW p \in Procs, SetVersion(p)
    PROVE  Inv'
<1>. DEFINE r == run[p]
            s == run'[p]
<1>1. TypeOK /\ r \in Run /\ r.pc = "meta" /\ RunHolds(p) /\ Busy(p)
  BY DEF Inv, TypeOK, SetVersion, Busy
<1>2. /\ UNCHANGED <<content, mtime, clock, program, db, during>>
      /\ irVersion' = r.version
      /\ run' = [run EXCEPT ![p] = s]
      /\ s = [r EXCEPT !.pc = "done"]
  BY <1>1 DEF SetVersion, Fixed, Goto, TypeOK
<1>3. s \in Run /\ s.pc = "done" /\ s.files = r.files /\ s.stored = r.stored
      /\ s.version = r.version /\ s.statted = r.statted
  BY <1>1, <1>2 DEF Run, Pcs
<1>4. r.version = program /\ program \in 1 .. MaxVersion
  BY <1>1 DEF RunHolds, ScanHolds, TypeOK
<1>5. Answered(p) /\ CacheOf(r.version)
  BY <1>1 DEF RunHolds, AnswersHold
<1>6. TypeOK'
  <2>1. irVersion' \in 0 .. MaxVersion
    BY <1>2, <1>4, VersionAssumption
  <2>. QED BY <1>1, <1>2, <1>3, <2>1 DEF TypeOK
<1>7. RecordsHold'
  BY <1>2 DEF Inv, RecordsHold
<1>8. InStep'
  <2>1. program \in program .. program /\ program # 0
    BY <1>4, VersionAssumption
  <2>2. GraphOf(program) /\ CacheOf(program)
    BY <1>4, <1>5 DEF Answered
  <2>. QED BY <1>2, <1>4, <2>1, <2>2, DbSame DEF InStep
<1>9. \A q \in Procs \ {p} : run'[q].pc = "idle"
  BY <1>1, <1>2, OthersIdle DEF TypeOK
<1>10. Alone'
  BY <1>9 DEF Alone
<1>11. RunHolds(p)'
  <2>1. ScanHolds(p)'
    BY <1>1, <1>2, <1>3, ScanKept DEF RunHolds
  <2>2. ReadsHold(p)' /\ ParsesHold(p)'
    BY <1>3 DEF ReadsHold, ParsesHold, BeforeCommit
  <2>3. (GraphOf(r.version))'
    BY <1>2, <1>3, <1>5 DEF Answered, GraphOf, RecordedView, HashOf
  <2>4. \A f \in Files : HashOf(f)' \in during'[p][f]
    BY <1>2, <1>5, DbSame DEF Answered
  <2>5. AnswersHold(p)'
    BY <1>3, <2>3, <2>4 DEF AnswersHold, Answered
  <2>. QED BY <2>1, <2>2, <2>5 DEF RunHolds
<1>12. \A q \in Procs : RunHolds(q)'
  BY <1>9, <1>11, IdleHoldsNext
<1>. QED BY <1>6, <1>7, <1>8, <1>10, <1>12 DEF Inv

\* A run that returns or dies, wherever it was, leaves the database as it is.
LEMMA StopHolds ==
    ASSUME Calm, Inv, NEW p \in Procs, Return(p) \/ Crash(p)
    PROVE  Inv'
<1>1. TypeOK /\ run[p].pc # "idle"
  BY DEF Inv, TypeOK, Return, Crash
<1>2. /\ UNCHANGED <<content, mtime, clock, program, db, irVersion>>
      /\ run' = [run EXCEPT ![p] = Idle]
      /\ during' = [during EXCEPT ![p] = [f \in Files |-> {}]]
  BY DEF Return, Crash, Fixed
<1>3. run'[p].pc = "idle"
  BY <1>1, <1>2 DEF TypeOK, Idle
<1>4. during' \in [Procs -> [Files -> SUBSET Maybe(Contents)]]
  BY <1>1, <1>2 DEF TypeOK
<1>5. \A q \in Procs \ {p} : run[q].pc = "idle"
  BY <1>1, OthersIdle
<1>. QED BY <1>2, <1>3, <1>4, <1>5, IdleType, IdleHoldsNext, RunStep

\* An edit touches nothing the invariant says of a run or of the database.
LEMMA ChangeHolds ==
    ASSUME Calm, Inv, NEW f \in Files, NEW c \in Maybe(Contents), Change(f, c)
    PROVE  Inv'
<1>1. TypeOK /\ clock \in Nat /\ \A g \in Files : mtime[g] \in Nat
  BY ClockAssumption DEF Inv, TypeOK, Ticks
<1>2. /\ UNCHANGED <<clock, program, db, irVersion, run>>
      /\ content' = [content EXCEPT ![f] = c]
      /\ mtime' = [mtime EXCEPT ![f] = clock]
      /\ during' = [p \in Procs |-> [during[p] EXCEPT ![f] = @ \cup {c}]]
      /\ mtime[f] < clock
      /\ \A p \in Procs : ~ Reparsing(p, f)
  BY DEF Change, Calm
<1>3. /\ content'[f] = c /\ mtime'[f] = clock
      /\ \A g \in Files \ {f} : content'[g] = content[g] /\ mtime'[g] = mtime[g]
      /\ \A p \in Procs : /\ c \in during'[p][f]
                          /\ \A g \in Files : during[p][g] \subseteq during'[p][g]
  BY <1>1, <1>2 DEF TypeOK
<1>4. TypeOK'
  BY <1>1, <1>2 DEF TypeOK
<1>5. RecordsHold'
  <2>. SUFFICES ASSUME NEW g \in Files
                PROVE  /\ mtime'[g] <= clock
                       /\ db.files[g] # Absent =>
                             /\ db.files[g].mtime <= mtime'[g]
                             /\ content'[g] # Absent /\ db.files[g].mtime = mtime'[g]
                                   => content'[g] = db.files[g].hash
    BY <1>2 DEF RecordsHold
  <2>1. CASE g = f
    <3>1. db.files[f] # Absent => db.files[f].mtime \in Nat /\ db.files[f].mtime <= mtime[f]
      BY <1>1, RowsAssumption, ClockAssumption
         DEF Inv, RecordsHold, TypeOK, Tables, Maybe, FileRecord, Ticks
    <3>. QED BY <2>1, <3>1, <1>1, <1>2, <1>3
  <2>2. CASE g # f
    BY <2>2, <1>3 DEF Inv, RecordsHold
  <2>. QED BY <2>1, <2>2
<1>6. Alone'
  BY <1>2 DEF Inv, Alone
<1>7. InStep'
  BY <1>2, DbSame DEF Inv, InStep
<1>8. ASSUME NEW p \in Procs PROVE RunHolds(p)'
  <2>. DEFINE r == run[p]
  <2>1. r \in Run /\ run' = run /\ RunHolds(p)
    BY <1>1, <1>2 DEF Inv, TypeOK
  <2>2. ASSUME Busy(p) PROVE ScanHolds(p)'
    <3>. SUFFICES ASSUME NEW g \in Files
         PROVE /\ content'[g] \in during'[p][g]
               /\ r.statted[g] # Absent => r.statted[g].mtime <= mtime'[g]
               /\ r.files[g] = Absent /\ (r.pc = "scan" => g \notin r.todo)
                     => Absent \in during'[p][g]
               /\ r.files[g] # Absent =>
                    /\ r.files[g].mtime <= mtime'[g]
                    /\ content'[g] # Absent /\ r.files[g].mtime = mtime'[g]
                          => content'[g] = r.files[g].hash
                    /\ r.files[g].hash \in during'[p][g]
                    /\ ~ r.files[g].read =>
                          /\ r.stored[g] # Absent /\ r.stored[g].hash = r.files[g].hash
                          /\ irVersion # r.version => content'[g] = r.files[g].hash
      BY <1>2, <2>1, <2>2 DEF RunHolds, ScanHolds
    <3>1. /\ content[g] \in during[p][g]
          /\ r.statted[g] # Absent => r.statted[g].mtime <= mtime[g]
          /\ r.files[g] = Absent /\ (r.pc = "scan" => g \notin r.todo)
                => Absent \in during[p][g]
          /\ r.files[g] # Absent =>
               /\ r.files[g].mtime <= mtime[g]
               /\ content[g] # Absent /\ r.files[g].mtime = mtime[g]
                     => content[g] = r.files[g].hash
               /\ r.files[g].hash \in during[p][g]
               /\ ~ r.files[g].read =>
                     /\ r.stored[g] # Absent /\ r.stored[g].hash = r.files[g].hash
                     /\ irVersion # r.version => content[g] = r.files[g].hash
      BY <2>1, <2>2 DEF RunHolds, ScanHolds
    <3>2. CASE g # f
      BY <3>1, <3>2, <1>3
    <3>3. CASE g = f
      <4>1. r.statted[f] # Absent => r.statted[f].mtime \in Nat
        BY <2>1, ClockAssumption DEF Run, Maybe, FileStat, Ticks
      <4>2. r.files[f] # Absent => r.files[f].mtime \in Nat
        BY <2>1, ClockAssumption DEF Run, Maybe, FileData, Ticks
      <4>3. r.files[f] # Absent /\ ~ r.files[f].read => irVersion = r.version
        BY <1>2 DEF Reparsing
      <4>. QED BY <3>1, <3>3, <4>1, <4>2, <4>3, <1>1, <1>2, <1>3
    <3>. QED BY <3>2, <3>3
  <2>3. ReadsHold(p)' /\ ParsesHold(p)'
    BY <1>2, <2>1 DEF RunHolds, ReadsHold, ParsesHold
  <2>4. AnswersHold(p)'
    BY <1>2, <1>3, <2>1, DbSame DEF RunHolds, AnswersHold, Answered
  <2>. QED BY <2>1, <2>2, <2>3, <2>4 DEF RunHolds, ScanHolds, Busy
<1>. QED BY <1>4, <1>5, <1>6, <1>7, <1>8 DEF Inv

\* Time passes and every record stays as old as it was or older.
LEMMA TickHolds ==
    ASSUME Calm, Inv, Tick
    PROVE  Inv'
<1>1. UNCHANGED <<content, mtime, program, db, irVersion, run, during>> /\ clock' = clock + 1
  BY DEF Tick
<1>2. clock \in Nat /\ clock' \in Ticks /\ \A f \in Files : mtime[f] \in Nat
  BY <1>1, ClockAssumption DEF Inv, TypeOK, Ticks, Tick
<1>3. TypeOK'
  BY <1>1, <1>2 DEF Inv, TypeOK
<1>4. RecordsHold'
  BY <1>1, <1>2 DEF Inv, RecordsHold
<1>5. Alone' /\ InStep'
  BY <1>1, DbSame DEF Inv, Alone, InStep
<1>6. ASSUME NEW p \in Procs PROVE RunHolds(p)'
  <2>1. ScanHolds(p)' /\ ReadsHold(p)' /\ ParsesHold(p)'
    BY <1>1 DEF Inv, RunHolds, ScanHolds, Busy, ReadsHold, ParsesHold
  <2>2. AnswersHold(p)'
    BY <1>1, DbSame DEF Inv, RunHolds, AnswersHold, Answered
  <2>. QED BY <2>1, <2>2 DEF RunHolds
<1>. QED BY <1>3, <1>4, <1>5, <1>6 DEF Inv

\* A new program finds a database that is in step in an older version.
LEMMA UpgradeHolds ==
    ASSUME Calm, Inv, Upgrade
    PROVE  Inv'
<1>1. /\ UNCHANGED <<content, mtime, clock, db, irVersion, run, during>>
      /\ program' = program + 1 /\ program < MaxVersion
      /\ \A p \in Procs : run[p].pc = "idle"
  BY DEF Upgrade
<1>2. TypeOK'
  BY <1>1, VersionAssumption DEF Inv, TypeOK
<1>3. RecordsHold' /\ Alone'
  BY <1>1 DEF Inv, RecordsHold, Alone
<1>4. InStep'
  <2>1. program \in Nat /\ irVersion \in Nat
    BY VersionAssumption DEF Inv, TypeOK
  <2>2. PICK v \in irVersion .. program : v # 0 /\ GraphOf(v) /\ CacheOf(v)
    BY DEF Inv, InStep
  <2>3. v \in irVersion .. program'
    BY <1>1, <2>1
  <2>. QED BY <1>1, <2>2, <2>3, DbSame DEF InStep
<1>5. \A p \in Procs : RunHolds(p)'
  BY <1>1, IdleHoldsNext
<1>. QED BY <1>2, <1>3, <1>4, <1>5 DEF Inv

\* An empty database is in step with no files.
LEMMA InitHolds == Init => Inv
<1>. SUFFICES ASSUME Init PROVE Inv
  OBVIOUS
<1>1. /\ mtime = [f \in Files |-> 0] /\ clock = 0 /\ program = 1 /\ irVersion = 0
      /\ db = EmptyTables /\ run = [p \in Procs |-> Idle]
      /\ content \in [Files -> Maybe(Contents)]
      /\ during = [p \in Procs |-> [f \in Files |-> {}]]
  BY DEF Init
<1>2. EmptyTables \in Tables
  BY DEF EmptyTables, Tables, Maybe
<1>3. TypeOK
  BY <1>1, <1>2, IdleType, ClockAssumption, VersionAssumption DEF TypeOK, Ticks
<1>4. RecordsHold
  BY <1>1 DEF RecordsHold, EmptyTables
<1>5. \A p \in Procs : run[p].pc = "idle"
  BY <1>1 DEF Idle
<1>6. Alone /\ \A p \in Procs : RunHolds(p)
  BY <1>5, IdleHolds DEF Alone
<1>7. InStep
  <2>1. RecordedView(1) = NoFiles /\ NoFiles \in View
    BY <1>1 DEF RecordedView, HashOf, EmptyTables, NoFiles, View, Maybe
  <2>. DEFINE res == Resolve(NoFiles)
  <2>2. res \in Resolved /\ Closed(res) /\ res.nodes = [id \in Ids |-> Absent]
    BY <2>1, ResolveAssumption, NothingAssumption DEF Resolve
  <2>3. \A k \in EdgeKeys : res.edges[k] = Absent
    <3>. SUFFICES ASSUME NEW k \in EdgeKeys, res.edges[k] # Absent PROVE FALSE
      OBVIOUS
    <3>1. k \in Keys(res.edges)
      BY <2>2 DEF Keys, Resolved
    <3>2. k.src \in Keys(res.nodes)
      BY <2>2, <3>1 DEF Closed
    <3>. QED BY <2>2, <3>2 DEF Keys
  <2>4. GraphOf(1)
    <3>. HIDE DEF res
    <3>1. Stored(res) = [nodes |-> [id \in Ids |-> Absent], edges |-> [k \in EdgeKeys |-> Absent]]
      BY <2>2, <2>3 DEF Stored
    <3>. QED BY <1>1, <2>1, <3>1 DEF GraphOf, EmptyTables, res
  <2>5. CacheOf(1)
    BY <1>1 DEF CacheOf, HashOf, EmptyTables
  <2>. QED BY <1>1, <2>4, <2>5 DEF InStep
<1>. QED BY <1>3, <1>4, <1>6, <1>7 DEF Inv

\* Every step keeps the invariant, by one lemma for each action.
LEMMA NextHolds == ASSUME Calm, Inv, [Next]_vars PROVE Inv'
<1>1. CASE Environment
  BY <1>1, TickHolds, UpgradeHolds, ChangeHolds DEF Environment
<1>2. ASSUME NEW p \in Procs, EnsureFresh(p) PROVE Inv'
  <2>1. ASSUME NEW f \in Files,
               StatFile(p, f) \/ PassOver(p, f) \/ ReadFile(p, f) \/ ParseFile(p, f)
               \/ LoseFile(p, f)
        PROVE  Inv'
    BY <2>1, StatFileHolds, PassOverHolds, ReadFileHolds, ParseFileHolds, NothingLost
  <2>. QED BY <1>2, <2>1, StartHolds, DecideHolds, ReadCacheHolds, ReadNodesHolds,
              ReadEdgesHolds, CommitHolds, SetVersionHolds, StopHolds DEF EnsureFresh
<1>3. ASSUME NEW p \in Procs, Crash(p) PROVE Inv'
  BY <1>3, StopHolds
<1>4. CASE UNCHANGED vars
  <2>1. UNCHANGED <<content, mtime, clock, program, db, irVersion, run, during>>
    BY <1>4 DEF vars
  <2>2. TypeOK' /\ RecordsHold' /\ Alone' /\ InStep'
    BY <2>1, DbSame DEF Inv, TypeOK, RecordsHold, Alone, InStep
  <2>3. ASSUME NEW p \in Procs PROVE RunHolds(p)'
    <3>1. ScanHolds(p)' /\ ReadsHold(p)' /\ ParsesHold(p)'
      BY <2>1 DEF Inv, RunHolds, ScanHolds, Busy, ReadsHold, ParsesHold
    <3>2. AnswersHold(p)'
      BY <2>1, DbSame DEF Inv, RunHolds, AnswersHold, Answered
    <3>. QED BY <3>1, <3>2 DEF RunHolds
  <2>. QED BY <2>2, <2>3 DEF Inv
<1>. QED BY <1>1, <1>2, <1>3, <1>4 DEF Next

-----------------------------------------------------------------------------
(* What holds of all runs: of runs that overlap, under edits that no mtime  *)
(* tells apart and rebuilds that users disturb.                             *)

\* Beside the types: only files that were seen are parsed.
Typed ==
    /\ TypeOK /\ CacheIsTrue
    /\ \A p \in Procs : run[p].pc \in {"cache", "parse"} => run[p].todo \subseteq Seen(run[p])

\* A step of one run that leaves the tables alone.
LEMMA RunTyped ==
    ASSUME Typed, NEW p \in Procs, NEW s \in Run, run' = [run EXCEPT ![p] = s],
           s.pc \in {"cache", "parse"} => s.todo \subseteq Seen(s),
           UNCHANGED <<content, mtime, clock, program, db>>, irVersion' \in 0 .. MaxVersion,
           during' \in [Procs -> [Files -> SUBSET Maybe(Contents)]]
    PROVE  Typed'
<1>1. TypeOK'
  BY DEF Typed, TypeOK
<1>2. CacheIsTrue'
  BY DEF Typed, CacheIsTrue
<1>3. ASSUME NEW q \in Procs, run'[q].pc \in {"cache", "parse"}
      PROVE  run'[q].todo \subseteq Seen(run'[q])
  <2>1. CASE q = p
    BY <1>3, <2>1 DEF Typed, TypeOK
  <2>2. CASE q # p
    <3>1. run'[q] = run[q]
      BY <2>2 DEF Typed, TypeOK
    <3>. QED BY <1>3, <3>1 DEF Typed
  <2>. QED BY <2>1, <2>2
<1>. QED BY <1>1, <1>2, <1>3 DEF Typed

\* A run begins, ends or dies.
LEMMA BeginEndTyped ==
    ASSUME Typed, NEW p \in Procs, Start(p) \/ Return(p) \/ Crash(p)
    PROVE  Typed'
<1>1. TypeOK
  BY DEF Typed
<1>2. CASE Start(p)
  <2>. DEFINE s == [[Idle EXCEPT !.version = program, !.stored = db.files, !.todo = Files]
                      EXCEPT !.pc = "scan"]
  <2>1. s \in Run
    BY <1>1, IdleType, RowsAssumption DEF TypeOK, Tables, Run, Pcs
  <2>2. s.pc = "scan"
    BY DEF Idle
  <2>. HIDE DEF s
  <2>3. run' = [run EXCEPT ![p] = s] /\ UNCHANGED <<content, mtime, clock, program, db, irVersion>>
        /\ during' = [during EXCEPT ![p] = [f \in Files |-> {content[f]}]]
    BY <1>2 DEF Start, Goto, Fixed, s
  <2>4. during' \in [Procs -> [Files -> SUBSET Maybe(Contents)]] /\ irVersion' \in 0 .. MaxVersion
    BY <1>1, <2>3 DEF TypeOK
  <2>. QED BY <2>1, <2>2, <2>3, <2>4, RunTyped
<1>3. CASE Return(p) \/ Crash(p)
  <2>1. run' = [run EXCEPT ![p] = Idle] /\ UNCHANGED <<content, mtime, clock, program, db, irVersion>>
        /\ during' = [during EXCEPT ![p] = [f \in Files |-> {}]]
    BY <1>3 DEF Return, Crash, Fixed
  <2>2. during' \in [Procs -> [Files -> SUBSET Maybe(Contents)]] /\ irVersion' \in 0 .. MaxVersion
    BY <1>1, <2>1 DEF TypeOK
  <2>3. Idle.pc = "idle"
    BY DEF Idle
  <2>. QED BY <2>1, <2>2, <2>3, IdleType, RunTyped
<1>. QED BY <1>2, <1>3

\* The scan of one file.
LEMMA ScanTyped ==
    ASSUME Typed, NEW p \in Procs, NEW f \in Files,
           StatFile(p, f) \/ ReadFile(p, f) \/ PassOver(p, f)
    PROVE  Typed'
<1>. DEFINE r == run[p]
<1>1. TypeOK /\ r \in Run
  BY DEF Typed, TypeOK
<1>2. /\ UNCHANGED <<content, mtime, clock, program, db, irVersion>> /\ irVersion' \in 0 .. MaxVersion
      /\ during' = during \/ during' = [during EXCEPT ![p][f] = @ \cup {Absent}]
  BY <1>1 DEF StatFile, ReadFile, PassOver, Fixed, TypeOK
<1>3. during' \in [Procs -> [Files -> SUBSET Maybe(Contents)]]
  <2>1. during[p][f] \cup {Absent} \in SUBSET Maybe(Contents)
    BY <1>1 DEF TypeOK, Maybe
  <2>2. [during[p] EXCEPT ![f] = during[p][f] \cup {Absent}] \in [Files -> SUBSET Maybe(Contents)]
    BY <1>1, <2>1 DEF TypeOK
  <2>. QED BY <1>1, <1>2, <2>2 DEF TypeOK
<1>4. \E s \in Run : run' = [run EXCEPT ![p] = s] /\ s.pc = "scan"
  <2>1. CASE StatFile(p, f)
    <3>1. Stat(f) \in FileStat
      BY <1>1, <2>1, MayHoldAssumption DEF Stat, FileStat, TypeOK, Sizes, Maybe, StatFile
    <3>2. CASE r.stored[f] # Absent /\ StatUnchanged(r.stored[f], Stat(f))
      <4>. DEFINE d == Data(r.stored[f].hash, Stat(f), FALSE)
                  s == [[r EXCEPT !.todo = @ \ {f}, !.files[f] = d] EXCEPT !.pc = "scan"]
      <4>1. d \in FileData
        <5>1. r.stored[f] \in FileRecord
          BY <1>1, <3>2 DEF Run, Maybe
        <5>. QED BY <3>1, <5>1 DEF Data, FileRecord, FileStat, FileData
      <4>2. run' = [run EXCEPT ![p] = s]
        BY <2>1, <3>2 DEF StatFile, Goto
      <4>. HIDE DEF d
      <4>3. [r.files EXCEPT ![f] = d] \in [Files -> Maybe(FileData)] /\ r.todo \ {f} \in SUBSET Files
        BY <1>1, <4>1 DEF Run, Maybe
      <4>4. s \in Run /\ s.pc = "scan"
        BY <1>1, <4>3 DEF Run, Pcs
      <4>. QED BY <4>2, <4>4
    <3>3. CASE ~ (r.stored[f] # Absent /\ StatUnchanged(r.stored[f], Stat(f)))
      <4>. DEFINE s == [[r EXCEPT !.statted[f] = Stat(f)] EXCEPT !.pc = "scan"]
      <4>1. run' = [run EXCEPT ![p] = s]
        BY <2>1, <3>3 DEF StatFile, Goto
      <4>2. [r.statted EXCEPT ![f] = Stat(f)] \in [Files -> Maybe(FileStat)]
        BY <1>1, <3>1 DEF Run, Maybe
      <4>3. s \in Run /\ s.pc = "scan"
        BY <1>1, <4>2 DEF Run, Pcs
      <4>. QED BY <4>1, <4>3
    <3>. QED BY <3>2, <3>3
  <2>2. CASE ReadFile(p, f)
    <3>. DEFINE d == Data(content[f], r.statted[f], TRUE)
                s == [[r EXCEPT !.todo = @ \ {f}, !.statted[f] = Absent, !.files[f] = d]
                        EXCEPT !.pc = "scan"]
    <3>1. d \in FileData
      <4>1. r.statted[f] \in FileStat /\ content[f] \in Contents
        BY <1>1, <2>2 DEF Run, Maybe, TypeOK, ReadFile
      <4>. QED BY <4>1 DEF Data, FileData, FileStat
    <3>2. run' = [run EXCEPT ![p] = s]
      BY <2>2 DEF ReadFile, Goto
    <3>. HIDE DEF d
    <3>3. /\ [r.files EXCEPT ![f] = d] \in [Files -> Maybe(FileData)] /\ r.todo \ {f} \in SUBSET Files
          /\ [r.statted EXCEPT ![f] = Absent] \in [Files -> Maybe(FileStat)]
      BY <1>1, <3>1 DEF Run, Maybe
    <3>4. s \in Run /\ s.pc = "scan"
      BY <1>1, <3>3 DEF Run, Pcs
    <3>. QED BY <3>2, <3>4
  <2>3. CASE PassOver(p, f)
    <3>. DEFINE s == [[r EXCEPT !.todo = @ \ {f}, !.statted[f] = Absent] EXCEPT !.pc = "scan"]
    <3>1. run' = [run EXCEPT ![p] = s]
      BY <2>3 DEF PassOver, Goto
    <3>2. [r.statted EXCEPT ![f] = Absent] \in [Files -> Maybe(FileStat)] /\ r.todo \ {f} \in SUBSET Files
      BY <1>1 DEF Run, Maybe
    <3>3. s \in Run /\ s.pc = "scan"
      BY <1>1, <3>2 DEF Run, Pcs
    <3>. QED BY <3>1, <3>3
  <2>. QED BY <2>1, <2>2, <2>3
<1>. QED BY <1>2, <1>3, <1>4, RunTyped

\* The decision, and the reads of the database.
LEMMA ReadTyped ==
    ASSUME Typed, NEW p \in Procs, Decide(p) \/ ReadCache(p) \/ ReadNodes(p) \/ ReadEdges(p)
    PROVE  Typed'
<1>. DEFINE r == run[p]
<1>1. TypeOK /\ r \in Run /\ db \in Tables
  BY DEF Typed, TypeOK
<1>2. UNCHANGED <<content, mtime, clock, program, db, irVersion, during>> /\ irVersion' \in 0 .. MaxVersion
      /\ during' \in [Procs -> [Files -> SUBSET Maybe(Contents)]]
  BY <1>1 DEF Decide, ReadCache, ReadNodes, ReadEdges, Fixed, TypeOK
<1>3. \E s \in Run : /\ run' = [run EXCEPT ![p] = s]
                     /\ s.pc \in {"cache", "parse"} => s.todo \subseteq Seen(s)
  <2>1. CASE Decide(p)
    <3>. DEFINE q == [r EXCEPT !.stale = (irVersion # r.version), !.second = Second(clock)]
                pc == IF Changed(q) THEN (IF q.stale THEN "parse" ELSE "cache")
                      ELSE IF Restat(q) # {} THEN "commit" ELSE "done"
                s == [[q EXCEPT !.todo = Seen(q)] EXCEPT !.pc = pc]
    <3>1. run' = [run EXCEPT ![p] = s]
      BY <2>1 DEF Decide, Goto
    <3>2. pc \in Pcs
      BY DEF Pcs
    <3>. HIDE DEF pc
    <3>3. Second(clock) \in Ticks /\ (irVersion # r.version) \in BOOLEAN
      BY <1>1, SecondType DEF TypeOK
    <3>4. q \in Run
      BY <1>1, <3>3 DEF Run
    <3>. HIDE DEF q
    <3>5. Seen(q) \in SUBSET Files
      BY <3>4 DEF Seen, Keys, Run
    <3>6. s \in Run /\ s.todo = Seen(q) /\ s.files = q.files
      BY <3>2, <3>4, <3>5 DEF Run
    <3>7. Seen(s) = Seen(q)
      BY <3>6 DEF Seen
    <3>. QED BY <3>1, <3>6, <3>7
  <2>2. CASE ReadCache(p)
    <3>. DEFINE s == [[r EXCEPT !.cached = db.irs] EXCEPT !.pc = "parse"]
    <3>1. run' = [run EXCEPT ![p] = s] /\ r.pc = "cache"
      BY <2>2 DEF ReadCache, Goto
    <3>2. db.irs \in [Files -> Maybe(FileIR)]
      BY <1>1, RowsAssumption DEF Tables
    <3>3. s \in Run /\ s.todo = r.todo /\ s.files = r.files
      BY <1>1, <3>2 DEF Run, Pcs
    <3>4. r.todo \subseteq Seen(r)
      BY <3>1 DEF Typed
    <3>. QED BY <3>1, <3>3, <3>4 DEF Seen
  <2>3. CASE ReadNodes(p)
    <3>. DEFINE s == [[r EXCEPT !.nodes = db.nodes] EXCEPT !.pc = "edges"]
    <3>1. run' = [run EXCEPT ![p] = s]
      BY <2>3 DEF ReadNodes, Goto
    <3>2. s \in Run /\ s.pc = "edges"
      BY <1>1 DEF Run, Pcs, Tables
    <3>. QED BY <3>1, <3>2
  <2>4. CASE ReadEdges(p)
    <3>. DEFINE s == [[r EXCEPT !.edges = db.edges] EXCEPT !.pc = "commit"]
    <3>1. run' = [run EXCEPT ![p] = s]
      BY <2>4 DEF ReadEdges, Goto
    <3>2. s \in Run /\ s.pc = "commit"
      BY <1>1 DEF Run, Pcs, Tables
    <3>. QED BY <3>1, <3>2
  <2>. QED BY <2>1, <2>2, <2>3, <2>4
<1>. QED BY <1>2, <1>3, RunTyped

\* The parse of one file, whatever it holds by now.
LEMMA ParseTyped ==
    ASSUME Typed, NEW p \in Procs, NEW f \in Files, ParseFile(p, f) \/ LoseFile(p, f)
    PROVE  Typed'
<1>. DEFINE r == run[p]
            source == IF r.files[f].read THEN r.files[f].hash ELSE content[f]
            ir == IF Cached(r, f) THEN r.cached[f].data
                  ELSE [content |-> source, version |-> r.version]
            s == [[r EXCEPT !.todo = @ \ {f}, !.irs[f] = ir] EXCEPT !.pc = "parse"]
            t == [[r EXCEPT !.todo = @ \ {f}] EXCEPT !.pc = "parse"]
<1>1. TypeOK /\ r \in Run /\ r.pc = "parse" /\ f \in r.todo
  BY DEF Typed, TypeOK, ParseFile, LoseFile
<1>2. UNCHANGED <<content, mtime, clock, program, db, irVersion, during>> /\ irVersion' \in 0 .. MaxVersion
      /\ during' \in [Procs -> [Files -> SUBSET Maybe(Contents)]]
  BY <1>1 DEF ParseFile, LoseFile, Fixed, TypeOK
<1>3. r.todo \ {f} \subseteq Seen(r) /\ r.todo \ {f} \in SUBSET Files /\ f \in Seen(r)
  BY <1>1 DEF Typed, Run
<1>4. CASE ParseFile(p, f)
  <2>1. run' = [run EXCEPT ![p] = s] /\ (Cached(r, f) \/ source # Absent)
    BY <1>4 DEF ParseFile, Goto
  <2>2. ir \in IR
    <3>1. CASE Cached(r, f)
      <4>1. r.cached[f] \in FileIR
        BY <1>1, <3>1 DEF Run, Maybe, Cached
      <4>. QED BY <3>1, <4>1 DEF FileIR
    <3>2. CASE ~ Cached(r, f)
      <4>1. r.files[f] \in FileData /\ r.version \in 1 .. MaxVersion
        BY <1>1, <1>3 DEF Run, Maybe, Seen, Keys
      <4>2. source \in Contents
        BY <1>1, <2>1, <3>2, <4>1 DEF TypeOK, Maybe, FileData
      <4>. QED BY <3>2, <4>1, <4>2 DEF IR
    <3>. QED BY <3>1, <3>2
  <2>. HIDE DEF ir
  <2>3. [r.irs EXCEPT ![f] = ir] \in View
    BY <1>1, <2>2 DEF Run, View, Maybe
  <2>4. s \in Run /\ s.todo = r.todo \ {f} /\ s.files = r.files
    BY <1>1, <1>3, <2>3 DEF Run, Pcs
  <2>5. s.todo \subseteq Seen(s)
    BY <1>3, <2>4 DEF Seen
  <2>. QED BY <1>2, <2>1, <2>4, <2>5, RunTyped
<1>5. CASE LoseFile(p, f)
  <2>1. run' = [run EXCEPT ![p] = t]
    BY <1>5 DEF LoseFile, Goto
  <2>2. t \in Run /\ t.todo = r.todo \ {f} /\ t.files = r.files
    BY <1>1, <1>3 DEF Run, Pcs
  <2>3. t.todo \subseteq Seen(t)
    BY <1>3, <2>2 DEF Seen
  <2>. QED BY <1>2, <2>1, <2>2, <2>3, RunTyped
<1>. QED BY <1>4, <1>5

\* Whatever a run has read and found, its batch is a batch.
LEMMA BatchType == ASSUME NEW r \in Run PROVE BatchOf(r) \in Batch /\ BatchOf(r).irs = Base(r).irs
                                              /\ BatchOf(r).removed = Base(r).removed
<1>1. CASE Changed(r)
  <2>. DEFINE res == Resolve(r.irs)
              nodes == Changes(r.nodes, res.nodes)
              edges == Changes(r.edges, Stored(res).edges)
              goneNodes == Base(r).deletedNodes \cup (Keys(r.nodes) \ Keys(res.nodes))
              goneEdges == Base(r).deletedEdges \cup (Keys(r.edges) \ Keys(res.edges))
  <2>1. Base(r) \in Batch /\ Base(r).deletedNodes = {} /\ Base(r).deletedEdges = {}
    BY BaseType
  <2>2. res \in Resolved
    BY ResolveAssumption DEF Run
  <2>3. Stored(res).edges \in [EdgeKeys -> Maybe(Labels)]
    <3>1. \A k \in EdgeKeys : res.edges[k] # Absent => Normalize(res.edges[k]) \in Labels
      BY <2>2, NormalizeType DEF Resolved, Maybe
    <3>. QED BY <3>1 DEF Stored, Maybe
  <2>4. nodes \in [Ids -> Maybe(Node)]
    BY <2>2 DEF Changes, Resolved, Maybe
  <2>5. edges \in [EdgeKeys -> Maybe(Counts \cup Labels)]
    BY <2>3 DEF Changes, Maybe
  <2>6. goneNodes \in SUBSET Ids /\ goneEdges \in SUBSET EdgeKeys
    BY <2>1 DEF Keys, Run
  <2>7. BatchOf(r) = [Base(r) EXCEPT !.deletedNodes = goneNodes, !.deletedEdges = goneEdges,
                                     !.nodes = nodes, !.edges = edges]
    BY <1>1 DEF BatchOf, FullBatch, Base, QueueGraphDiff
  <2>. HIDE DEF nodes, edges, goneNodes, goneEdges
  <2>. QED BY <2>1, <2>4, <2>5, <2>6, <2>7 DEF Batch
<1>2. CASE ~ Changed(r)
  BY <1>2, BaseType DEF BatchOf, Base
<1>. QED BY <1>1, <1>2

\* A commit, of whatever was read before others changed the files or the tables,
\* files no parse under the hash of another content.
LEMMA CommitTyped ==
    ASSUME Typed, NEW p \in Procs, Commit(p)
    PROVE  Typed'
<1>. DEFINE r == run[p]
            b == BatchOf(r)
            refused == Refused(db, b)
            pc == IF ~refused /\ Changed(r) /\ r.stale THEN "meta" ELSE "done"
            s == [[r EXCEPT !.error = refused] EXCEPT !.pc = pc]
<1>1. TypeOK /\ r \in Run /\ db \in Tables
  BY DEF Typed, TypeOK
<1>2. /\ UNCHANGED <<content, mtime, clock, program, irVersion, during>>
      /\ db' = IF refused THEN db ELSE Applied(db, b)
      /\ run' = [run EXCEPT ![p] = s]
  BY DEF Commit, Goto, Fixed
<1>3. refused \in BOOLEAN
  BY DEF Refused
<1>4. pc \in {"meta", "done"}
  OBVIOUS
<1>5. b \in Batch /\ b.irs = Base(r).irs
  BY <1>1, BatchType
<1>. HIDE DEF b, pc, refused
<1>6. s \in Run /\ s.pc = pc
  BY <1>1, <1>3, <1>4 DEF Run, Pcs
<1>7. db' \in Tables
  BY <1>1, <1>2, <1>5, AppliedType
<1>8. TypeOK'
  BY <1>1, <1>2, <1>6, <1>7 DEF TypeOK
<1>9. CacheIsTrue'
  <2>. SUFFICES ASSUME NEW f \in Files, db'.irs[f] # Absent
                PROVE  db'.irs[f].data.content = db'.irs[f].hash
    BY DEF CacheIsTrue
  <2>1. db'.irs[f] = db.irs[f] \/ db'.irs[f] = b.irs[f]
    BY <1>1, <1>2, <1>5 DEF Applied, Upsert, Without, Tables
  <2>2. CASE db'.irs[f] = db.irs[f]
    BY <2>2 DEF Typed, CacheIsTrue
  <2>3. CASE db'.irs[f] = b.irs[f]
    <3>1. Base(r).irs = IF Changed(r) THEN FreshIRs(r) ELSE [g \in Files |-> Absent]
      BY <1>1, BaseType
    <3>2. b.irs[f] = FreshIRs(r)[f]
      BY <1>5, <2>3, <3>1
    <3>. QED BY <2>3, <3>2 DEF FreshIRs
  <2>. QED BY <2>1, <2>2, <2>3
<1>10. \A q \in Procs : run'[q].pc \in {"cache", "parse"} => run'[q].todo \subseteq Seen(run'[q])
  <2>1. \A q \in Procs \ {p} : run'[q] = run[q]
    BY <1>1, <1>2 DEF TypeOK
  <2>2. run'[p] = s
    BY <1>1, <1>2 DEF TypeOK
  <2>. QED BY <1>4, <1>6, <2>1, <2>2 DEF Typed
<1>. QED BY <1>8, <1>9, <1>10 DEF Typed

\* The version is set after a commit, whichever program did it.
LEMMA SetVersionTyped ==
    ASSUME Typed, NEW p \in Procs, SetVersion(p)
    PROVE  Typed'
<1>. DEFINE r == run[p]
            s == [r EXCEPT !.pc = "done"]
<1>1. TypeOK /\ r \in Run
  BY DEF Typed, TypeOK
<1>2. /\ UNCHANGED <<content, mtime, clock, program, db, during>> /\ irVersion' = r.version
      /\ run' = [run EXCEPT ![p] = s]
  BY DEF SetVersion, Goto, Fixed
<1>3. irVersion' \in 0 .. MaxVersion
  BY <1>1, <1>2, VersionAssumption DEF Run
<1>4. s \in Run /\ s.pc = "done"
  BY <1>1 DEF Run, Pcs
<1>5. during' \in [Procs -> [Files -> SUBSET Maybe(Contents)]]
  BY <1>1, <1>2 DEF TypeOK
<1>. QED BY <1>2, <1>3, <1>4, <1>5, RunTyped

\* Time, users and upgrades.
LEMMA EnvironmentTyped ==
    ASSUME Typed, Environment
    PROVE  Typed'
<1>1. UNCHANGED <<db, irVersion, run>>
  BY DEF Environment, Tick, Upgrade, Change
<1>2. TypeOK
  BY DEF Typed
<1>3. TypeOK'
  <2>1. CASE Tick
    BY <1>2, <2>1, ClockAssumption DEF TypeOK, Tick, Ticks
  <2>2. CASE Upgrade
    BY <1>2, <2>2, VersionAssumption DEF TypeOK, Upgrade
  <2>3. ASSUME NEW f \in Files, NEW c \in Maybe(Contents), Change(f, c) PROVE TypeOK'
    BY <1>2, <2>3 DEF TypeOK, Change
  <2>. QED BY <2>1, <2>2, <2>3 DEF Environment
<1>. QED BY <1>1, <1>3 DEF Typed, CacheIsTrue

\* Every step, of any number of runs at once.
LEMMA NextTyped == ASSUME Typed, [Next]_vars PROVE Typed'
<1>1. CASE Environment
  BY <1>1, EnvironmentTyped
<1>2. ASSUME NEW p \in Procs, EnsureFresh(p) \/ Crash(p) PROVE Typed'
  BY <1>2, BeginEndTyped, ScanTyped, ReadTyped, ParseTyped, CommitTyped, SetVersionTyped
     DEF EnsureFresh
<1>3. CASE UNCHANGED vars
  BY <1>3 DEF vars, Typed, TypeOK, CacheIsTrue
<1>. QED BY <1>1, <1>2, <1>3 DEF Next

-----------------------------------------------------------------------------
(* The theorems.  Calm is an assumption about the environment, each part of *)
(* which some run shows to be needed.                                       *)

\* The invariant holds in every reachable state.
THEOREM InvHolds == Calm => (Spec => []Inv)
<1>. SUFFICES ASSUME Calm PROVE Spec => []Inv
  OBVIOUS
<1>1. Init => Inv
  BY InitHolds
<1>2. Inv /\ [Next]_vars => Inv'
  BY NextHolds
<1>. QED BY <1>1, <1>2, PTL DEF Spec

\* The stored graph and the cached parses are always those of exactly the
\* recorded contents, whatever runs crashed on the way.
THEOREM StoreStaysInStep == Calm => (Spec => []StoreInStep)
<1>1. Inv => StoreInStep
  <2>. SUFFICES ASSUME Inv PROVE StoreInStep
    OBVIOUS
  <2>1. PICK v \in irVersion .. program : v # 0 /\ GraphOf(v) /\ CacheOf(v)
    BY DEF Inv, InStep
  <2>2. v \in 1 .. MaxVersion
    BY <2>1, VersionAssumption DEF Inv, TypeOK
  <2>. QED BY <2>1, <2>2 DEF StoreInStep
<1>. QED BY <1>1, InvHolds, PTL

\* A run that returns without an error leaves the graph of contents that the
\* files had while it ran.
THEOREM AnswersStayCurrent == Calm => (Spec => []AnswersAreCurrent)
<1>1. Inv => AnswersAreCurrent
  BY DEF Inv, RunHolds, AnswersHold, Answered, AnswersAreCurrent
<1>. QED BY <1>1, InvHolds, PTL

\* No commit of a diff ever trips over a foreign key.
THEOREM NoCommitRefused == Calm => (Spec => []NoRefusedCommit)
<1>1. Inv => NoRefusedCommit
  BY CommitEffect DEF NoRefusedCommit
<1>. QED BY <1>1, InvHolds, PTL

\* A run that nothing disturbs leaves the graph of the files on disk.  Where runs overlap it
\* need not: run indexer_shared_db shows how.
THEOREM QuietRunsAreExact == Calm => (Spec => []QuietRunIsExact)
<1>1. Inv => QuietRunIsExact
  <2>. SUFFICES ASSUME Inv, NEW p \in Procs, run[p].pc = "done", ~ run[p].error,
                       \A f \in Files : during[p][f] = {content[f]}
                PROVE  [nodes |-> db.nodes, edges |-> db.edges] = Stored(Resolve(
                          [f \in Files |-> IF content[f] = Absent THEN Absent
                                           ELSE [content |-> content[f], version |-> run[p].version]]))
    BY DEF QuietRunIsExact
  <2>1. Answered(p)
    BY DEF Inv, RunHolds, AnswersHold
  <2>2. \A f \in Files : HashOf(f) = content[f]
    BY <2>1 DEF Answered
  <2>. QED BY <2>1, <2>2 DEF Answered, GraphOf, RecordedView
<1>. QED BY <1>1, InvHolds, PTL

\* With no assumption about the environment: the types hold, and beside them what
\* the last theorem says.
THEOREM TypedHolds == Spec => []Typed
<1>1. Init => Typed
  <2>. SUFFICES ASSUME Init PROVE Typed
    OBVIOUS
  <2>1. /\ db = EmptyTables /\ run = [p \in Procs |-> Idle]
        /\ mtime = [f \in Files |-> 0] /\ clock = 0 /\ program = 1 /\ irVersion = 0
        /\ content \in [Files -> Maybe(Contents)] /\ during = [p \in Procs |-> [f \in Files |-> {}]]
    BY DEF Init
  <2>2. EmptyTables \in Tables
    BY DEF EmptyTables, Tables, Maybe
  <2>3. TypeOK
    BY <2>1, <2>2, IdleType, ClockAssumption, VersionAssumption DEF TypeOK, Ticks
  <2>. QED BY <2>1, <2>3 DEF Typed, CacheIsTrue, EmptyTables, Idle
<1>2. Typed /\ [Next]_vars => Typed'
  BY NextTyped
<1>. QED BY <1>1, <1>2, PTL DEF Spec

\* EnsureFresh keeps its types, however many of them run at once.
THEOREM TypeCorrect == Spec => []TypeOK
<1>1. Typed => TypeOK
  BY DEF Typed
<1>. QED BY <1>1, TypedHolds, PTL

\* No parse is ever cached under the hash of another content, although a file may
\* change between the two reads of one run, and runs may overlap.
THEOREM CacheStaysTrue == Spec => []CacheIsTrue
<1>1. Typed => CacheIsTrue
  BY DEF Typed
<1>. QED BY <1>1, TypedHolds, PTL
=============================================================================
