------------------------------- MODULE Indexer -------------------------------
(***************************************************************************)
(* indexer.EnsureFresh (pkg/indexer/indexer.go): bring the stored graph up *)
(* to date with the files on disk.  Each process in Procs (the MCP server, *)
(* `watch`, `run`, `index`) may run it, on a tree that users edit at any   *)
(* moment, over one database that they all share.                          *)
(*                                                                         *)
(* A file's content stands for its hash: SHA-256 is taken as injective.    *)
(* A parse is the content it was made from and the version of the plugins  *)
(* and resolver that made it.  The clock counts the file system's time     *)
(* stamps, TicksPerSecond of them to a second.  A commit is one step:      *)
(* SqliteStore implements it so.                                           *)
(***************************************************************************)
EXTENDS GraphDiff

CONSTANTS
    Procs, Contents,
    MayHold,            \* file -> the contents it may have, Absent among them
                        \* if it may be missing
    SizeOf,             \* the size of each content
    ResolveNodes(_),    \* resolver.Resolve: the graph of a set of parsed files
    ResolveEdges(_),
    MaxVersion,         \* plugin and resolver versions are 1 .. MaxVersion
    MaxClock, TicksPerSecond,
    \* Assumptions about the environment, each TRUE or FALSE.
    OneAtATime,         \* no two processes run EnsureFresh at once
    FineClock,          \* two writes of a file never carry the same mtime
    CalmRebuild,        \* after an upgrade, nobody touches a file between its
                        \* stat and its parse, and the parse can read it
    ReadsFail           \* a stat or a read may fail on a file that is there

VARIABLES
    content,   \* file -> its content on disk, or Absent
    mtime,     \* file -> the mtime of its last change
    clock,
    program,   \* the installed version
    db,        \* the tables
    irVersion, \* meta.ir_version, 0 when it was never set
    run,       \* process -> its run of EnsureFresh
    during     \* process -> file -> every content the file had, as far as the
               \* run could read, since the run began (history only)

vars == <<content, mtime, clock, program, db, irVersion, run, during>>

ASSUME MayHoldAssumption == /\ MayHold \in [Files -> SUBSET Maybe(Contents)]
                            /\ DOMAIN SizeOf = Contents
ASSUME ClockAssumption == TicksPerSecond \in Nat \ {0} /\ MaxClock \in Nat
ASSUME VersionAssumption == MaxVersion \in Nat \ {0}
ASSUME FlagsAssumption ==
    /\ OneAtATime \in BOOLEAN /\ FineClock \in BOOLEAN /\ CalmRebuild \in BOOLEAN
    /\ ReadsFail \in BOOLEAN

Ticks == 0 .. MaxClock
Second(t) == t \div TicksPerSecond

IR == [content : Contents, version : 1 .. MaxVersion]

\* Every set of parsed files resolves to a graph whose edges join its nodes.
View == [Files -> Maybe(IR)]
Resolve(view) == [nodes |-> ResolveNodes(view), edges |-> ResolveEdges(view)]

ASSUME ResolveAssumption ==
    \A view \in View : Resolve(view) \in Resolved /\ Closed(Resolve(view))

\* A node's id names its file, and only a parse of that file makes the node.
ASSUME OwnerAssumption ==
    \E owner \in [Ids -> Files \cup {NoFile}] :
        \A view \in View, id \in Ids : ResolveNodes(view)[id] # Absent =>
            /\ ResolveNodes(view)[id].file = owner[id]
            /\ owner[id] \in Files => view[owner[id]] # Absent

Sizes == {SizeOf[c] : c \in Contents}

FileStat == [size : Sizes, mtime : Ticks]
FileRecord == [hash : Contents, size : Sizes, mtime : Ticks, second : Ticks]
FileIR == [hash : Contents, data : IR]

\* What a run found out about one file.  `read` is FALSE where the stat was
\* trusted and src left nil.
FileData == [hash : Contents, size : Sizes, mtime : Ticks, read : BOOLEAN]

ASSUME RowsAssumption == Records = FileRecord /\ Parses = FileIR

ASSUME MarkAssumption ==
    /\ Absent \notin Contents /\ Absent \notin IR
    /\ Absent \notin FileData /\ Absent \notin FileStat

NoFiles == [f \in Files |-> Absent]

\* No files, no graph.
ASSUME NothingAssumption == ResolveNodes(NoFiles) = [id \in Ids |-> Absent]

Pcs == {"idle", "scan", "cache", "parse", "edges", "commit", "meta", "done"}

\* The local variables of one run.
Run == [pc      : Pcs,
        version : 1 .. MaxVersion,              \* of the program that runs
        stored  : [Files -> Maybe(FileRecord)],
        statted : [Files -> Maybe(FileStat)],   \* by a worker yet to read
        todo    : SUBSET Files,                 \* yet to be scanned, or parsed
        files   : [Files -> Maybe(FileData)],
        stale   : BOOLEAN,                      \* staleIR
        second  : Ticks,                        \* now, as IndexedAt stores it
        cached  : [Files -> Maybe(FileIR)],
        irs     : View,                         \* fileIRs
        nodes   : [Ids -> Maybe(Node)],         \* oldNodes
        edges   : [EdgeKeys -> Maybe(Labels)],  \* oldEdges
        error   : BOOLEAN]

Idle == [pc |-> "idle", version |-> 1, stored |-> NoFiles, statted |-> NoFiles, todo |-> {},
         files |-> NoFiles, stale |-> FALSE, second |-> 0, cached |-> NoFiles,
         irs |-> NoFiles, nodes |-> [id \in Ids |-> Absent],
         edges |-> [k \in EdgeKeys |-> Absent], error |-> FALSE]

Init ==
    /\ content \in {c \in [Files -> Maybe(Contents)] : \A f \in Files : c[f] \in MayHold[f]}
    /\ mtime = [f \in Files |-> 0]
    /\ clock = 0
    /\ program = 1
    /\ db = EmptyTables
    /\ irVersion = 0
    /\ run = [p \in Procs |-> Idle]
    /\ during = [p \in Procs |-> [f \in Files |-> {}]]

-----------------------------------------------------------------------------
(* The environment: time, users, upgrades.                                 *)

Tick == /\ clock < MaxClock
        /\ clock' = clock + 1
        /\ UNCHANGED <<content, mtime, program, db, irVersion, run, during>>

\* The run is rebuilding after an upgrade and has yet to parse a file it only
\* looked at the stat of.
Reparsing(p, f) == /\ run[p].files[f] # Absent
                   /\ ~ run[p].files[f].read
                   /\ irVersion # run[p].version

Change(f, c) ==
    /\ content[f] # c /\ c \in MayHold[f]
    /\ FineClock => mtime[f] < clock
    /\ CalmRebuild => ~ \E p \in Procs : Reparsing(p, f)
    /\ content' = [content EXCEPT ![f] = c]
    /\ mtime' = [mtime EXCEPT ![f] = clock]
    /\ during' = [p \in Procs |-> [during[p] EXCEPT ![f] = @ \cup {c}]]
    /\ UNCHANGED <<clock, program, db, irVersion, run>>

\* A new version of the program replaces every running one.
Upgrade == /\ program < MaxVersion
           /\ \A p \in Procs : run[p].pc = "idle"
           /\ program' = program + 1
           /\ UNCHANGED <<content, mtime, clock, db, irVersion, run, during>>

-----------------------------------------------------------------------------
(* One run of EnsureFresh.                                                 *)

Goto(p, pc, r) == run' = [run EXCEPT ![p] = [r EXCEPT !.pc = pc]]

Fixed == UNCHANGED <<content, mtime, clock, program>>

\* Read the file records, then walk the tree.
Start(p) ==
    /\ run[p].pc = "idle"
    /\ OneAtATime => \A q \in Procs : run[q].pc = "idle"
    /\ Goto(p, "scan", [Idle EXCEPT !.version = program, !.stored = db.files, !.todo = Files])
    /\ during' = [during EXCEPT ![p] = [f \in Files |-> {content[f]}]]
    /\ Fixed /\ UNCHANGED <<db, irVersion>>

Stat(f) == [size |-> SizeOf[content[f]], mtime |-> mtime[f]]

\* A slip: without the mtime, only the size would tell.
SizeUnchanged(rec, st) == rec.size = st.size

StatUnchanged(rec, st) == /\ rec.size = st.size
                          /\ rec.mtime = st.mtime
                          /\ st.mtime < rec.second * TicksPerSecond

Data(hash, st, read) == [hash |-> hash, size |-> st.size, mtime |-> st.mtime, read |-> read]

\* One of the workers stats a file, and trusts its record or goes on to read it.
StatFile(p, f) ==
    LET r == run[p]
        rec == r.stored[f]
    IN  /\ r.pc = "scan" /\ f \in r.todo /\ r.statted[f] = Absent
        /\ content[f] # Absent
        /\ Goto(p, "scan",
                IF rec # Absent /\ StatUnchanged(rec, Stat(f))
                THEN [r EXCEPT !.todo = @ \ {f}, !.files[f] = Data(rec.hash, Stat(f), FALSE)]
                ELSE [r EXCEPT !.statted[f] = Stat(f)])
        /\ Fixed /\ UNCHANGED <<db, irVersion, during>>

\* A slip: hashing whatever a failed read returned.
ReadAnyway(p, f) ==
    LET r == run[p]
    IN  /\ r.pc = "scan" /\ f \in r.todo /\ r.statted[f] # Absent
        /\ Goto(p, "scan", [r EXCEPT !.todo = @ \ {f}, !.statted[f] = Absent,
                                     !.files[f] = Data(content[f], r.statted[f], TRUE)])
        /\ Fixed /\ UNCHANGED <<db, irVersion, during>>

\* It reads and hashes the file, which may have changed since the stat.
ReadFile(p, f) ==
    LET r == run[p]
    IN  /\ r.pc = "scan" /\ f \in r.todo /\ r.statted[f] # Absent
        /\ content[f] # Absent
        /\ Goto(p, "scan", [r EXCEPT !.todo = @ \ {f}, !.statted[f] = Absent,
                                     !.files[f] = Data(content[f], r.statted[f], TRUE)])
        /\ Fixed /\ UNCHANGED <<db, irVersion, during>>

\* The file is gone, or a stat or a read of it fails: it is passed over.
PassOver(p, f) ==
    /\ run[p].pc = "scan" /\ f \in run[p].todo
    /\ ReadsFail \/ content[f] = Absent
    /\ Goto(p, "scan", [run[p] EXCEPT !.todo = @ \ {f}, !.statted[f] = Absent])
    /\ during' = [during EXCEPT ![p][f] = @ \cup {Absent}]
    /\ Fixed /\ UNCHANGED <<db, irVersion>>

Seen(r)    == Keys(r.files)
Dirty(r)   == {f \in Seen(r) : r.files[f].read /\ (r.stored[f] = Absent \/ r.stored[f].hash # r.files[f].hash)}
Restat(r)  == {f \in Seen(r) : r.files[f].read} \ Dirty(r)
Deleted(r) == Keys(r.stored) \ Seen(r)
Changed(r) == (r.stale /\ Seen(r) # {}) \/ Dirty(r) # {} \/ Deleted(r) # {}

\* All workers are done: read the stored version and the time, and decide.
Decide(p) ==
    LET r == [run[p] EXCEPT !.stale = (irVersion # run[p].version), !.second = Second(clock)]
    IN  /\ r.pc = "scan" /\ r.todo = {}
        /\ Goto(p, IF Changed(r) THEN (IF r.stale THEN "parse" ELSE "cache")
                   ELSE IF Restat(r) # {} THEN "commit" ELSE "done",
                [r EXCEPT !.todo = Seen(r)])
        /\ Fixed /\ UNCHANGED <<db, irVersion, during>>

\* Unchanged files reuse their cached parse, unless the version moved.
ReadCache(p) ==
    /\ run[p].pc = "cache"
    /\ Goto(p, "parse", [run[p] EXCEPT !.cached = db.irs])
    /\ Fixed /\ UNCHANGED <<db, irVersion, during>>

\* A slip: the cached parse of another content.
AnyCached(r, f) == r.cached[f] # Absent

Cached(r, f) == r.cached[f] # Absent /\ r.cached[f].hash = r.files[f].hash

\* The parse of one file: the cached one, or of the source already read, or of
\* the source read again, whatever it is by now.
ParseFile(p, f) ==
    LET r == run[p]
        source == IF r.files[f].read THEN r.files[f].hash ELSE content[f]
        ir == IF Cached(r, f) THEN r.cached[f].data
              ELSE [content |-> source, version |-> r.version]
    IN  /\ r.pc = "parse" /\ f \in r.todo
        /\ Cached(r, f) \/ source # Absent
        /\ Goto(p, "parse", [r EXCEPT !.todo = @ \ {f}, !.irs[f] = ir])
        /\ Fixed /\ UNCHANGED <<db, irVersion, during>>

\* The second read fails: the file gets no parse and drops out of the graph.
LoseFile(p, f) ==
    /\ run[p].pc = "parse" /\ f \in run[p].todo
    /\ ~ Cached(run[p], f) /\ ~ run[p].files[f].read
    /\ content[f] = Absent \/ (ReadsFail /\ ~ CalmRebuild)
    /\ Goto(p, "parse", [run[p] EXCEPT !.todo = @ \ {f}])
    /\ Fixed /\ UNCHANGED <<db, irVersion, during>>

\* queueGraphDiff reads the stored nodes, then the stored edges.
ReadNodes(p) ==
    /\ run[p].pc = "parse" /\ run[p].todo = {}
    /\ Goto(p, "edges", [run[p] EXCEPT !.nodes = db.nodes])
    /\ Fixed /\ UNCHANGED <<db, irVersion, during>>

ReadEdges(p) ==
    /\ run[p].pc = "edges"
    /\ Goto(p, "commit", [run[p] EXCEPT !.edges = db.edges])
    /\ Fixed /\ UNCHANGED <<db, irVersion, during>>

RecordsOf(r, fs) ==
    [f \in Files |-> IF f \in fs THEN [hash |-> r.files[f].hash, size |-> r.files[f].size,
                                       mtime |-> r.files[f].mtime, second |-> r.second]
                     ELSE Absent]

\* A slip: caching whatever was parsed under the hash found before.
CacheAnyParse(r) ==
    [f \in Files |-> IF r.irs[f] # Absent /\ ~ Cached(r, f)
                     THEN [hash |-> r.files[f].hash, data |-> r.irs[f]] ELSE Absent]

\* A parse is cached only if it was made here and of the recorded content.
FreshIRs(r) ==
    [f \in Files |-> IF r.irs[f] # Absent /\ ~ Cached(r, f) /\ r.irs[f].content = r.files[f].hash
                     THEN [hash |-> r.files[f].hash, data |-> r.irs[f]] ELSE Absent]

RecordBatch(r) == [NewBatch EXCEPT !.recorded = RecordsOf(r, Dirty(r) \cup Restat(r))]

FullBatch(r) ==
    QueueGraphDiff([RecordBatch(r) EXCEPT !.irs = FreshIRs(r), !.removed = Deleted(r)],
                   r.nodes, r.edges, Resolve(r.irs))

BatchOf(r) == IF Changed(r) THEN FullBatch(r) ELSE RecordBatch(r)

Commit(p) ==
    LET r == run[p]
        refused == Refused(db, BatchOf(r))
    IN  /\ r.pc = "commit"
        /\ db' = IF refused THEN db ELSE Applied(db, BatchOf(r))
        /\ Goto(p, IF ~refused /\ Changed(r) /\ r.stale THEN "meta" ELSE "done",
                [r EXCEPT !.error = refused])
        /\ Fixed /\ UNCHANGED <<irVersion, during>>

\* SetMeta, a transaction of its own.
SetVersion(p) ==
    /\ run[p].pc = "meta"
    /\ irVersion' = run[p].version
    /\ Goto(p, "done", run[p])
    /\ Fixed /\ UNCHANGED <<db, during>>

Return(p) ==
    /\ run[p].pc = "done"
    /\ run' = [run EXCEPT ![p] = Idle]
    /\ during' = [during EXCEPT ![p] = [f \in Files |-> {}]]
    /\ Fixed /\ UNCHANGED <<db, irVersion>>

\* A read or a write of the database fails, or the process dies.
Crash(p) ==
    /\ run[p].pc \notin {"idle", "done"}
    /\ run' = [run EXCEPT ![p] = Idle]
    /\ during' = [during EXCEPT ![p] = [f \in Files |-> {}]]
    /\ Fixed /\ UNCHANGED <<db, irVersion>>

EnsureFresh(p) ==
    \/ Start(p) \/ Decide(p) \/ ReadCache(p) \/ ReadNodes(p) \/ ReadEdges(p)
    \/ \E f \in Files : StatFile(p, f) \/ PassOver(p, f) \/ ReadFile(p, f)
                        \/ ParseFile(p, f) \/ LoseFile(p, f)
    \/ Commit(p) \/ SetVersion(p) \/ Return(p)

Environment == Tick \/ Upgrade \/ \E f \in Files, c \in Maybe(Contents) : Change(f, c)

Next == Environment \/ \E p \in Procs : EnsureFresh(p) \/ Crash(p)

Spec == Init /\ [][Next]_vars

-----------------------------------------------------------------------------
(* What must hold.                                                         *)

TypeOK ==
    /\ content \in [Files -> Maybe(Contents)]
    /\ mtime \in [Files -> Ticks]
    /\ clock \in Ticks
    /\ program \in 1 .. MaxVersion /\ irVersion \in 0 .. MaxVersion
    /\ db \in Tables
    /\ run \in [Procs -> Run]
    /\ during \in [Procs -> [Files -> SUBSET Maybe(Contents)]]

HashOf(f) == IF db.files[f] = Absent THEN Absent ELSE db.files[f].hash

\* The recorded contents, as a program of version v parses them.
RecordedView(v) ==
    [f \in Files |-> IF HashOf(f) = Absent THEN Absent
                     ELSE [content |-> HashOf(f), version |-> v]]

GraphOf(v) == [nodes |-> db.nodes, edges |-> db.edges] = Stored(Resolve(RecordedView(v)))

CacheOf(v) == \A f \in Files :
    db.irs[f] = IF HashOf(f) = Absent THEN Absent
                ELSE [hash |-> HashOf(f), data |-> RecordedView(v)[f]]

\* The three tables tell one story: the graph and the cached parses are those
\* of exactly the recorded contents, in one version, whatever runs crashed on
\* the way and however many diffs the graph was patched by.
StoreInStep == \E v \in 1 .. MaxVersion : GraphOf(v) /\ CacheOf(v)

\* What EnsureFresh promises by its name: when it returns without an error, the
\* graph is that of contents each of which its file had at some moment of the
\* run, in the version of the program that ran.
AnswersAreCurrent ==
    \A p \in Procs : run[p].pc = "done" /\ ~ run[p].error =>
        /\ \A f \in Files : HashOf(f) \in during[p][f]
        /\ GraphOf(run[p].version)

\* The diff of a resolved graph never trips over a foreign key.
NoRefusedCommit ==
    \A p \in Procs : run[p].pc = "commit" => ~ Refused(db, BatchOf(run[p]))

\* A cached parse is of the content whose hash it is filed under, even where the
\* file changed between the two reads of one run: were it not, every later run
\* would trust it.
CacheIsTrue ==
    \A f \in Files : db.irs[f] # Absent => db.irs[f].data.content = db.irs[f].hash

\* AnswersAreCurrent for a run during which no file changed and every read worked, the
\* case a user can check: the graph is that of the files on disk.
QuietRunIsExact ==
    \A p \in Procs :
        LET v == run[p].version
            ViewOf(f) == IF content[f] = Absent THEN Absent
                         ELSE [content |-> content[f], version |-> v]
        IN  /\ run[p].pc = "done" /\ ~ run[p].error
            /\ \A f \in Files : during[p][f] = {content[f]}
            => [nodes |-> db.nodes, edges |-> db.edges]
                  = Stored(Resolve([f \in Files |-> ViewOf(f)]))
=============================================================================
