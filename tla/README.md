# Verification of graphcontext

graphcontext indexes a source repository into a symbol graph, keeps it in a SQLite
database and answers questions about it over MCP. This directory holds TLA+ models of
the program, translated from the Go code in `src/pkg`, the TLC configurations that check
them on small instances, and proofs checked by TLAPS that hold for every instance.
`PROJECT.json` maps every definition to the lines of code it stands for, and lists the
runs, the hazards, the theorems and the findings.

## 1. The system

The program is a chain. Each stage is called by the next; state is shared at the places
marked.

```
 users edit files ──► kernel ──► watcher ──► debouncer ──► daemon.eventLoop ─┐
        │                                                                   ▼
        └──► crawler ──► language plugins ──► resolver ──► indexer ◄── syncInternal ◄── FreshGraph
                                                             │  ▲                          ▲
                                             store (SQLite) ◄┘  └─ other processes     MCP sessions
                                               [shared]            (index, run, watch)  ▲ tools
                                                                                        └ analysis, diff,
                                                                                          testselect, archlint
```

| component | state it keeps | operations | what is hard | what makes it correct |
|---|---|---|---|---|
| `store` | tables `nodes`, `edges`, `files`, `file_irs`, `meta`, the full-text table | queue calls of `Batch`, `Commit`, `Open`, `SetMeta`, `Meta`, reads | failure between any two rows; row ids reused by SQLite; cascades | a commit is all or nothing, no dangling edge, search mirrors nodes |
| `indexer` | local variables of a run; the database | `EnsureFresh` | files change while they are read; crashes; upgrades; several processes; clock granularity | what is stored is the graph of contents the files had during the run |
| `indexer/diff` | none | `queueGraphDiff` | ids, owners, cascades and counts interact | applying the diff equals a full rebuild |
| `crawler` | none | `Walk` | tree changes during the walk | every file is visited once |
| `watcher` | `watchedDirs`, `seq`, `degraded`, channels | event loop, `watchTree`, `Close` | queue overflow, watch limits, directories that come and go | a change on disk is counted, or `Healthy` is false |
| `debouncer` | pending changes, timer | `record`, `flush`, `stop` | timer against `record` and `stop` | every change ends in a batch |
| `daemon` | graph, `syncedSeq`, `syncMu`, status | `Start`, `Stop`, `syncInternal`, `FreshGraph`, event loop | callers and background sync race with edits | a fresh graph is as new as the call |
| `mcp_server` sessions | map of sessions, use counts | `acquireSession`, eviction, shutdown | eviction against a new call | no session is closed while in use |
| `resolver` | symbol index | `Resolve` | ambiguous names, imports, receivers; files arrive in any order | a closed graph, the same one each time; a call leads to the nearest declaration |
| `analysis` | none | reach, trace, SCC, dead code, paths | cuts at limits | equals the graph-theoretic definition |
| `diff`, `testselect`, `archlint` | none | hunk parsing, symbol mapping, test choice, rules | hunks with an empty side, boundaries of ranges, deleted files | from the patch to the answer nothing touched is lost |
| MCP tools | none | one handler each | limits shared by several sources, an index of another age than the graph | an answer that does not say it is cut is complete |
| language plugins | none | extraction from syntax trees | functions in types in functions, declarations without a name, variables of nested scopes | a call belongs to the nearest named function around it, a recorded type to the variable it is of |

Hazards, each at its line, are the `hazards` of `PROJECT.json`.

## 2. The modules

| module | models | kind |
|---|---|---|
| `GraphBatch` | tables, `Batch`, net effect of a commit (`write.go`, `schema.go`, `types.go`) | data and operators |
| `GraphStore` | what a store promises: a batch is written in one step | abstract specification |
| `SqliteStore` | `Store.Commit` row by row, rollback, `Open` | detailed specification |
| `SqliteStoreProofs` | | theorems |
| `GraphDiff` | `queueGraphDiff` | operator |
| `Indexer` | `EnsureFresh` by several processes, with users, time and upgrades around it | specification, over `GraphDiff` |
| `IndexerProofs` | `Indexer` and `GraphDiff` | theorems, with lemmas on batches and tables |
| `Watcher` | tree, kernel queue, event loop, debouncer | component of `Daemon` |
| `Daemon` | `syncInternal`, event loop, `FreshGraph`, `Start`, `Stop` | specification, over `Watcher` |
| `DaemonProofs` | | theorems |
| `Sessions` | the MCP server's map of sessions: open, hold, release, evict, shut down | specification, over the promise of `Daemon` |
| `SessionsProofs` | | theorems |
| `CodeGraph` | the symbol graph in memory (`graph.go`) | data |
| `Reach` | `ReverseReach`, `ForwardReach`, `Neighborhood`, `DeadCandidates` | specification of the loop |
| `Components` | `SCCs` (Tarjan's algorithm) | specification of the loop |
| `CallPaths` | `PathsBetween`, `Trace` | specification of the loop |
| `UnifiedDiff` | `ParseUnifiedDiff`, over what git writes of a patch | specification of the loop |
| `Impact` | `diff_impact`: `MapDiffToSymbols`, `SelectTests`, `LintDiff` | specification, over `UnifiedDiff` and `CodeGraph` |
| `Tools` | `search_symbols` and `get_task_context` | specification, over `CodeGraph` |
| `AnalysisProofs` | `Reach`, `CallPaths`, `Components` and `Tools` | theorems |
| `ImpactProofs` | `UnifiedDiff` and `Impact` | theorems |
| `ListProofs` | | lemmas on numbers, lists and recursion for the three modules of proofs about lists and graphs |
| `MCAnalysis` | one analysis of one graph, or one call of a tool: `Reach`, `Components`, `CallPaths`, `Impact` or `Tools` | instance for TLC |
| `Extraction` | pass 1 for one file: the engine of the generic language plugins (`generic.go`, `util.go`) | specification of the two walks |
| `TypedExtraction` | what the plugins of Go, Python and TypeScript record beside that: imports and types (`ir.go`) | data, over `Extraction` |
| `GoPlugin`, `PythonPlugin`, `TypeScriptPlugin` | pass 1 for a file of that language (`golang.go`, `python.go`, `typescript.go`) | specifications, over `TypedExtraction` |
| `Resolver` | pass 2: the index, the rules, the interfaces (`resolver.go`, `index.go`, `types.go`) | specification of a run |
| `Passes` | what any of the four extractions gives of a file is resolved with another file; or given files are (`EnsureFresh`, between the passes) | composition |
| `PassesProofs` | the four extractions, `Resolver` and `Passes` | theorems |
| `MCPasses` | trees, files and repositories for `Passes` | instance for TLC |
| `MCSqliteStore`, `MCIndexer` | instances for TLC | |

How they compose: `SqliteStore` implements `GraphStore` (refinement). `Indexer` takes a
commit as the one step that `GraphStore` promises: `Applied` and `Refused` of `GraphBatch`
are the same operators in both. `Daemon` takes a whole `EnsureFresh` as "read each file at
some moment, then commit", which is what `AnswersAreCurrent` of `Indexer` says. `Sessions`
takes a whole `FreshGraph` as "a content the project had during the call", which is what
`FreshAnswers` of `Daemon` says, and only for sessions that meet its assumptions. `Passes`
runs `Extraction` or one of the plugins, hands its `FileIR` over as `EnsureFresh` does, and runs `Resolver` on it.
`Impact` continues `UnifiedDiff` and takes `ReverseReach` by what `Reach` shows of it, as
`Tools` takes `Neighborhood`.
`Indexer` takes the two passes together as a function, its parameter `Resolve`;
`GraphStaysWhole` of `Resolver` is what it assumes of the result. That the result is a
function of the files' contents holds only where `SameGraphAgain` says so: elsewhere a run
that re-parses nothing new may still see another graph (finding 4), which is stored like
any other, by a diff.

### Store

* A table is a function from primary key to row. A node row is its owner file and a `text`
  that stands for all other columns; an edge row is its candidate count, with the key
  `(src, tgt, line)` for all key columns.
* `SqliteStore` has `disk` (committed), `tx` (the transaction's view), `todo` (the rest of
  the batch) and `batch`. `DeleteEdgeRow`, `DeleteNodeRow`, `PurgeTouched`, `RemovePath`,
  `InsertNode`, `InsertEdge` are the loops of `Commit`, one row a step, and the guards
  `EdgesDeleted`, `NodesDeleted`, ... are their order. `Finish` is records, parses and
  `COMMIT`; nothing reads those two tables before, so they are one step.
* `Rollback` may happen at any point. It is the deferred `tx.Rollback()`, for a failed
  foreign key, a full disk, a busy database or a dying process. That SQLite's own `COMMIT`
  is atomic and durable is assumed.
* Each node has the row id SQLite chose. The full-text table is keyed by it and nothing
  else ties the two, as in the schema.
* The inputs of `Queue` are those callers may queue: an external id has a node without an
  owner and no other node does (`resolver.go:41-55`).

### Indexer

* One `run` per process with the locals of `EnsureFresh`. `pc` follows the function:
  `scan` (workers: `StatFile`, `ReadFile`, `PassOver`), `Decide`, `cache`, `parse`
  (`ParseFile`, `LoseFile`), `ReadNodes`, `ReadEdges`, `commit`, `meta`, `done`.
* Files are scanned in any order and any interleaving, as four workers may.
* `Change` is a user's edit, at any moment; `mtime` is the clock at the edit; `Second` is
  `Unix()`'s rounding. `Upgrade` installs a version with other plugins.
* `Resolve` is a parameter with three assumptions: it returns a closed graph, a node is
  owned by one file and comes only from a parse of it, and no files give no nodes. They
  hold by the code of `resolver.Resolve`, which drops edges without targets or adds the
  external node, and takes nodes from the parses.
* Four flags say what the environment may do. `OneAtATime`: no second process runs
  `EnsureFresh`. `FineClock`: two writes of a file have different mtimes. `CalmRebuild`:
  nobody touches a file between its stat and its parse while an upgrade re-parses all.
  `ReadsFail`: reads may fail on a file that is there.
  `Calm == OneAtATime /\ FineClock /\ CalmRebuild` is the hypothesis of the theorems. The
  code needs each of the three: see the runs, and the limits under the findings.
* Left out: parsing never fails (tree-sitter fails only on a cancelled context), versions
  only grow, encoding errors of the parse cache, SHA-256 collisions.

### Watcher and daemon

* `Watcher` has directories below an always-watched root, each with at most one source
  file. `tree` is the disk, `watches` what the kernel watches, `watched` what the watcher
  believes (`watchedDirs`), `events` the kernel's queue with its overflow marker.
* `TakeEvent` receives and counts (`seq.Add`), `HandleDir`/`HandleFile` do the rest of
  `processFSEvent`: between the two the tree may change and callers may read `seq`.
* The debouncer keeps one operation per file, merged by `CoalesceOperations`; `Flush` takes
  all of it and `Send` is the blocking send after the lock is let go.
* `Daemon` adds `syncMu` and one `sync` per actor: a caller of `FreshGraph`, or the
  background. `LockSync` takes the lock and reads `seq`; `ScanDir`, `Index`, `Load` are
  `EnsureFresh` and `store.Load`; `Publish` swaps the graph and remembers the sequence;
  `FailSync` is each error return. `Call` and `Compare` are `upToDate`, whose reads of the
  flags and counters are not atomic. `since` is a history variable: the contents a file had
  since a call began.
* `Start` runs its first sync before the event loops start, and stops the watcher if that
  sync fails. `Stop` needs no call in progress, as sessions guarantee for eviction.
* Flags: `DirsStay` (a directory that was watched once is not made again), `QuickWatch` (no
  edit in a new directory between the moment its event is counted and the moment it is
  watched), `OwnDb` (no other process indexes this project), `MayFail` (where a sync may
  fail).
* An edit whose notification is still in the kernel's queue (`Unheard`) is outside every
  promise: no reader of `seq` could know of it.
* Left out: nested directories, sync listeners, status counters, the errors channel (the
  daemon drains it at once), cancellation of contexts, ignored directories.

### Sessions

* `sessions` is the map, `object` the session objects, which outlive their entry in the
  map. `call` follows a tool call: `lock`, `open` (store and daemon are opened), `refresh`,
  `load` (only without a daemon), `handle`. From the lookup to `handle` it holds
  `sessionsMu`, as `openSession` does; `session.mu` is only ever taken under that lock.
* `OpenStore` chooses whether the daemon starts. A session without one runs `EnsureFresh`
  for each call and loads the graph if that changed anything; the two steps are apart
  because a failure in between is what matters.
* `FailOpen` and `FailRefresh` are the error returns, before or after the commit of an index
  run. `Refused` after it leaves the session not `alone`, as does `OtherProcess`: from then
  on it may have missed a change. `alone` and `since` (the contents a project had since the
  call took the lock) are history variables.
* The ages of sessions are measured since their last use. A tick may wait in the ticker's
  channel (`late`), so the reaper compares with a time that is already past; `MaxLate` bounds
  the wait, and ages are counted only up to `MaxAge`, the first that is too old even so.
* `CloseAllSessions` ends the run: the process exits right after it.
* Left out: `getSession` without a hold (only tests use it), `liveEnabled` as a switch (a
  daemon may fail to start, which has the same effect).

### Analysis

* A graph is a set of edges and the nodes that have a row. The two may disagree: `Load`
  reads nodes and edges by two queries, so an edge may end in a node without a row.
* `Reach` is one breadth-first loop read four ways. `Seeds`, `Leads`, `GoesOn` and `Limited`
  are where the four functions differ; `Find`, `PassOver`, `Cut` and `Deepen` are what they
  share. `todo` holds what the two inner loops have still to look at, `next` the next
  frontier, `level` is `visited` with the depth at which a node was marked, `rank` the
  order of `nodeIDs`. Edges of one level are looked at in any order, a superset of what the
  lists give, so no property rests on the order in which the database returns rows.
* `Components` keeps the calls of `connect` on a stack of frames. The neighbours of a group
  come in any order, as Go's maps are walked. `Finish` includes what the caller does with
  the low link when `connect` returns.
* `CallPaths` keeps the calls of `dfs` or `walk` on a stack. What they have found is told as
  chains of edges, so that parallel edges can be told apart. `Trace` follows the calls of a
  symbol by line.
* Left out: `Condense` and `DegreeMetrics`, the confidence and the sorting of answers, the
  edges shown between the nodes of a neighborhood.

### Extraction and resolver

* `Extraction` grows a syntax tree at its right edge, which is the order of the walk. A
  node is what a language's table makes of it: a class, interface, function, impl block or
  call, with the names its grammar gives. `Visit` records a node as `typeDecl`, `funcDecl`
  and `implDecl` do; `DropOrphanRefs` is the pass over the references; `Calls` is the second
  walk, which knows the tree only by the byte spans of the declarations (`ByRange`), and the
  final sort. Positions are numbers of nodes, as only their order and nesting count.
* `Resolver` resolves one reference a step, in the order of the code: by family, by file, by
  reference, then the interfaces of the family. `Begin` chooses the order of the files, as
  the four workers of `EnsureFresh` append them in any, and, for each import that no module
  matches exactly, which module with a matching suffix the loop over the Go map meets first
  (`pick`). A second `Begin` on the same files is a second run.
* The maps of `index` are operators over the files in that order: `LastOf` is what a map
  holds of several writes to one key. The rules for a reference are the lists `BaseRules`,
  `BareRules`, `ReceiverRules`; the first that finds something decides (`Decide`).
* `VisitBases` is one turn of the breadth-first search through base types, `FirstType` and
  `ReceiverType` follow a receiver such as `self.store.db` part by part.
* `GoPlugin` records each node as the walk comes to it, for the code's walks of declarations
  and of their bodies come to the same records in the same order. `PythonPlugin` and
  `TypeScriptPlugin` have the tree first (`VisitPy`, `VisitTs`) and then read it in one step
  (`ParsePy`, `ParseTs`), as they look at a class before what is in it. `Calls` of
  `Extraction` serves all three. Which nodes may stand where (`Fits`, `PyFits`, `TsFits`) is
  the grammars', and external.
* `types.vars` is keyed by the id of a function and a bare name, as `VarKey` is; that of
  several declarations the last one counts is the order of the folds (`Learn`, `Learnt`).
  In Go the id is that of the function declaration around (`OwnerID`), closures aside.
* A type is a name, perhaps with a package (`Qualified` says which, and what name is left);
  `BaseTypeName` drops the package. What is recorded are the bare names; the properties ask
  of the types as they are written.
* A field of a Go struct may be embedded: it has no name and leaves no record. A field whose
  type is a struct without a name (`AnonymousStruct`) has fields in it, which
  `FieldDeclaration` records under the type around, over a field of that name.
* `Others` has what the other file of a language may be. Trees of Go up to `MaxFree` nodes
  begin in any way; larger ones, and those of Python and TypeScript, in one of the ways that
  `Heads` lists, and go on for up to `MaxBeyond` nodes.
* Left out: `CandidateCount` and the statistics, which nothing decides on; the tables of the
  generic languages; generator functions of TypeScript, whose variables are recorded under a
  function further out, if any (`typescript.go:417`); types with a package inside a generic's
  argument, of which `BaseTypeName` leaves a stump;  text of signatures and docstrings; flags for tests and entry points;
  how a module path is made of a file path and a repository's root (`ModulePath` and
  `ImportPaths` give what may match).

### Diff impact

* A patch is a script of lines kept, deleted and added. `GitDiff` is what git writes of it,
  with hunks, context, new and deleted files; it is external. `ReadLine` is the loop of
  `ParseUnifiedDiff`, one line a step, with `oldLine` and `newLine` as in the code.
* A line that looks like a header (a deleted line that begins with `-- `, say) is taken for
  one, by the code and by the model; the properties are about files without such lines.
* `MapFile` maps the lines of one file onto its symbols, `Select` looks at one changed
  symbol, in any order, and `Lint` is the loop over their edges. Paths are tuples of names.
* Left out: which nodes are tests (given by `layout`), globs with `*` inside a name,
  `LintGraph` (`LintDiff` of all symbols), the confidence of a selected test, running git;
  the error that `ParseUnifiedDiff` returns if a line is too long for its scanner
  (`diff.go:115`), and with it the answer.
* `InFileOf` takes the symbols of a file from the graph. The code asks the database
  (`mapper.go:22`), which is the same while no other process commits between the two.

### Tools

* `AskIndex` and `LookAtNames` are the two sources of `search_symbols`; `matches` holds the
  rank of each symbol found, `Listed` is what the sort and the cut leave. Which symbols a
  query hits, and how it fits their names, is given, so the index may know other symbols
  than the graph.
* `ScoreSymbols` is the loop over the words of a task up to the choice of the seeds;
  `AddSeed` is one turn of the loop over these, with a neighborhood that `Neighborhood` may
  return (`Neighborhoods`) and the loop that adds it (`Fill`).
* Left out: the other tools, which show one analysis each; how words are split
  (`SplitIdentifier`) and looked up; the edges and files a task context lists.

## 3. The runs

| run | checks | instance | why it is enough |
|---|---|---|---|
| `sqlite_store` | `TypeOK`, `CommittedForeignKeys`, `SearchMirrorsNodes`, `ImplementsGraphStore` | 3 nodes (1 external), 2 edges, 1 file, 3 row ids (symmetric), 2 queued rows per batch, any number of batches, 2 schema versions | one chain owned to owned to external has each sort of endpoint; two rows per batch make each pair of sections meet; row ids are just enough to be reused |
| `indexer` | `TypeOK`, `StoreInStep`, `AnswersAreCurrent`, `NoRefusedCommit` | 2 files, 2 contents of one size, 1 process, 3 time stamps in 2 seconds, 2 versions, failing reads, crashes | `lib` decides where a call in `app` goes, so a change of one file moves an edge of another; contents of one size leave only mtime and hash to tell; one upgrade |
| `indexer_uncalm` | `CacheIsTrue` | as above, two stamps, without `FineClock` and `CalmRebuild` | edits between any two reads of a run |
| `indexer_shared_db` | `QuietRunIsExact` violated | `OneAtATime` dropped | finding 1 |
| `daemon` | `TypeOK`, `UpToDateMeansCurrent`, `FreshAnswers`, `NeverBackwards` | 1 directory, 2 contents, 3 edits, event queue of 2, channel of 1, 1 caller and the background, failing scans | three edits overflow the queue of two; an edit fits before, in and after a sync. Two directories with two edits, and larger queues, also pass |
| `daemon_live` | `CallsReturn`, `Drains` | 2 edits, queue of 1, another process writing at any time, syncs in progress included | overflow, a blocked flush, and a failing sync are reached |
| `daemon_recreated_dir` | `FreshAnswers` violated | `DirsStay` dropped | finding 2 |
| `daemon_stop` | `NeverPanics` violated | `Stop` against a flush | finding 3 |
| `sessions` | `TypeOK`, `HeldIsOpen`, `OpenIsInMap`, `HandlersSeeFresh`, `CallsReturn`, `IdleIsClosed` | 1 project, 2 contents, 2 calls, 2 session objects, sessions idle after 1 time step, ticks at most 1 late, all failures | two calls meet at each step of opening and eviction; a second object is what a project gets after its first was evicted. Sessions of different projects share the lock only; the four invariants also pass with 2 projects and 3 objects |
| `analysis` | `ReachTypeOK`, `ReachIsExact`, `CutKeepsNearest`, `DeadIsUnreached`, `NeighborhoodIsExact`, `CyclesAreExact`, `PathsAreExact`, `TraceIsExact`, `LinesAreExact`, `TouchedTestsAreSelected`, `NewBreachesAreReported`, `SearchIsHonest`, `ContextIsWhole` | every graph of 4 symbols with up to 3 calls and perhaps an import, a second call of the same symbol or a call of itself, with and without a row missing; depths up to 3, limits from 0 to 9; for cycles up to 4 calls. For a diff: patches that leave 3 lines and delete up to 2, with 0 or 1 lines of context, alone or with a test file deleted or added; two symbols side by side or nested; depth 2, a limit of 2. Searches: every order of hits, limits up to 2, four ways in which names fit, a symbol of another kind, one without a row. Tasks: 1 to 3 symbols that words find, limits up to 3, 2 seeds | 3 calls make a fork, a diamond's half or a cycle with a way in; limits lie below, at and above the size of the answers; 4 uses make two cycles, or a cycle entered twice. Such patches have one hunk or two, hunks with an empty side at either end and in the middle, and lines that move; the limit of 2 is met by 3 symbols that reach the fourth. The index is cut below, at and above twice the limit; two seeds share neighbours and crowd each other |
| `passes` | `CallsAreAttributed`, `GraphIsWhole`, `CallsTheNearest`, `ImplementsIsStructural`, `SameGraphAgain`, `CallsLeadHome` | all trees of up to 4 nodes of the generic languages; all trees of Go of up to 3 nodes, and of up to 6 that begin in one of 12 ways, of 3 or 4 nodes, and have up to 2 more; all trees of up to 5 nodes of Python and TypeScript that begin in one of 9 ways; a type may be of the file's own module, of an imported package or of one that is not there; resolved with a package that has types of the same names, in Go also with another file of the own package, or for the generic languages with a file of the same or of another family (trees of more than 3 nodes only if a call has a receiver); given repositories of 2 or 3 files: 4 types in chains, diamonds and cycles of bases with a method in any of them and 6 receivers; classes that have, inherit or lack the 2 methods of an interface; 5 forms of import of a module in one file, two, or under a suffix; two runs | four nodes nest a call in a function in a type in a function; five hold a function, two declarations of a variable and a call, or a class, a constructor, its parameter, a field and a call; six a struct in a struct with a field of the same name, a method and a call through it; 4 types are the least with two ways to a base; two runs see any two orders |
| `passes_again` | `SameGraph` violated | a Go package of two files and a call into it | finding 4 |

The bound on edits ends the daemon's work, and a stopped daemon does nothing any more, so
those runs do not check for deadlock; `Drains` and `CallsReturn` say what must not hang.
A stopped server does nothing either (`sessions`), and an analysis or a run of the passes
ends (`analysis`, `passes`).
The other runs do.

Fairness in `daemon_live`: weak fairness of the event loop, the debounce
timer, the blocked send, the steps of a sync and of a call, because the Go runtime
schedules every goroutine that can run; strong fairness of `LockSync`, because a
`sync.Mutex` hands itself to a goroutine that has waited a millisecond. Users, other
processes, failures and `Stop` have none: a sync may fail each time it runs, and calls
still return. In `sessions` the lock, and what needs it (`LockSessions`, `Release`,
`EvictIdleSessions`), is strongly fair for the same reason; the steps of `openSession` and
the ticker are weakly fair. `SF` of `Release` says that handlers end, which holds because
they only compute over a finite graph. Nobody has to call, edit, fail or stop the server.

Every property has a mutant in `PROJECT.json`: a change of a modelled operation, of the
kind a slip in the code would be, that breaks it. The changed operators stand in the
modules as "A slip: ...".

## 4. What is proved

For every value of the constants that meets the named assumptions:

* **`SqliteStore`** (`SqliteStoreProofs`): `TypeCorrect`, `NoDanglingEdge`,
  `SearchFollowsNodes` and `CommitIsAtomic`, the last one `Spec => Promise!Spec`: the
  row-by-row commit implements the one-step commit. The inductive invariant is `TypeOK`,
  `TxSound` (row ids are injective and index entries and nodes match, in the transaction's
  view too), `RestApplies` (what is left of the batch, applied to what the transaction
  sees, is still the whole batch applied to the disk) and `EdgesAccepted`. The first is
  needed because index and nodes are tied by row ids only; the second is the refinement.
* **`GraphDiff`** (`IndexerProofs`): `DiffIsExact`: the diff, applied to the tables it
  was computed from, gives exactly the resolved graph, and no foreign key refuses it,
  whatever the cascades delete on the way.
* **`Indexer`** (`IndexerProofs`): `Calm => (Spec => []P)` for `StoreInStep`,
  `AnswersAreCurrent` and `NoRefusedCommit`, from `InvHolds`. The inductive invariant `Inv`
  says of each record that it was made of a content the file had, and that a stat which
  would be trusted belongs to that content (`RecordsHold`); that only one run is active
  (`Alone`); that the tables are in step in a version between the recorded and the
  installed one (`InStep`); and of each run what it has read so far (`RunHolds`).
  `QuietRunsAreExact` says what `indexer_shared_db` shows to fail without `Calm`: a run
  that nothing disturbs leaves the graph of the files. `TypeCorrect` and `CacheStaysTrue`
  hold without `Calm`, so for overlapping runs, coarse clocks and disturbed rebuilds too;
  their invariant `Typed` adds to the two only that a run parses nothing it has not seen.
* **`Daemon`** (`DaemonProofs`): `TypeCorrect` without any assumption, and, under
  `Undisturbed == DirsStay /\ QuickWatch /\ OwnDb /\ MayFail \subseteq {"scan"}`,
  `UpToDateIsCurrent`, `AnswersAreFresh` and `SyncedNeverBackwards`, all from `InvHolds`.
  The inductive invariant is built along the way an edit travels. `Watched`: a healthy
  watcher watches each directory, or has yet to hear of it. `Ordered`: `syncedSeq` is at
  most the sequence of a running sync, and that is at most `seq`. `Current`: if `seq` has
  not moved since a sync (or since the last published one) began, then what was found of a
  directory is what is in it, or the news of it is still in the kernel's queue. `InMemory`:
  the graph in memory is the one in the database except between a commit and the end of its
  sync. `CallHolds` carries this to the callers: each file that will make up an answer had
  that content at some moment of the call, even if another actor's sync made the graph.
  Each assumption is needed: without it TLC finds `FreshAnswers` violated.

* **`Sessions`** (`SessionsProofs`): `TypeCorrect`, `NeverEvictedInUse`, `OneOpenSession` and
  `HandlersStayFresh`, without any assumption on the environment. The inductive invariant
  has `Counted` (a session's use count is the number of calls that hold it, so an evicted
  session has none), `MapIsOpen` (what the map holds is open and of that path), `Locked`
  (only the holder of `sessionsMu` is between lookup and handler), `Loaded` (a session
  without a daemon that nobody has overtaken holds the graph that is in the database, unless
  a call is loading it, which is why an unchanged index needs no new graph) and `Since` (a
  handler saw its project at least as early as a call that refreshes the session for it).

* **`Reach`** (`AnalysisProofs`): `ReachTypeCorrect`, `ReachesExactly`, `CutsKeepNearest`,
  `NeighborhoodsAreExact` and `DeadIsDead`, for every finite graph, seed, set of kinds, depth and limit, and every order
  of edges. The inductive invariant says where levels come from (`Rooted`: level 0 is where
  the search starts; `Walked`: a walk as long as its level leads to each node seen), how far
  the search is (`Depths`, `Over`), what it has left behind (`Behind`: all edges that leave
  earlier levels were followed; `Ahead`: those of the frontier were, or are in `todo`), and
  what it collected (`Collected`, `Called`). That nothing is missed or found late is
  `WalkIsSeen`: a shortest walk to a node that was not seen in time would have a last node
  that was, whose edges were followed. It picks the shortest with `LeastNumber`, which
  stands in for induction. A truncated neighborhood is the first of the nodes seen, sorted
  by level; that so many come first, and none nearer is left out, is a lemma on ranks.

* **`Tools`** (`AnalysisProofs`): `ContextsAreWhole` and `SearchesAreHonest`, for every
  graph, index and limit. For a task context the invariant `ToolsInv` is about the seeds
  added so far (`Added`): the context lies between them and their neighbours, is all of
  these unless something was crowded out, and is larger than the limit by at most one
  symbol for each seed after the first. For a search it is enough that exact names, and
  they alone, have rank 0 (`SearchInv`); the rest is about what a cut after sorting keeps.

* **`CallPaths`** (`AnalysisProofs`): `PathsAreAll` and `TracesAreWhole`, for every finite
  graph with loops and parallel edges, any depth (a negative one counts as 0) and any
  limit. The invariant `PathsInv` says that each chain that is wanted is found or *ahead*:
  it goes over the calls on the stack up to one, and leaves this one over an edge that is
  still to be followed. No chain is both, so none is found twice, and with an empty stack
  all are found. A truncated search has found as many as it may. Of a call tree the
  invariant also says that what leads to a call on the stack was found before it.

* **`Components`** (`AnalysisProofs`): `CyclesAreRight`, for every graph and grouping with
  finitely many groups, whichever way Go walks its maps. The invariant of Tarjan's
  algorithm has `Numbering` (indices are the order of visits, of the stack and of the
  calls), `Linking` (what is on the stack leads to all above it and back to a call below
  it), `Lowness` (the low link of a call is the index of a group it leads to, and no more
  than that of any used by what was visited under it) and `Finished` (what left the stack
  uses nothing else, and its cycles are what was reported). TLC checked the invariant on
  small graphs before it was proved.

* **`UnifiedDiff` and `Impact`** (`ImpactProofs`): `LinesAreRead`, `TouchedTestsFound` and
  `BreachesAreReported`, from the patch to the answer, for every patch, graph, layout and
  rule set. It is assumed that a patch is a sequence of file patches with an old and a new
  path, not both `/dev/null`, that symbols are in files with a path, and that a pattern
  names a directory (`UnifiedDiffAssumption`, `ImpactAssumption`).
  - *Reading.* The invariant `ReadingInv` ties the parser to what git wrote: the text still
    to be read is the rest of the diff from a known line of a known file on; the `FileDiff`
    at hand knows what the lines before it said (`Knows`); and the two counters are the line
    numbers of the next line, for each side of which the hunk has a line left (`Counts`).
    The restriction is needed: git numbers a side without lines by the line before, and the
    counter of that side is wrong until the next hunk, where it is not used. What remains
    of a concatenation of lists is the subject of `RestsExist` in `ListProofs`.
  - *Mapping, selecting, linting.* `ImpactInv` adds that the files mapped are the first of
    the diff and what they hit is among the changed symbols (`MappingIs`), that for each
    symbol looked at the matches are the best there are (`SelectionIs`), and that nothing
    the rules forbid is missing (`ReportIs`). A later match must not replace a nearer one
    (`NoWorse`): this is what makes the order of the changed symbols indifferent.
    `ChainIsWithin` relates the breadth-first sets of `Reaching` to chains of calls, and
    `MatchesWhatLies` path patterns to the paths below a directory.

* **`Extraction`** and the plugins (`PassesProofs`): `CallsAttributed`, `GoCallsAttributed`,
  `PyCallsAttributed` and `TsCallsAttributed`, each of all files its grammar allows, without
  a bound on their size: `CallsAreAttributed` under the specification of that plugin alone.
  - *Trees.* `Around` is defined by recursion over the parents, which exists because a
    parent comes before its child (`IsTree`). The property of source order that makes byte
    ranges work is `GrownRight`: what is around a node is around all that comes between the
    two. `GrowsRight` shows that it stays when a node is added at the right edge.
    `SpansAreNesting` is what follows: a span holds a node exactly if its own node is that
    node or around it, and spans of nodes around each other do not get shorter.
  - *The walks.* `IsWalked` is the invariant until the calls are attributed: declarations
    and references stand on nodes that are no calls, and no node has two declarations.
    `NarrowestIsNearest` needs the latter: the spans of functions around one call are nested,
    often with the same end, and only their starts tell which is the narrowest.
    The plugins that look at the tree as it grows (generic, Go) and those that parse it when
    it is complete (Python, TypeScript) meet in it.
  - *Lists.* `FlattenHolds` says what is in a concatenation, and `ByLineKeeps` that sorting
    neither loses nor adds: no two references get one place (`PlacesAreDistinct`), and an
    injection of a finite set into itself is onto.

* **`Resolver`** (`PassesProofs`): `GraphStaysWhole`, `CallsReachTheNearest`,
  `InterfacesAreStructural` and `GraphIsSameAgain`, for any repository that is `Sound` (what pass 1 sees to:
  `dropOrphanRefs`, ids that begin with their file's path and tell names apart, finitely
  many bases), any order of files and any choice among suffixes.
  - *The graph.* The invariant `Inv` has `Reads` (the files in order are those of the
    repository, and `pick` chooses modules of the same family), `JobsHold` (each job left
    is that of a reference that exists, or of an interface pass), `Linked` (both ends of
    each edge so far have a node, exactly the edges of unknown targets lead to external
    nodes, and none leads into another family) and `AnswerHolds`. The lemmas go through the
    rules: each finds places of the index of the same family, and the last of each list is
    the external node, so that `Decide` always has one.
  - *What is recorded.* `RecordedHolds`: the edges are those of the jobs done, and no
    others. This is what lets a property speak of a reference after the run is over, and it
    needs that no step of a run changes what the index says (`SameIndex`).
  - *Types.* `UpTheBasesIs` is about the breadth-first search through bases. Its own
    invariant is that all types of the levels up to some d are seen and none beyond the
    next, and that the queue holds the rest of level d and then what is found of the next.
    Each turn that goes on takes a type from the queue, and only unseen types are added, so
    one turn for each base and one more are enough. `AboveIsLarge` says the same of the
    definition: levels that grow must stop growing after as many steps as there are bases.
    Together they give `HierarchyIsNearest`: the methods found are those of the nearest
    types that declare one.
  - *Two runs.* `SameGraphAgain` compares answers of different runs, so the invariant says
    of each answer what it is in terms of the files alone (`IsGraph`), and `OneGraph` that
    there is one such graph. Within a run, `InJobOrderHolds` says that each edge is as sure
    as the last job done that gives it. At the end this is the last reference of its file,
    or the interfaces of its family, and both do not depend on the order of files
    (`TheAnswerIsTheGraph`). From one run to the next, `GraphAgain` carries `IsGraph` over
    to a new order: what the index finds are *spots*, declarations of a file whatever its
    position (`Seen`), and one lemma for each part of the index shows that under `HasOneHome`
    these are functions of the repository: `DeclarationsAgain` (the last declaration of a
    name in a file, the one of a method), `TypesAgain` (of the lists of bases of a type one
    at most is not empty, and one file has a field), `ImportsAgain`, `HierarchyAgain`,
    `ReceiversAgain`, `InterfacesAgain`, and with these `RulesAgain`: the same rule decides
    on the same targets, as sure as before. It needs all of `HasOneHome`; the run
    `passes_again` shows what happens without.

* **`Passes`** (`PassesProofs`): `BothPassesHold`, from a syntax tree of any size in any of
  the languages to the graphs of any number of runs, with any other file of the repository.
  The theorems on `Resolver` take a repository to be `Sound`; `PassesInvHolds` shows that
  what pass 1 hands over is. Its part `FileInv` says so of the file read so far: an id begins
  with the file's path and ends in the name, bases are lists, and from the second walk on
  each reference comes from a declaration of the file. The generic plugins see to the last
  by dropping orphans; those of Python and TypeScript make references of declared nodes only
  (`PyParsed`, `TsParsed`); in Go all references are calls (`NoRefsYet`).
  - *Calls of Go.* `GoCallsLeadHome` states `CallsLeadHome` where the plugin is that of Go.
    The invariant `GoInv` says what the walk has told so far: functions stand at the top of
    a file, so the function around a variable is the only one (`IsGoTree`) and has a node of
    its own (`HasItsDecls`); of each variable and each field that shows a type one is
    recorded, and nothing is recorded that no declaration shows (`TellsVars`, `TellsFields`);
    and in the end the references are the calls, each from the nearest function around it
    (`TellsCalls`). So where all declarations show one type, that is what pass 2 reads
    (`PlainVarsAreTold`, `FieldsAreTold`). What is recorded is the bare name, and of the fields
    only those that have a name, under the nearest type around (`TheFieldIsPlain`): a plain
    field is one whose namesakes in the structs inside its type show the same. There `TheReceiverIs` follows a receiver of one or
    two parts, `TheHomeIsFound` says that a method declared once is found, and `TheEdgesAre`
    that the edges of a call alone on its line are those of its rule: without
    `InJobOrderHolds` they might be as sure as another reference's. That the type meant and the method are of one
    module (`IsMeant`) is what makes the answer right; the proof does not need it, as the
    code goes by the bare name.

  Recursive functions need care here: the SMT translation takes for granted that a function
  defined by recursion exists. So the lemma `Recursion` of `ListProofs` shows that it does,
  from the well-foundedness of the natural numbers, and what is proved of `Above`,
  `UpTheBases`, `Ranges` and `Reaching` starts from there.

Only model-checked: liveness (`CallsReturn`, `Drains`, `IdleIsClosed`), which TLAPS cannot
prove; and `CallsLeadHome` of Python and TypeScript: what is proved of pass 2 serves them as
well, but of their walks, which parse a tree when it is complete, it would need that they too
record each variable under the function around it, and none elsewhere.

## 5. Findings

1. `indexer_shared_db`: two processes on one database leave a graph that no later run
   repairs.
2. `daemon_recreated_dir`: a directory removed and made again is not watched again.
3. `daemon_stop`: a flush in flight sends on the closed batches channel.
4. `passes_again`: a call into a Go package of two files is resolved to its declaration or
   to nothing, as the order in which workers finish decides, so two runs over the same
   files give different graphs.

Not findings, but limits of the code a reader should know:

* Changes that reach the watcher as directory events only never wake the background loop,
  so without callers the index lags until some file changes.
* A file that cannot be read for a moment while an upgrade re-parses everything drops out of
  the graph and stays out until some file changes; then it comes back with the parse that
  the version before cached, as the hash still matches. `CalmRebuild` rules this out;
  without it and without `FineClock` only `CacheIsTrue` is left.
* A record is stamped with the time after all files were read, so a file changed twice
  within one time stamp around its read may be trusted for ever; `FineClock` rules it out,
  and without it TLC finds `QuietRunIsExact` violated.
* If another process indexes an edit first, the daemon keeps its old graph and takes it for
  current; `OwnDb` rules it out, and without it TLC finds `FreshAnswers` violated. A `Load`
  that fails after a commit has the same effect, and so does a session without a daemon.
* A deleted line is looked up by its old number among the spans of the new file, so that a
  patch which moves lines may blame a neighbour or nobody (`LosesLine`).
* In a patch, a deleted line that begins with `-- ` and an added one that begins with `++ `
  are read as headers and change the file's path.
* `SelectTests` drops the truncated flag of `ReverseReach`: beyond 2000 symbols tests may be
  missing without notice.
* The symbols of a deleted file are reported only if the graph still has them.
* A handler reads `sess.graph` several times, so one answer may be put together from two
  graphs, each of them fresh.
* Variables have no scopes below the function: of several declarations of a name in one
  function, blocks and closures included, the last with a visible type counts everywhere.
  The parameters of closures in Go and of functions inside methods in Python are ignored.
* `BaseTypeName` drops the package of a type since "pass 2 resolves them against the import
  map" (`util.go:82-84`), but pass 2 looks among all types of the bare name: with
  `var x sync.Mutex`, a call `x.Lock()` goes to a type `Mutex` of the repository if that has
  a method `Lock`, and the edge is called exact.
* An embedded field of a Go struct leaves no record (`golang.go:130`), so `r.B.f()` is not
  resolved by the type of `r.B`. The fields of a struct without a name are recorded under
  the type around (`golang.go:125`), and the last one counts: with
  `type A struct { y B; z struct { y C } }`, a call `r.y.f()` goes to `C.f`, and the edge is
  called exact. `CallsLeadHome` asks nothing of these calls, and nothing where types of one
  name from different modules compete.
* In TypeScript the variables of a method are recorded under `path:method`, while the
  method's id is `path:Class.method`, and those of an arrow function under the file
  (`typescript.go:415-421`): calls in the method do not find them, those of a function of the
  method's name do, although `ir.go:70` says "keyed by VarKey(enclosingNodeID, name)".
* In Python what a class inside `__init__` assigns to its own `self` is recorded as fields of
  the outer class.
* Each type named in the signature of a method of a Go interface counts as a base of the
  interface (`golang.go:146`), and the methods of an embedded interface are not required of
  what implements it.
* Two Go functions `init` of one file share one id.
* `get_task_context` adds each seed whether there is room or not, so an answer may have up to
  four symbols more than `limit`, "Maximum context nodes to return"
  (`tool_task_context.go:17`).
* `search_symbols` with a `kind` filters the hits of the index after cutting them to twice
  the limit: hits of other kinds may crowd out all of the kind asked for, and the answer is
  not marked truncated. A negative `limit` is used as the bound of a slice.
* `PathsBetween` follows edges of every kind, containment and imports too, and repeats a
  path for each choice among parallel edges, while `src/README.md:183` speaks of call paths.

## 6. What is not modelled, and the plan

| order | module | models | properties | theorems |
|---|---|---|---|---|
| 1 | `DaemonStore` | `Daemon` with its abstract promise: a graph that only moves forward in the history of the tree | refinement | step simulation |
| 2 | `PassesProofs` | | `CallsLeadHome` | a variable is recorded under the function around it, for Python and TypeScript |
| 3 | `Splitter`, `Condense` | `SplitIdentifier`, condensed graphs | against a definition | |

Outside stay the text of answers, the CLI's argument handling, `git`, the grammars, and the
first version of the pipeline (`pkg/parser`, `pkg/storage`), which nothing calls.
