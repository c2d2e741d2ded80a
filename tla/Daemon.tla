------------------------------- MODULE Daemon -------------------------------
(***************************************************************************)
(* daemon.Daemon (pkg/daemon): the graph of one project in memory, kept    *)
(* current by a background loop that indexes after every batch of the      *)
(* watcher, and by callers of FreshGraph that index themselves when the    *)
(* watcher has seen something since the last time.                         *)
(*                                                                         *)
(* A graph, in memory or in the database, is the content of each file it   *)
(* was built from.  One run of EnsureFresh reads the files one after the   *)
(* other and commits what it found, which is what Indexer proves of it.    *)
(***************************************************************************)
EXTENDS Watcher

CONSTANTS
    Callers,
    \* Assumptions about the environment, each TRUE or FALSE.
    OwnDb,       \* no other process indexes this project
    MayFail      \* the steps of a sync that may fail: "scan", up to the commit
                 \* of EnsureFresh, and "load", after it

VARIABLES
    db,         \* the graph in the database
    graph,      \* d.graph, meaningless until `synced`
    synced, syncedSeq,
    watching,   \* status.IsWatching
    background, \* where Start, and then the event loop, is
    syncMu,     \* who holds it, or Free
    sync,       \* caller, or the background -> its run of syncInternal
    call,       \* caller -> its call of FreshGraph
    since       \* caller -> directory -> every content its file had since the
                \* call, and any at all if news of it was still under way then
                \* (history only)

daemonVars == <<db, graph, synced, syncedSeq, watching, background, syncMu, sync, call,
                since>>
vars == <<watcherVars, daemonVars>>

ASSUME DaemonFlagsAssumption ==
    OwnDb \in BOOLEAN /\ MayFail \subseteq {"scan", "load"}

Graphs == [Dirs -> Files]
NoGraph == [d \in Dirs |-> Empty]

Background == "background"
Free == "free"
ASSUME CallersAssumption == Background \notin Callers /\ Free \notin Callers
Actors == Callers \cup {Background}

NoSync == [pc |-> "none", seq |-> 0, stored |-> NoGraph, found |-> NoGraph, todo |-> {}]

NoCall == [pc |-> "idle", seq |-> 0, answer |-> NoGraph, error |-> FALSE]

\* The database holds whatever an earlier run left in it.
Init ==
    /\ WatcherInit
    /\ db \in Graphs
    /\ graph = NoGraph /\ synced = FALSE /\ syncedSeq = 0
    /\ watching = FALSE
    /\ background = "lock"
    /\ syncMu = Free
    /\ sync = [a \in Actors |-> NoSync]
    /\ call = [c \in Callers |-> NoCall]
    /\ since = [c \in Callers |-> [d \in Dirs |-> {}]]

-----------------------------------------------------------------------------
(* syncInternal.                                                           *)

Waiting(a) == IF a = Background THEN background = "lock" ELSE call[a].pc = "lock"

Go(a, s) == /\ sync' = [sync EXCEPT ![a] = s]
            /\ UNCHANGED <<watcherVars, graph, synced, syncedSeq, watching, background, call, since>>

Begun(a) == [pc |-> "scan", seq |-> seq, stored |-> db, found |-> NoGraph, todo |-> Dirs]

\* A slip: no lock.
BeginAnyway(a) ==
    /\ sync[a].pc = "none" /\ Waiting(a)
    /\ Go(a, Begun(a))
    /\ UNCHANGED <<db, syncMu>>

\* Take the lock, read the sequence, then the file records.
LockSync(a) ==
    /\ syncMu = Free /\ Waiting(a)
    /\ syncMu' = a
    /\ Go(a, Begun(a))
    /\ UNCHANGED db

ScanDir(a, d) ==
    /\ sync[a].pc = "scan" /\ d \in sync[a].todo
    /\ Go(a, [sync[a] EXCEPT !.found[d] = FileIn(d), !.todo = @ \ {d}])
    /\ UNCHANGED <<db, syncMu>>

\* A graph is loaded if EnsureFresh says that something changed, or the first time.
AfterIndex(a) == IF sync[a].found # sync[a].stored \/ ~ synced THEN "load" ELSE "keep"

\* A slip: reading the sequence only once the indexing is done.
IndexThenSeq(a) ==
    /\ sync[a].pc = "scan" /\ sync[a].todo = {}
    /\ db' = sync[a].found
    /\ Go(a, [sync[a] EXCEPT !.pc = AfterIndex(a), !.seq = seq])
    /\ UNCHANGED syncMu

\* EnsureFresh commits what it found.
Index(a) ==
    /\ sync[a].pc = "scan" /\ sync[a].todo = {}
    /\ db' = sync[a].found
    /\ Go(a, [sync[a] EXCEPT !.pc = AfterIndex(a)])
    /\ UNCHANGED syncMu

Load(a) ==
    /\ sync[a].pc = "load"
    /\ Go(a, [sync[a] EXCEPT !.pc = "swap", !.found = db])
    /\ UNCHANGED <<db, syncMu>>

\* syncInternal returns, and its caller goes on.  Start starts the event loops
\* after a first sync that worked; after one that did not, the daemon is stopped.
Finish(a, error) ==
    /\ sync' = [sync EXCEPT ![a] = NoSync]
    /\ UNCHANGED since
    /\ IF a # Background
       THEN /\ call' = [call EXCEPT ![a].pc = IF error THEN "done" ELSE "read",
                                    ![a].error = error]
            /\ UNCHANGED <<watcherVars, watching, background>>
       ELSE /\ UNCHANGED call
            /\ IF loop # "off" THEN background' = "wait" /\ UNCHANGED <<watcherVars, watching>>
               ELSE /\ background' = IF error THEN "exit" ELSE "wait"
                    /\ watching' = ~ error
                    /\ loop' = IF error THEN "closed" ELSE "on"
                    /\ UNCHANGED <<tree, edits, watches, events, watched, current, seq,
                                   degraded, pending, flushing, batches>>

\* Swap the graph if a new one was loaded, and remember the sequence.
Publish(a) ==
    /\ sync[a].pc \in {"swap", "keep"}
    /\ graph' = IF sync[a].pc = "swap" THEN sync[a].found ELSE graph
    /\ syncedSeq' = sync[a].seq
    /\ synced' = TRUE
    /\ syncMu' = Free
    /\ Finish(a, FALSE)
    /\ UNCHANGED db

\* A slip: leaving syncMu locked on the way out with an error.
FailLocked(a) ==
    /\ sync[a].pc \in MayFail
    /\ Finish(a, TRUE)
    /\ UNCHANGED <<db, graph, synced, syncedSeq, syncMu>>

\* EnsureFresh fails before its commit, or Load after it.
FailSync(a) ==
    /\ sync[a].pc \in MayFail
    /\ syncMu' = Free
    /\ Finish(a, TRUE)
    /\ UNCHANGED <<db, graph, synced, syncedSeq>>

-----------------------------------------------------------------------------
(* The event loop of the daemon.                                           *)

TakeBatch == /\ background = "wait" /\ batches > 0
             /\ background' = "lock"
             /\ batches' = batches - 1
             /\ UNCHANGED <<tree, edits, watches, events, watched, current, seq, degraded,
                            pending, flushing, loop>>
             /\ UNCHANGED <<db, graph, synced, syncedSeq, watching, syncMu, sync, call, since>>

LeaveLoop == /\ background = "wait" /\ loop \in {"closed", "ended"}
             /\ background' = "exit"
             /\ UNCHANGED <<watcherVars, db, graph, synced, syncedSeq, watching, syncMu, sync, call, since>>

\* Stop, which sessions keep apart from any call of FreshGraph.
Stop == /\ loop = "on" /\ \A c \in Callers : call[c].pc = "idle"
        /\ loop' = "closed"
        /\ watching' = FALSE
        /\ UNCHANGED <<tree, edits, watches, events, watched, current, seq, degraded,
                       pending, flushing, batches>>
        /\ UNCHANGED <<db, graph, synced, syncedSeq, background, syncMu, sync, call, since>>

-----------------------------------------------------------------------------
(* FreshGraph.                                                             *)

\* upToDate looks at the flags and the watcher's sequence ...
Call(c) ==
    /\ loop = "on" /\ call[c].pc = "idle"
    /\ call' = [call EXCEPT ![c] =
                  IF watching /\ synced /\ ~ degraded
                  THEN [NoCall EXCEPT !.pc = "compare", !.seq = seq]
                  ELSE [NoCall EXCEPT !.pc = "lock"]]
    /\ since' = [since EXCEPT ![c] =
                  [d \in Dirs |-> IF Unheard(d) THEN Files ELSE {FileIn(d)}]]
    /\ UNCHANGED <<watcherVars, db, graph, synced, syncedSeq, watching, background, syncMu, sync>>

\* A slip: taking a graph that is as new as any event for current enough.
CompareSynced(c) ==
    /\ call[c].pc = "compare"
    /\ call' = [call EXCEPT ![c].pc = IF synced THEN "read" ELSE "lock"]
    /\ UNCHANGED <<watcherVars, db, graph, synced, syncedSeq, watching, background, syncMu, sync, since>>

\* ... and then at the sequence of the last sync.
Compare(c) ==
    /\ call[c].pc = "compare"
    /\ call' = [call EXCEPT ![c].pc = IF call[c].seq = syncedSeq THEN "read" ELSE "lock"]
    /\ UNCHANGED <<watcherVars, db, graph, synced, syncedSeq, watching, background, syncMu, sync, since>>

ReadGraph(c) ==
    /\ call[c].pc = "read"
    /\ call' = [call EXCEPT ![c].pc = "done", ![c].answer = graph]
    /\ UNCHANGED <<watcherVars, db, graph, synced, syncedSeq, watching, background, syncMu, sync, since>>

Return(c) ==
    /\ call[c].pc = "done"
    /\ call' = [call EXCEPT ![c] = NoCall]
    /\ since' = [since EXCEPT ![c] = [d \in Dirs |-> {}]]
    /\ UNCHANGED <<watcherVars, db, graph, synced, syncedSeq, watching, background, syncMu, sync>>

-----------------------------------------------------------------------------
(* What goes on around.                                                    *)

\* Calls in progress see an edit happen.
Witnessed ==
    /\ since' = [c \in Callers |-> [d \in Dirs |->
                    IF call[c].pc = "idle" THEN {} ELSE since[c][d] \cup {FileIn(d)'}]]
    /\ UNCHANGED <<db, graph, synced, syncedSeq, watching, background, syncMu, sync, call>>

\* `graphcontext index` or `run` brings the same database up to date, whatever locks are held
\* in this process.
OtherProcess ==
    /\ ~ OwnDb
    /\ db' = [d \in Dirs |-> FileIn(d)]
    /\ UNCHANGED <<watcherVars, graph, synced, syncedSeq, watching, background, syncMu, sync, call, since>>

\* The process dies with all that was going on in it.
Panic ==
    /\ SendOnClosed
    /\ sync' = [a \in Actors |-> NoSync] /\ syncMu' = Free /\ background' = "exit"
    /\ UNCHANGED <<db, graph, synced, syncedSeq, watching, call, since>>

SyncStep(a) == (\E d \in Dirs : ScanDir(a, d)) \/ Index(a) \/ Load(a) \/ Publish(a) \/ FailSync(a)

CallStep(c) == Compare(c) \/ ReadGraph(c) \/ Return(c)

Next ==
    \/ \E d \in Dirs, c \in Contents : WriteFile(d, c) /\ Witnessed
    \/ \E d \in Dirs : RemoveFile(d) /\ Witnessed
    \/ \E d \in Dirs, c \in Files : MakeDir(d, c) /\ Witnessed
    \/ \E d \in Dirs : RemoveDir(d) /\ Witnessed
    \/ OtherProcess
    \/ TakeEvent /\ UNCHANGED daemonVars
    \/ TakeError /\ UNCHANGED daemonVars
    \/ HandleDir /\ UNCHANGED daemonVars
    \/ HandleFile /\ UNCHANGED daemonVars
    \/ EndLoop /\ UNCHANGED daemonVars
    \/ Flush /\ UNCHANGED daemonVars
    \/ Send /\ UNCHANGED daemonVars
    \/ \E a \in Actors : LockSync(a) \/ SyncStep(a)
    \/ TakeBatch \/ LeaveLoop \/ Stop \/ Panic
    \/ \E c \in Callers : Call(c) \/ CallStep(c)

\* Every goroutine is scheduled, the debounce timer fires once nothing resets
\* it any more, and a Go mutex goes to whoever waits for it long enough.
Fairness ==
    /\ WF_vars(EventLoop /\ UNCHANGED daemonVars)
    /\ WF_vars(Flush /\ UNCHANGED daemonVars)
    /\ WF_vars(Send /\ UNCHANGED daemonVars)
    /\ WF_vars(TakeBatch)
    /\ \A a \in Actors : SF_vars(LockSync(a)) /\ WF_vars(SyncStep(a))
    /\ \A c \in Callers : WF_vars(CallStep(c))

Spec == Init /\ [][Next]_vars
FairSpec == Spec /\ Fairness

-----------------------------------------------------------------------------
(* What must hold.                                                         *)

Sync == [pc : {"none", "scan", "load", "keep", "swap"}, seq : Nat,
         stored : Graphs, found : Graphs, todo : SUBSET Dirs]

TypeOK ==
    /\ WatcherTypeOK
    /\ db \in Graphs /\ graph \in Graphs
    /\ synced \in BOOLEAN /\ syncedSeq \in Nat
    /\ watching \in BOOLEAN
    /\ background \in {"lock", "wait", "exit"}
    /\ syncMu \in Actors \cup {Free}
    /\ sync \in [Actors -> Sync]
    /\ call \in [Callers -> [pc : {"idle", "compare", "lock", "read", "done"}, seq : Nat,
                             answer : Graphs, error : BOOLEAN]]
    /\ since \in [Callers -> [Dirs -> SUBSET Files]]

\* What upToDate stands for: whenever the flags and the two sequences would let
\* FreshGraph skip the disk, the graph in memory has the present content of
\* every file, but for news that is still on its way to the watcher.
UpToDateMeansCurrent ==
    watching /\ synced /\ ~ degraded /\ seq = syncedSeq =>
        \A d \in Dirs : graph[d] = FileIn(d) \/ Unheard(d)

\* FreshGraph "returns a graph that reflects the files on disk right now": each
\* file is as it was at some moment of the call, unless news of it was still on
\* its way to the watcher when the call began.
FreshAnswers ==
    \A c \in Callers : call[c].pc = "done" /\ ~ call[c].error =>
        \A d \in Dirs : call[c].answer[d] \in since[c][d]

\* Syncs are published in the order they read the disk, whoever ran them: the
\* sequence never goes back.
NeverBackwards == [][syncedSeq' >= syncedSeq]_vars

\* Every call of FreshGraph returns, whoever else wants the lock.
CallsReturn == \A c \in Callers : call[c].pc # "idle" ~> call[c].pc = "idle"

\* Once the edits have come to an end, so do the syncs: no event, pending
\* change, flush or batch is left behind while the watcher runs.
Drains ==
    <>[](loop = "on" => /\ events = <<>> /\ current = Absent
                        /\ pending = [d \in Dirs |-> "none"]
                        /\ flushing = 0 /\ batches = 0 /\ background = "wait")

\* Stopping the daemon never brings the process down.
NeverPanics == loop # "panicked"
=============================================================================
