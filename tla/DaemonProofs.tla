---------------------------- MODULE DaemonProofs ----------------------------
(***************************************************************************)
(* Proofs about Daemon, for any number of directories, contents and        *)
(* callers and whatever the limits are, where its assumptions hold: a      *)
(* directory that was watched does not come back, nobody edits a new one   *)
(* before it is watched, no other process indexes the project, and a sync  *)
(* fails before its commit or not at all.                                  *)
(***************************************************************************)
EXTENDS Daemon, TLAPS

\* The kernel's queue is longer than its limit only by the mark of an overflow.
Bounded == Len(events) = MaxEvents + 1 => events[Len(events)] = Overflow

Typed == TypeOK /\ Bounded

Undisturbed == DirsStay /\ QuickWatch /\ OwnDb /\ MayFail \subseteq {"scan"}

-----------------------------------------------------------------------------
(* The inductive invariant, in named parts.                                *)

\* The creation of d is in the kernel's queue, or was dropped from it.
Announced(d) ==
    \E i \in 1 .. Len(events) : events[i] = [dir |-> d, op |-> "mkdir"] \/ events[i] = Overflow

\* A healthy watcher watches every directory there is, but for those it is yet
\* to hear of, or just about to watch.
Watched ==
    \A d \in Dirs : tree[d] # Absent =>
        /\ d \in watched => d \in watches
        /\ d \in watches \/ degraded \/ Announced(d) \/ current = [dir |-> d, op |-> "mkdir"]

Running(a) == sync[a].pc # "none"

\* Who syncs holds the lock, and calls run only while the event loop does.
Locks ==
    /\ \A a \in Actors : Running(a) => syncMu = a
    /\ \A c \in Callers : /\ Running(c) => call[c].pc = "lock"
                          /\ call[c].pc # "idle" => loop = "on"
    /\ loop = "panicked" => background = "exit" /\ syncMu = Free

Ordered ==
    /\ syncedSeq <= seq
    /\ \A a \in Actors : Running(a) => syncedSeq <= sync[a].seq /\ sync[a].seq <= seq

\* The graph in memory is the one in the database, unless a sync is between its
\* commit and its end.
InMemory ==
    /\ \A a \in Actors :
          /\ sync[a].pc = "scan" => sync[a].stored = db
          /\ sync[a].pc \in {"load", "keep", "swap"} => sync[a].found = db /\ sync[a].todo = {}
          /\ sync[a].pc = "keep" => graph = db
    /\ synced /\ loop # "panicked" /\ (\A a \in Actors : sync[a].pc \in {"none", "scan"})
          => graph = db

\* If the sequence is still s, then g has what is in d, or what it has not
\* is still on its way to the watcher.
Follows(s, g, d) == degraded \/ seq # s \/ g[d] = FileIn(d) \/ Unheard(d)

\* What a sync has found, and what was published.
Current ==
    /\ \A a \in Actors : Running(a) =>
          \A d \in Dirs \ sync[a].todo : Follows(sync[a].seq, sync[a].found, d)
    /\ synced => \A d \in Dirs : Follows(syncedSeq, graph, d)

\* Every file a sync has read so far was so during the call.
FoundSince(c, a) == \A d \in Dirs \ sync[a].todo : sync[a].found[d] \in since[c][d]

GraphSince(c) == \A d \in Dirs : graph[d] \in since[c][d]

CallHolds(c) ==
    /\ call[c].pc # "idle" => \A d \in Dirs : FileIn(d) \in since[c][d]
    /\ call[c].pc = "compare" =>
          /\ synced /\ call[c].seq <= seq
          /\ call[c].seq <= syncedSeq => GraphSince(c)
          /\ \A a \in Actors : Running(a) /\ call[c].seq <= sync[a].seq => FoundSince(c, a)
    /\ call[c].pc = "lock" /\ Running(c) => FoundSince(c, c)
    /\ call[c].pc = "read" =>
          GraphSince(c) /\ \A a \in Actors : Running(a) => FoundSince(c, a)
    /\ call[c].pc = "done" /\ ~ call[c].error =>
          \A d \in Dirs : call[c].answer[d] \in since[c][d]

Inv == /\ Typed /\ Watched /\ Locks /\ Ordered /\ InMemory /\ Current
       /\ \A c \in Callers : CallHolds(c)

-----------------------------------------------------------------------------
(* Types.                                                                  *)

Ops == FileOps \cup {"mkdir", "rmdir"}

\* A notification lands in the queue or is marked as dropped, and nothing that
\* was in it is lost.
LEMMA Notified ==
    ASSUME Typed, NEW d \in Dirs, NEW op \in Ops, Notify(d, op)
    PROVE  /\ events' \in Seq(Event \cup {Overflow}) /\ Len(events') <= MaxEvents + 1
           /\ Bounded'
           /\ Unheard(d)' /\ (op = "mkdir" => Announced(d)')
           /\ \A e : (Unheard(e) => Unheard(e)') /\ (Announced(e) => Announced(e)')
<1>1. /\ events \in Seq(Event \cup {Overflow}) /\ Len(events) \in Nat /\ MaxEvents \in Nat \ {0}
      /\ Len(events) <= MaxEvents + 1
  BY BoundsAssumption DEF Typed, TypeOK, WatcherTypeOK
<1>2. [dir |-> d, op |-> op] \in Event
  BY DEF Event, Ops
<1>3. CASE events' = events
  <2>1. Len(events) >= MaxEvents /\ events[Len(events)] = Overflow
    <3>1. ~ Len(events) < MaxEvents /\ events[Len(events)] = Overflow
      BY <1>1, <1>2, <1>3 DEF Notify
    <3>. QED BY <3>1, <1>1
  <2>2. Len(events) \in 1 .. Len(events)
    BY <1>1, <2>1
  <2>. QED BY <1>1, <1>3, <2>1, <2>2 DEF Typed, Bounded, Unheard, Announced
<1>4. CASE \E ev \in Event \cup {Overflow} :
             /\ events' = Append(events, ev)
             /\ ev = [dir |-> d, op |-> op] \/ ev = Overflow
             /\ Len(events) < MaxEvents \/ (Len(events) # MaxEvents + 1 /\ ev = Overflow)
  <2>1. PICK ev \in Event \cup {Overflow} :
             /\ events' = Append(events, ev)
             /\ ev = [dir |-> d, op |-> op] \/ ev = Overflow
             /\ Len(events) < MaxEvents \/ (Len(events) # MaxEvents + 1 /\ ev = Overflow)
    BY <1>4
  <2>2. /\ events' \in Seq(Event \cup {Overflow}) /\ Len(events') = Len(events) + 1
        /\ events'[Len(events) + 1] = ev
        /\ \A i \in 1 .. Len(events) : events'[i] = events[i]
    BY <1>1, <2>1
  <2>3. /\ Len(events) + 1 \in 1 .. Len(events')
        /\ 1 .. Len(events) \subseteq 1 .. Len(events')
    BY <1>1, <2>2
  <2>4. Len(events') <= MaxEvents + 1 /\ Bounded'
    BY <1>1, <2>1, <2>2 DEF Bounded
  <2>5. Unheard(d)' /\ (op = "mkdir" => Announced(d)')
    BY <2>1, <2>2, <2>3 DEF Unheard, Announced
  <2>6. \A e : (Unheard(e) => Unheard(e)') /\ (Announced(e) => Announced(e)')
    BY <2>2, <2>3 DEF Unheard, Announced
  <2>. QED BY <2>2, <2>4, <2>5, <2>6
<1>. QED
  <2>1. Len(events) = MaxEvents + 1 => events[Len(events)] = Overflow
    BY DEF Typed, Bounded
  <2>. QED BY <1>2, <1>3, <1>4, <2>1 DEF Notify

\* The same where the kernel may not be watching.
LEMMA NotifiedIfWatched ==
    ASSUME Typed, NEW d \in Dirs, NEW op \in FileOps, NotifyWatched(d, op)
    PROVE  /\ events' \in Seq(Event \cup {Overflow}) /\ Len(events') <= MaxEvents + 1
           /\ Bounded'
           /\ d \in watches => Unheard(d)'
           /\ \A e : (Unheard(e) => Unheard(e)') /\ (Announced(e) => Announced(e)')
<1>1. CASE d \in watches
  BY <1>1, Notified DEF NotifyWatched, Ops
<1>2. CASE d \notin watches
  BY <1>2 DEF NotifyWatched, Typed, TypeOK, WatcherTypeOK, Bounded, Unheard, Announced
<1>. QED BY <1>1, <1>2

\* What the four kinds of edit have in common.
EditOf(d) ==
    \/ \E c \in Contents : WriteFile(d, c)
    \/ RemoveFile(d)
    \/ \E c \in Files : MakeDir(d, c)
    \/ RemoveDir(d)

\* An edit of the tree or of a file.
LEMMA EditTyped ==
    ASSUME Typed, NEW d \in Dirs, EditOf(d), Witnessed
    PROVE  /\ Typed'
           /\ \A e : (Unheard(e) => Unheard(e)') /\ (Announced(e) => Announced(e)')
<1>1. /\ events' \in Seq(Event \cup {Overflow}) /\ Len(events') <= MaxEvents + 1 /\ Bounded'
      /\ \A e : (Unheard(e) => Unheard(e)') /\ (Announced(e) => Announced(e)')
  BY Notified, NotifiedIfWatched
  DEF EditOf, WriteFile, RemoveFile, MakeDir, RemoveDir, FileOps, Ops
<1>2. /\ tree' \in Trees /\ edits' \in 0 .. MaxEdits /\ watches' \in SUBSET Dirs
  <2>1. PICK new \in Files \cup {Absent} : Edit(d, new)
    BY DEF EditOf, WriteFile, RemoveFile, MakeDir, RemoveDir, Files
  <2>2. tree' \in Trees /\ edits' \in 0 .. MaxEdits
    BY <2>1, BoundsAssumption DEF Edit, Typed, TypeOK, WatcherTypeOK, Trees
  <2>3. watches' \in SUBSET Dirs
    BY DEF EditOf, WriteFile, RemoveFile, MakeDir, RemoveDir, Typed, TypeOK, WatcherTypeOK
  <2>. QED BY <2>2, <2>3
<1>3. UNCHANGED <<watched, current, seq, degraded, pending, flushing, batches, loop>>
  BY DEF EditOf, WriteFile, RemoveFile, MakeDir, RemoveDir, Edit
<1>4. WatcherTypeOK'
  BY <1>1, <1>2, <1>3 DEF Typed, TypeOK, WatcherTypeOK
<1>5. since' \in [Callers -> [Dirs -> SUBSET Files]]
  <2>1. \A e \in Dirs : FileIn(e)' \in Files
    BY <1>2 DEF FileIn, Trees, Files
  <2>. QED BY <2>1 DEF Witnessed, Typed, TypeOK
<1>. QED BY <1>1, <1>4, <1>5 DEF Witnessed, Typed, TypeOK

\* The event loop and the debouncer.
LEMMA WatcherTyped ==
    ASSUME Typed, UNCHANGED daemonVars,
           EventLoop \/ Flush \/ Send
    PROVE  Typed'
<1>1. WatcherTypeOK /\ events \in Seq(Event \cup {Overflow}) /\ Len(events) \in Nat
      /\ seq \in Nat /\ flushing \in Nat /\ MaxEvents \in Nat
  BY BoundsAssumption DEF Typed, TypeOK, WatcherTypeOK
<1>2. CASE TakeEvent \/ TakeError
  <2>1. events # <<>> /\ events' = Tail(events)
    BY <1>2 DEF TakeEvent, TakeError
  <2>2. events' \in Seq(Event \cup {Overflow}) /\ Len(events') = Len(events) - 1
    BY <1>1, <2>1
  <2>3. Head(events) \in Event \cup {Overflow}
    BY <1>1, <2>1
  <2>4. Len(events') < MaxEvents + 1
    BY <1>1, <2>2 DEF WatcherTypeOK
  <2>5. /\ current' \in Event \cup {Absent} /\ seq' \in Nat /\ degraded' \in BOOLEAN
        /\ UNCHANGED <<tree, edits, watches, watched, pending, flushing, batches, loop>>
    <3>1. CASE TakeEvent
      BY <1>1, <2>3, <3>1 DEF WatcherTypeOK, TakeEvent
    <3>2. CASE TakeError
      BY <1>1, <3>2 DEF WatcherTypeOK, TakeError
    <3>. QED BY <1>2, <3>1, <3>2
  <2>6. WatcherTypeOK'
    BY <1>1, <2>2, <2>4, <2>5 DEF WatcherTypeOK
  <2>. QED BY <2>4, <2>6, <1>1, <2>2 DEF Typed, TypeOK, Bounded, daemonVars
<1>3. CASE HandleDir
  <2>1. current \in Event
    BY <1>1, <1>3 DEF HandleDir, WatcherTypeOK
  <2>2. current.dir \in Dirs
    BY <2>1 DEF Event
  <2>3. watches' \in SUBSET Dirs /\ watched' \in SUBSET Dirs /\ degraded' \in BOOLEAN
    BY <1>1, <1>3, <2>2 DEF HandleDir, WatchTree, WatcherTypeOK
  <2>. QED BY <1>1, <1>3, <2>3 DEF HandleDir, Typed, TypeOK, WatcherTypeOK, Bounded, daemonVars
<1>4. CASE HandleFile
  <2>1. current \in Event
    BY <1>1, <1>4 DEF HandleFile, WatcherTypeOK
  <2>2. current.dir \in Dirs /\ current.op \in FileOps
    BY <1>4, <2>1 DEF Event, HandleFile
  <2>3. \A exists \in BOOLEAN : DetermineOp(current.op, exists) \in {"create", "modify", "delete"}
    BY <2>2 DEF DetermineOp, FileOps
  <2>4. \A x \in {"none", "create", "modify", "delete"}, y \in {"create", "modify", "delete"} :
           CoalesceOperations(x, y) \in {"none", "create", "modify", "delete"}
    BY DEF CoalesceOperations
  <2>5. pending' \in [Dirs -> {"none", "create", "modify", "delete"}]
    <3>. DEFINE op == DetermineOp(current.op, tree[current.dir] \in Contents)
    <3>1. Record(current.dir, op) /\ op \in {"create", "modify", "delete"}
      <4>1. Record(current.dir, op)
        BY <1>4 DEF HandleFile
      <4>2. (tree[current.dir] \in Contents) \in BOOLEAN
        OBVIOUS
      <4>. QED BY <4>1, <4>2, <2>3
    <3>2. pending \in [Dirs -> {"none", "create", "modify", "delete"}]
      BY <1>1 DEF WatcherTypeOK
    <3>3. CoalesceOperations(pending[current.dir], op) \in {"none", "create", "modify", "delete"}
      BY <2>2, <2>4, <3>1, <3>2
    <3>. HIDE DEF op
    <3>. QED BY <2>2, <3>1, <3>2, <3>3 DEF Record
  <2>. QED BY <1>1, <1>4, <2>5 DEF HandleFile, Typed, TypeOK, WatcherTypeOK, Bounded, daemonVars
<1>5. CASE EndLoop \/ Flush \/ Send
  BY <1>1, <1>5, BoundsAssumption
  DEF EndLoop, Flush, Send, Typed, TypeOK, WatcherTypeOK, Bounded, daemonVars
<1>. QED BY <1>2, <1>3, <1>4, <1>5 DEF EventLoop

Calls == [pc : {"idle", "compare", "lock", "read", "done"}, seq : Nat,
          answer : Graphs, error : BOOLEAN]

\* The state of an actor that does nothing is of the right type.
LEMMA IdleTyped == NoGraph \in Graphs /\ NoSync \in Sync
<1>1. NoGraph \in Graphs
  BY DEF NoGraph, Graphs, Files
<1>. QED BY <1>1 DEF NoSync, Sync

\* A sync.
LEMMA SyncTyped ==
    ASSUME Typed, NEW a \in Actors, LockSync(a) \/ SyncStep(a)
    PROVE  Typed'
<1>1. /\ TypeOK /\ sync \in [Actors -> Sync] /\ sync[a] \in Sync /\ sync[a].pc \in {"none", "scan", "load", "keep", "swap"}
      /\ sync[a].seq \in Nat /\ sync[a].found \in Graphs /\ sync[a].todo \in SUBSET Dirs
  BY DEF Typed, TypeOK, Sync
<1>2. ASSUME NEW s \in Sync, Go(a, s), db' \in Graphs, syncMu' \in Actors \cup {Free}
      PROVE  Typed'
  <2>1. sync' \in [Actors -> Sync]
    BY <1>1, <1>2 DEF Go
  <2>. QED BY <2>1, <1>2 DEF Go, Typed, TypeOK, WatcherTypeOK, Bounded, watcherVars
<1>3. CASE LockSync(a)
  <2>1. Begun(a) \in Sync
    BY <1>1, IdleTyped DEF Begun, Sync, TypeOK, WatcherTypeOK
  <2>. QED BY <1>1, <1>2, <1>3, <2>1 DEF LockSync, TypeOK
<1>4. ASSUME NEW d \in Dirs, ScanDir(a, d) PROVE Typed'
  <2>1. FileIn(d) \in Files
    BY DEF FileIn, Typed, TypeOK, WatcherTypeOK, Trees, Files
  <2>2. [sync[a].found EXCEPT ![d] = FileIn(d)] \in Graphs
    BY <1>1, <2>1 DEF Graphs
  <2>3. [sync[a] EXCEPT !.found[d] = FileIn(d), !.todo = @ \ {d}] \in Sync
    BY <1>1, <2>2 DEF Sync
  <2>. QED BY <1>1, <1>2, <1>4, <2>3 DEF ScanDir, TypeOK
<1>5. CASE Index(a)
  <2>1. [sync[a] EXCEPT !.pc = AfterIndex(a)] \in Sync
    BY <1>1 DEF AfterIndex, Sync
  <2>. QED BY <1>1, <1>2, <1>5, <2>1 DEF Index, TypeOK
<1>6. CASE Load(a)
  <2>1. [sync[a] EXCEPT !.pc = "swap", !.found = db] \in Sync
    BY <1>1 DEF Sync, TypeOK
  <2>. QED BY <1>1, <1>2, <1>6, <2>1 DEF Load, TypeOK
<1>7. ASSUME NEW error \in BOOLEAN, Finish(a, error), db' \in Graphs, graph' \in Graphs,
             synced' \in BOOLEAN, syncedSeq' \in Nat, syncMu' = Free
      PROVE  Typed'
  <2>1. sync' \in [Actors -> Sync]
    BY <1>1, <1>7, IdleTyped DEF Finish
  <2>2. /\ call' \in [Callers -> [pc : {"idle", "compare", "lock", "read", "done"}, seq : Nat,
                                  answer : Graphs, error : BOOLEAN]]
        /\ background' \in {"lock", "wait", "exit"} /\ watching' \in BOOLEAN
        /\ loop' \in {"off", "on", "closed", "ended", "panicked"}
    <3>1. /\ background \in {"lock", "wait", "exit"} /\ watching \in BOOLEAN
          /\ loop \in {"off", "on", "closed", "ended", "panicked"}
          /\ call \in [Callers -> Calls]
      BY <1>1 DEF TypeOK, WatcherTypeOK, Calls
    <3>2. CASE a = Background
      BY <1>7, <3>1, <3>2 DEF Finish, watcherVars, Calls
    <3>3. CASE a # Background
      <4>1. a \in Callers /\ call[a] \in Calls
        BY <3>1, <3>3 DEF Actors
      <4>2. [call[a] EXCEPT !.pc = IF error THEN "done" ELSE "read", !.error = error] \in Calls
        BY <1>7, <4>1 DEF Calls
      <4>3. call' = [call EXCEPT ![a] = [call[a] EXCEPT !.pc = IF error THEN "done" ELSE "read",
                                                        !.error = error]]
        BY <1>7, <3>1, <3>3, <4>1 DEF Finish, Calls
      <4>4. call' \in [Callers -> Calls]
        BY <3>1, <4>1, <4>2, <4>3
      <4>. QED BY <1>7, <3>1, <3>3, <4>4 DEF Finish, watcherVars, Calls
    <3>. QED BY <3>2, <3>3
  <2>3. UNCHANGED <<since, tree, edits, watches, events, watched, current, seq, degraded,
                    pending, flushing, batches>>
    BY <1>7 DEF Finish, watcherVars
  <2>. QED BY <1>7, <2>1, <2>2, <2>3 DEF Typed, TypeOK, WatcherTypeOK, Bounded
<1>8. CASE Publish(a)
  BY <1>1, <1>7, <1>8 DEF Publish, TypeOK
<1>9. CASE FailSync(a)
  BY <1>1, <1>7, <1>9 DEF FailSync, TypeOK
<1>. QED BY <1>3, <1>4, <1>5, <1>6, <1>8, <1>9 DEF SyncStep

\* A call.
LEMMA CallTyped ==
    ASSUME Typed, NEW c \in Callers, Call(c) \/ CallStep(c)
    PROVE  Typed'
<1>1. /\ TypeOK /\ call \in [Callers -> Calls] /\ call[c] \in Calls /\ NoCall \in Calls
      /\ seq \in Nat /\ graph \in Graphs
  BY IdleTyped DEF Typed, TypeOK, WatcherTypeOK, NoCall, Calls
<1>2. call' \in [Callers -> Calls]
  <2>1. ASSUME NEW s \in Calls, call' = [call EXCEPT ![c] = s] PROVE call' \in [Callers -> Calls]
    BY <1>1, <2>1
  <2>2. CASE Call(c)
    <3>1. /\ [NoCall EXCEPT !.pc = "compare", !.seq = seq] \in Calls
          /\ [NoCall EXCEPT !.pc = "lock"] \in Calls
      BY <1>1 DEF Calls
    <3>. QED BY <1>1, <2>2, <3>1 DEF Call
  <2>3. CASE Compare(c)
    BY <1>1, <2>3 DEF Compare, Calls
  <2>4. CASE ReadGraph(c)
    BY <1>1, <2>4 DEF ReadGraph, Calls
  <2>5. CASE Return(c)
    BY <1>1, <2>1, <2>5 DEF Return
  <2>. QED BY <2>2, <2>3, <2>4, <2>5 DEF CallStep
<1>3. since' \in [Callers -> [Dirs -> SUBSET Files]]
  <2>1. \A d \in Dirs : FileIn(d) \in Files
    BY <1>1 DEF FileIn, TypeOK, WatcherTypeOK, Trees, Files
  <2>2. CASE Call(c)
    <3>1. [d \in Dirs |-> IF Unheard(d) THEN Files ELSE {FileIn(d)}] \in [Dirs -> SUBSET Files]
      BY <2>1
    <3>. QED BY <1>1, <2>2, <3>1 DEF Call, TypeOK
  <2>3. CASE CallStep(c)
    BY <1>1, <2>3 DEF CallStep, Compare, ReadGraph, Return, TypeOK
  <2>. QED BY <2>2, <2>3
<1>4. UNCHANGED <<watcherVars, db, graph, synced, syncedSeq, watching, background, syncMu, sync>>
  BY DEF Call, CallStep, Compare, ReadGraph, Return
<1>. QED BY <1>2, <1>3, <1>4 DEF Typed, TypeOK, WatcherTypeOK, Bounded, watcherVars, Calls

\* The rest.
LEMMA OtherTyped ==
    ASSUME Typed, TakeBatch \/ LeaveLoop \/ Stop \/ Panic \/ OtherProcess
    PROVE  Typed'
<1>1. CASE LeaveLoop \/ Stop
  BY <1>1 DEF LeaveLoop, Stop, Typed, TypeOK, WatcherTypeOK, Bounded, watcherVars
<1>4. CASE TakeBatch
  <2>1. batches' \in 0 .. MaxBatches
    BY <1>4, BoundsAssumption DEF TakeBatch, Typed, TypeOK, WatcherTypeOK
  <2>. QED BY <1>4, <2>1 DEF TakeBatch, Typed, TypeOK, WatcherTypeOK, Bounded
<1>2. CASE Panic
  <2>1. sync' \in [Actors -> Sync]
    BY <1>2, IdleTyped DEF Panic
  <2>. QED BY <1>2, <2>1 DEF Panic, SendOnClosed, Typed, TypeOK, WatcherTypeOK, Bounded
<1>3. CASE OtherProcess
  <2>1. db' \in Graphs
    BY <1>3 DEF OtherProcess, FileIn, Graphs, Files, Typed, TypeOK, WatcherTypeOK, Trees
  <2>. QED BY <1>3, <2>1 DEF OtherProcess, Typed, TypeOK, WatcherTypeOK, Bounded, watcherVars
<1>. QED BY <1>1, <1>2, <1>3, <1>4

\* Every step keeps the types.
LEMMA TypedNext == ASSUME Typed, [Next]_vars PROVE Typed'
<1>1. CASE UNCHANGED vars
  BY <1>1 DEF vars, watcherVars, daemonVars, Typed, TypeOK, WatcherTypeOK, Bounded
<1>2. ASSUME NEW d \in Dirs, EditOf(d), Witnessed PROVE Typed'
  BY <1>2, EditTyped
<1>3. ASSUME EventLoop \/ Flush \/ Send, UNCHANGED daemonVars PROVE Typed'
  BY <1>3, WatcherTyped
<1>4. ASSUME NEW a \in Actors, LockSync(a) \/ SyncStep(a) PROVE Typed'
  BY <1>4, SyncTyped
<1>5. ASSUME NEW c \in Callers, Call(c) \/ CallStep(c) PROVE Typed'
  BY <1>5, CallTyped
<1>6. ASSUME TakeBatch \/ LeaveLoop \/ Stop \/ Panic \/ OtherProcess PROVE Typed'
  BY <1>6, OtherTyped
<1>. QED BY <1>1, <1>2, <1>3, <1>4, <1>5, <1>6 DEF Next, EditOf, EventLoop

\* The initial state is of the right types.
LEMMA TypedInit == ASSUME Init PROVE Typed
<1>1. WatcherTypeOK /\ Bounded
  BY BoundsAssumption DEF Init, WatcherInit, WatcherTypeOK, Bounded
<1>2. background \in {"lock", "wait", "exit"} /\ syncMu \in Actors \cup {Free}
  BY DEF Init
<1>. QED BY <1>1, <1>2, IdleTyped DEF Init, Typed, TypeOK, NoCall

-----------------------------------------------------------------------------
(* Edits, and the watcher's own steps.                                     *)

\* What was dropped from the queue is marked there, so nothing announced is unheard of.
LEMMA AnnouncedUnheard == ASSUME NEW d, Announced(d) PROVE Unheard(d)
  BY DEF Announced, Unheard

\* A healthy watcher gets word of every edit.
LEMMA EditHeard ==
    ASSUME Undisturbed, Inv, NEW d \in Dirs, EditOf(d), Witnessed
    PROVE  \A e \in Dirs : FileIn(e)' = FileIn(e) \/ Unheard(e)' \/ degraded
<1>. SUFFICES ASSUME NEW e \in Dirs PROVE FileIn(e)' = FileIn(e) \/ Unheard(e)' \/ degraded
  OBVIOUS
<1>1. Typed /\ tree \in [Dirs -> Files \cup {Absent}]
  BY DEF Inv, Typed, TypeOK, WatcherTypeOK, Trees
<1>2. PICK new : Edit(d, new)
  BY DEF EditOf, WriteFile, RemoveFile, MakeDir, RemoveDir
<1>3. CASE e # d
  BY <1>1, <1>2, <1>3 DEF Edit, FileIn
<1>4. CASE e = d
  <2>1. CASE (\E c \in Files : MakeDir(d, c)) \/ RemoveDir(d)
    BY <1>1, <1>4, <2>1, Notified DEF MakeDir, RemoveDir, Ops
  <2>2. CASE (\E c \in Contents : WriteFile(d, c)) \/ RemoveFile(d)
    <3>1. PICK op \in FileOps : NotifyWatched(d, op)
      BY <2>2 DEF WriteFile, RemoveFile, FileOps
    <3>2. tree[d] # Absent
      BY <2>2, MarksAssumption DEF WriteFile, RemoveFile, Files
    <3>3. ~ AboutToWatch(d)
      BY <1>2 DEF Edit, Undisturbed
    <3>4. d \in watches \/ degraded \/ Unheard(d)
      BY <3>2, <3>3, AnnouncedUnheard DEF Inv, Watched, AboutToWatch
    <3>. QED BY <1>1, <1>4, <3>1, <3>4, NotifiedIfWatched
  <2>. QED BY <2>1, <2>2 DEF EditOf
<1>. QED BY <1>3, <1>4

\* An edit keeps the invariant: its news is queued, and nothing takes the old graph for new.
LEMMA EditHolds ==
    ASSUME Undisturbed, Inv, NEW d \in Dirs, EditOf(d), Witnessed
    PROVE  Inv'
<1>1. /\ Typed' /\ Typed /\ TypeOK
      /\ \A e : (Unheard(e) => Unheard(e)') /\ (Announced(e) => Announced(e)')
  BY EditTyped DEF Inv, Typed
<1>2. PICK new : Edit(d, new)
  BY DEF EditOf, WriteFile, RemoveFile, MakeDir, RemoveDir
<1>3. /\ UNCHANGED <<watched, current, seq, degraded, loop>>
      /\ UNCHANGED <<db, graph, synced, syncedSeq, watching, background, syncMu, sync, call>>
  BY <1>2 DEF Edit, Witnessed
<1>4. Watched'
  <2>. SUFFICES ASSUME NEW e \in Dirs, tree'[e] # Absent
                PROVE  /\ e \in watched => e \in watches'
                       /\ \/ e \in watches' \/ degraded \/ Announced(e)'
                          \/ current = [dir |-> e, op |-> "mkdir"]
    BY <1>3 DEF Watched
  <2>1. tree \in [Dirs -> Files \cup {Absent}]
    BY <1>1 DEF TypeOK, WatcherTypeOK, Trees
  <2>2. CASE e # d
    <3>1. tree[e] # Absent
      BY <1>2, <2>1, <2>2 DEF Edit
    <3>2. e \in watches => e \in watches'
      BY <2>2 DEF EditOf, WriteFile, RemoveFile, MakeDir, RemoveDir
    <3>. QED BY <1>1, <3>1, <3>2 DEF Inv, Watched
  <2>3. CASE e = d /\ ((\E c \in Contents : WriteFile(d, c)) \/ RemoveFile(d))
    <3>1. tree[d] # Absent /\ watches' = watches
      BY <2>3, MarksAssumption DEF WriteFile, RemoveFile, Files
    <3>. QED BY <1>1, <2>3, <3>1 DEF Inv, Watched
  <2>4. CASE e = d /\ \E c \in Files : MakeDir(d, c)
    BY <1>1, <2>4, Notified DEF MakeDir, Undisturbed, Ops
  <2>5. CASE e = d /\ RemoveDir(d)
    <3>1. tree'[d] = Absent
      BY <2>1, <2>5 DEF RemoveDir, Edit
    <3>. QED BY <2>5, <3>1
  <2>. QED BY <2>2, <2>3, <2>4, <2>5 DEF EditOf
<1>5. \A s, g : \A e \in Dirs : Follows(s, g, e) => Follows(s, g, e)'
  BY <1>1, <1>3, EditHeard DEF Follows
<1>6. Locks' /\ Ordered' /\ InMemory'
  BY <1>3 DEF Inv, Locks, Ordered, InMemory, Running
<1>7. Current'
  BY <1>3, <1>5 DEF Inv, Current, Running
<1>8. ASSUME NEW c \in Callers PROVE CallHolds(c)'
  <2>1. CASE call[c].pc = "idle"
    BY <1>3, <2>1 DEF CallHolds
  <2>2. CASE call[c].pc # "idle"
    <3>1. \A e \in Dirs : since'[c][e] = since[c][e] \cup {FileIn(e)'}
      BY <2>2 DEF Witnessed
    <3>2. CallHolds(c)
      BY DEF Inv
    <3>3. GraphSince(c) => GraphSince(c)'
      BY <1>3, <3>1 DEF GraphSince
    <3>4. \A a \in Actors : FoundSince(c, a) => FoundSince(c, a)'
      BY <1>3, <3>1 DEF FoundSince
    <3>. QED BY <1>3, <2>2, <3>1, <3>2, <3>3, <3>4 DEF CallHolds, Running, Actors
  <2>. QED BY <2>1, <2>2
<1>. QED BY <1>1, <1>4, <1>6, <1>7, <1>8 DEF Inv

\* A step of the watcher changes no file and no graph: it is enough that what
\* followed the disk still does.
LEMMA GraphsKept ==
    ASSUME Inv, Typed', Watched', Locks',
           UNCHANGED <<tree, db, graph, synced, syncedSeq, syncMu, sync, call, since>>,
           seq <= seq', loop' # "panicked" => loop # "panicked",
           \A s \in Nat : \A g : \A e \in Dirs : s <= seq /\ Follows(s, g, e) => Follows(s, g, e)'
    PROVE  Inv'
<1>1. /\ seq \in Nat /\ seq' \in Nat /\ syncedSeq \in Nat
      /\ \A a \in Actors : sync[a].seq \in Nat
      /\ \A c \in Callers : call[c].seq \in Nat
  BY DEF Inv, Typed, TypeOK, WatcherTypeOK, Sync
<1>2. Ordered'
  BY <1>1 DEF Inv, Ordered, Running
<1>3. InMemory'
  BY DEF Inv, InMemory
<1>4. Current'
  BY <1>1 DEF Inv, Current, Ordered, Running
<1>5. ASSUME NEW c \in Callers PROVE CallHolds(c)'
  <2>1. CallHolds(c)
    BY DEF Inv
  <2>2. \A e \in Dirs : FileIn(e)' = FileIn(e)
    BY DEF FileIn
  <2>3. (GraphSince(c) <=> GraphSince(c)') /\ \A a : FoundSince(c, a) <=> FoundSince(c, a)'
    BY DEF GraphSince, FoundSince
  <2>. QED BY <1>1, <2>1, <2>2, <2>3 DEF CallHolds, Running
<1>. QED BY <1>2, <1>3, <1>4, <1>5 DEF Inv

\* Receiving an event moves the sequence on, and nothing follows the old one.
LEMMA TakeEventHolds ==
    ASSUME Inv, TakeEvent, UNCHANGED daemonVars
    PROVE  Inv'
<1>1. /\ Typed' /\ events \in Seq(Event \cup {Overflow}) /\ seq \in Nat
  BY WatcherTyped DEF EventLoop, Inv, Typed, TypeOK, WatcherTypeOK
<1>2. /\ events # <<>> /\ Len(events) \in Nat
      /\ Len(events') = Len(events) - 1
      /\ \A i \in 2 .. Len(events) : i - 1 \in 1 .. Len(events') /\ events'[i - 1] = events[i]
      /\ current' = events[1] /\ events[1] # Overflow /\ seq' = seq + 1
      /\ UNCHANGED <<tree, watches, watched, degraded, loop>>
  BY <1>1 DEF TakeEvent
<1>3. ASSUME NEW d \in Dirs, Announced(d)
      PROVE  Announced(d)' \/ current' = [dir |-> d, op |-> "mkdir"]
  <2>1. PICK i \in 1 .. Len(events) : events[i] = [dir |-> d, op |-> "mkdir"] \/ events[i] = Overflow
    BY <1>3 DEF Announced
  <2>2. CASE i = 1
    BY <1>2, <2>1, <2>2
  <2>3. CASE i # 1
    <3>1. i \in 2 .. Len(events)
      BY <1>2, <2>1, <2>3
    <3>. QED BY <1>2, <2>1, <3>1 DEF Announced
  <2>. QED BY <2>2, <2>3
<1>4. \A d \in Dirs : current # [dir |-> d, op |-> "mkdir"]
  <2>1. \A d \in Dirs : [dir |-> d, op |-> "mkdir"] \in Event
    BY DEF Event
  <2>. QED BY <2>1, EventAssumption DEF TakeEvent
<1>5. Watched'
  BY <1>2, <1>3, <1>4 DEF Inv, Watched
<1>6. \A s \in Nat : \A g : \A e \in Dirs : s <= seq => Follows(s, g, e)'
  BY <1>1, <1>2 DEF Follows
<1>7. Locks' /\ seq <= seq'
  BY <1>1, <1>2 DEF Inv, Locks, Running, daemonVars
<1>. QED BY <1>1, <1>2, <1>5, <1>6, <1>7, GraphsKept DEF daemonVars

\* After an error nothing is trusted any more.
LEMMA TakeErrorHolds ==
    ASSUME Inv, TakeError, UNCHANGED daemonVars
    PROVE  Inv'
<1>1. Typed' /\ seq \in Nat
  BY WatcherTyped DEF EventLoop, Inv, Typed, TypeOK, WatcherTypeOK
<1>2. Watched' /\ Locks'
  BY DEF TakeError, Inv, Watched, Locks, Running, daemonVars
<1>3. \A s \in Nat : \A g : \A e \in Dirs : Follows(s, g, e)'
  BY DEF TakeError, Follows
<1>. QED BY <1>1, <1>2, <1>3, GraphsKept DEF TakeError, daemonVars

\* The directory whose event was counted gets its watch, unless it had one.
LEMMA HandleDirHolds ==
    ASSUME Inv, HandleDir, UNCHANGED daemonVars
    PROVE  Inv'
<1>1. /\ Typed' /\ seq \in Nat /\ Watched /\ current \in Event /\ degraded \in BOOLEAN
      /\ watched \in SUBSET Dirs /\ watches \in SUBSET Dirs
  BY WatcherTyped DEF EventLoop, Inv, Typed, TypeOK, WatcherTypeOK, HandleDir
<1>2. /\ UNCHANGED <<tree, events, seq, loop>>
      /\ degraded => degraded'
      /\ watches \subseteq watches' /\ watched \subseteq watched'
      /\ watched' \ watched \subseteq watches'
  BY <1>1 DEF HandleDir, WatchTree
<1>3. ASSUME NEW d \in Dirs, tree[d] # Absent, current = [dir |-> d, op |-> "mkdir"]
      PROVE  d \in watches' \/ degraded'
  <2>1. WatchTree(d)
    BY <1>3 DEF HandleDir
  <2>. QED BY <1>1, <1>2, <1>3, <2>1 DEF WatchTree, Watched
<1>4. \A d \in Dirs : Announced(d) => Announced(d)'
  BY <1>2 DEF Announced
<1>5. Watched'
  BY <1>1, <1>2, <1>3, <1>4 DEF Watched
<1>6. \A s \in Nat : \A g : \A e \in Dirs : Follows(s, g, e) => Follows(s, g, e)'
  BY <1>2 DEF Follows, FileIn, Unheard
<1>7. Locks'
  BY <1>2 DEF Inv, Locks, Running, daemonVars
<1>. QED BY <1>1, <1>2, <1>5, <1>6, <1>7, GraphsKept DEF daemonVars

\* Steps that touch neither tree, events, watches nor graphs.
LEMMA AsideHolds ==
    ASSUME Inv, Typed',
           UNCHANGED <<tree, events, watches, watched, seq, degraded>>,
           UNCHANGED <<db, graph, synced, syncedSeq, syncMu, sync, call, since>>,
           \A d \in Dirs : current = [dir |-> d, op |-> "mkdir"] => current' = current,
           Locks', loop' # "panicked" => loop # "panicked"
    PROVE  Inv'
<1>1. seq \in Nat
  BY DEF Inv, Typed, TypeOK, WatcherTypeOK
<1>2. Watched'
  BY DEF Inv, Watched, Announced
<1>3. \A s \in Nat : \A g : \A e \in Dirs : Follows(s, g, e) => Follows(s, g, e)'
  BY DEF Follows, FileIn, Unheard
<1>. QED BY <1>1, <1>2, <1>3, GraphsKept

\* The debouncer, Stop, the background loop and other processes keep the invariant.
LEMMA OtherStepsHold ==
    ASSUME Inv,
           \/ (HandleFile \/ EndLoop \/ Flush \/ Send) /\ UNCHANGED daemonVars
           \/ TakeBatch \/ LeaveLoop \/ Stop \/ UNCHANGED vars
    PROVE  Inv'
<1>1. Typed'
  BY TypedNext, WatcherTyped, OtherTyped DEF Inv, EventLoop
<1>2. CASE HandleFile /\ UNCHANGED daemonVars
  <2>1. \A d \in Dirs : current # [dir |-> d, op |-> "mkdir"]
    BY <1>2 DEF HandleFile, FileOps
  <2>2. Locks'
    BY <1>2 DEF HandleFile, daemonVars, Inv, Locks, Running
  <2>. QED BY <1>1, <1>2, <2>1, <2>2, AsideHolds DEF HandleFile, daemonVars
<1>3. CASE (Flush \/ Send) /\ UNCHANGED daemonVars
  <2>1. Locks'
    BY <1>3 DEF Flush, Send, daemonVars, Inv, Locks, Running
  <2>. QED BY <1>1, <1>3, <2>1, AsideHolds DEF Flush, Send, daemonVars
<1>4. CASE EndLoop /\ UNCHANGED daemonVars
  <2>1. Locks'
    BY <1>4 DEF EndLoop, daemonVars, Inv, Locks, Running
  <2>. QED BY <1>1, <1>4, <2>1, AsideHolds DEF EndLoop, daemonVars
<1>5. CASE TakeBatch
  <2>1. Locks'
    BY <1>5 DEF TakeBatch, Inv, Locks, Running
  <2>. QED BY <1>1, <1>5, <2>1, AsideHolds DEF TakeBatch
<1>6. CASE LeaveLoop
  <2>1. Locks'
    BY <1>6 DEF LeaveLoop, watcherVars, Inv, Locks, Running
  <2>. QED BY <1>1, <1>6, <2>1, AsideHolds DEF LeaveLoop, watcherVars
<1>7. CASE Stop
  <2>1. Locks'
    BY <1>7 DEF Stop, Inv, Locks, Running
  <2>. QED BY <1>1, <1>7, <2>1, AsideHolds DEF Stop
<1>8. CASE UNCHANGED vars
  <2>1. Locks'
    BY <1>8 DEF vars, watcherVars, daemonVars, Inv, Locks, Running
  <2>. QED BY <1>1, <1>8, <2>1, AsideHolds DEF vars, watcherVars, daemonVars
<1>. QED BY <1>2, <1>3, <1>4, <1>5, <1>6, <1>7, <1>8

\* The process dies only after Stop, when no call is in progress.
LEMMA PanicHolds == ASSUME Inv, Panic PROVE Inv'
<1>1. /\ Typed' /\ seq \in Nat /\ loop = "ended" /\ loop' = "panicked"
      /\ \A a \in Actors : sync'[a].pc = "none"
      /\ \A c \in Callers : call'[c].pc = "idle"
      /\ UNCHANGED <<tree, watches, watched, events, current, seq, degraded,
                     db, graph, synced, syncedSeq, call>>
      /\ background' = "exit" /\ syncMu' = Free
  BY OtherTyped DEF Panic, SendOnClosed, Inv, Typed, TypeOK, WatcherTypeOK, Locks, NoSync
<1>2. Watched' /\ Ordered' /\ Locks'
  BY <1>1 DEF Inv, Watched, Announced, Ordered, Locks, Running, Actors
<1>3. InMemory'
  BY <1>1 DEF InMemory
<1>4. Current'
  <2>1. \A d \in Dirs : Follows(syncedSeq, graph, d) <=> Follows(syncedSeq, graph, d)'
    BY <1>1 DEF Follows, FileIn, Unheard
  <2>. QED BY <1>1, <2>1 DEF Inv, Current, Running
<1>5. \A c \in Callers : CallHolds(c)'
  BY <1>1 DEF CallHolds
<1>. QED BY <1>1, <1>2, <1>3, <1>4, <1>5 DEF Inv

-----------------------------------------------------------------------------
(* Syncs.                                                                  *)

\* The lock keeps all other syncs out.
LEMMA OneSync ==
    ASSUME Inv, NEW a \in Actors, Running(a)
    PROVE  /\ syncMu = a /\ loop # "panicked"
           /\ \A b \in Actors : b # a => ~ Running(b)
<1>1. a # Free
  BY CallersAssumption DEF Actors, Background, Free
<1>. QED BY <1>1 DEF Inv, Locks

\* A step inside a sync: what the other parts of the invariant ask of it.
LEMMA InsideHolds ==
    ASSUME Inv, Typed', NEW a \in Actors, NEW s \in Sync, Go(a, s),
           \A b \in Actors : b # a => ~ Running(b),
           s.pc # "none", syncMu' = a, a # Background => Waiting(a), loop # "panicked",
           syncedSeq <= s.seq, s.seq <= seq,
           InMemory',
           \A d \in Dirs \ s.todo :
               \/ s.found[d] = FileIn(d)
               \/ /\ Running(a) /\ d \notin sync[a].todo
                  /\ s.found[d] = sync[a].found[d] /\ s.seq = sync[a].seq
    PROVE  Inv'
<1>1. /\ sync' = [sync EXCEPT ![a] = s]
      /\ UNCHANGED <<tree, watches, events, watched, current, seq, degraded, loop>>
      /\ UNCHANGED <<graph, synced, syncedSeq, background, call, since>>
  BY DEF Go, watcherVars
<1>2. sync'[a] = s /\ \A b \in Actors : b # a => sync'[b] = sync[b] /\ ~ Running(b)'
  BY <1>1 DEF Inv, Typed, TypeOK, Running
<1>3. Watched'
  BY <1>1 DEF Inv, Watched, Announced
<1>4. Locks'
  <2>1. \A c \in Callers : Running(c)' => c = a /\ call[c].pc = "lock"
    BY <1>2, CallersAssumption DEF Waiting, Actors
  <2>. QED BY <1>1, <1>2, <2>1 DEF Inv, Locks
<1>5. Ordered'
  BY <1>1, <1>2 DEF Inv, Ordered
<1>6. \A d \in Dirs : FileIn(d)' = FileIn(d) /\ (Unheard(d)' <=> Unheard(d))
  BY <1>1 DEF FileIn, Unheard
<1>7. Current'
  <2>1. ASSUME NEW d \in Dirs \ s.todo PROVE Follows(s.seq, s.found, d)'
    BY <1>1, <1>6 DEF Follows, Inv, Current
  <2>2. synced => \A d \in Dirs : Follows(syncedSeq, graph, d)'
    BY <1>1, <1>6 DEF Follows, Inv, Current
  <2>. QED BY <1>1, <1>2, <2>1, <2>2 DEF Current
<1>8. ASSUME NEW c \in Callers PROVE CallHolds(c)'
  <2>1. CallHolds(c) /\ (GraphSince(c)' <=> GraphSince(c))
    BY <1>1 DEF Inv, GraphSince
  <2>2. ASSUME call[c].pc # "idle",
               Running(a) /\ s.seq = sync[a].seq => FoundSince(c, a)
        PROVE  FoundSince(c, a)'
    <3>1. ASSUME NEW d \in Dirs \ s.todo PROVE s.found[d] \in since[c][d]
      BY <2>1, <2>2, <3>1 DEF CallHolds, FoundSince
    <3>. QED BY <1>1, <1>2, <3>1 DEF FoundSince
  <2>. QED BY <1>1, <1>2, <1>6, <2>1, <2>2 DEF CallHolds, Actors
<1>. QED BY <1>3, <1>4, <1>5, <1>7, <1>8 DEF Inv

\* Taking the lock starts a sync with the sequence of that moment.
LEMMA LockSyncHolds == ASSUME Inv, NEW a \in Actors, LockSync(a) PROVE Inv'
<1>1. Typed' /\ Typed /\ seq \in Nat /\ syncedSeq \in Nat /\ sync \in [Actors -> Sync]
  BY SyncTyped DEF Inv, Typed, TypeOK, WatcherTypeOK
<1>2. \A b \in Actors : ~ Running(b)
  <2>1. \A b \in Actors : b # Free
    BY CallersAssumption DEF Actors, Background, Free
  <2>. QED BY <2>1 DEF LockSync, Inv, Locks
<1>3. loop # "panicked"
  BY DEF LockSync, Waiting, Inv, Locks, Actors
<1>4. Begun(a) \in Sync
  BY <1>1, IdleTyped DEF Begun, Sync, Typed, TypeOK
<1>5. /\ sync'[a] = Begun(a) /\ \A b \in Actors : b # a => sync'[b] = sync[b]
      /\ UNCHANGED <<db, graph, synced, loop>>
  BY <1>1 DEF LockSync, Go, watcherVars
<1>6. InMemory'
  BY <1>2, <1>3, <1>5 DEF Inv, InMemory, Running, Begun
<1>7. Waiting(a) /\ syncMu' = a /\ Go(a, Begun(a))
  BY DEF LockSync
<1>8. syncedSeq <= Begun(a).seq /\ Begun(a).seq <= seq /\ Begun(a).pc # "none" /\ Begun(a).todo = Dirs
  BY <1>1 DEF Begun, Inv, Ordered
<1>. QED BY <1>1, <1>2, <1>3, <1>4, <1>6, <1>7, <1>8, InsideHolds

\* A sync that runs still wants what it waited for.
LEMMA StillWaiting ==
    ASSUME Inv, NEW a \in Actors, Running(a), a # Background
    PROVE  Waiting(a)
  BY DEF Inv, Locks, Waiting, Actors

\* What a sync has read of a directory is what was there, or its change is still unheard.
LEMMA ScanDirHolds ==
    ASSUME Inv, NEW a \in Actors, NEW d \in Dirs, ScanDir(a, d)
    PROVE  Inv'
<1>. DEFINE s == [sync[a] EXCEPT !.found[d] = FileIn(d), !.todo = @ \ {d}]
<1>1. /\ Typed' /\ sync \in [Actors -> Sync] /\ sync[a] \in Sync
      /\ sync[a].found \in [Dirs -> Files] /\ sync[a].todo \subseteq Dirs
  BY SyncTyped DEF SyncStep, Inv, Typed, TypeOK, Sync, Graphs
<1>2. Running(a) /\ Go(a, s) /\ UNCHANGED <<db, syncMu>>
  BY DEF ScanDir, Running
<1>3. /\ sync'[a] = s /\ \A b \in Actors : b # a => sync'[b] = sync[b]
      /\ UNCHANGED <<graph, synced, loop>>
  BY <1>1, <1>2 DEF Go, watcherVars
<1>4. /\ s.pc = "scan" /\ sync[a].pc = "scan" /\ s.stored = sync[a].stored
      /\ s.seq = sync[a].seq /\ s.todo = sync[a].todo \ {d}
      /\ s.found[d] = FileIn(d) /\ \A e \in Dirs \ {d} : s.found[e] = sync[a].found[e]
  BY <1>1 DEF ScanDir, Sync
<1>5. s \in Sync
  <2>1. sync' \in [Actors -> Sync]
    BY <1>1 DEF Typed, TypeOK
  <2>. QED BY <1>3, <2>1
<1>. HIDE DEF s
<1>6. InMemory'
  BY <1>2, <1>3, <1>4 DEF Inv, InMemory
<1>7. syncedSeq <= s.seq /\ s.seq <= seq
  BY <1>2, <1>4 DEF Inv, Ordered
<1>8. \A e \in Dirs \ s.todo : \/ s.found[e] = FileIn(e)
                               \/ e \notin sync[a].todo /\ s.found[e] = sync[a].found[e]
  BY <1>4
<1>. QED BY <1>1, <1>2, <1>4, <1>5, <1>6, <1>7, <1>8, OneSync, StillWaiting, InsideHolds

\* After the commit the database has what was found, and if that is no change
\* then so has the graph in memory.
LEMMA IndexHolds == ASSUME Inv, NEW a \in Actors, Index(a) PROVE Inv'
<1>. DEFINE s == [sync[a] EXCEPT !.pc = AfterIndex(a)]
<1>1. Typed' /\ sync \in [Actors -> Sync] /\ sync[a] \in Sync
  BY SyncTyped DEF SyncStep, Inv, Typed, TypeOK
<1>2. Running(a) /\ Go(a, s) /\ db' = sync[a].found /\ UNCHANGED syncMu
  BY DEF Index, Running
<1>3. /\ sync'[a] = s /\ \A b \in Actors : b # a => sync'[b] = sync[b]
      /\ UNCHANGED <<graph, synced, loop>>
  BY <1>1, <1>2 DEF Go, watcherVars
<1>4. /\ s.pc = AfterIndex(a) /\ sync[a].pc = "scan" /\ sync[a].todo = {}
      /\ s.seq = sync[a].seq /\ s.todo = {} /\ s.found = sync[a].found
  BY <1>1 DEF Index, Sync
<1>5. s \in Sync
  <2>1. sync' \in [Actors -> Sync]
    BY <1>1 DEF Typed, TypeOK
  <2>. QED BY <1>3, <2>1
<1>. HIDE DEF s
<1>6. s.pc \in {"load", "keep"}
  BY <1>4 DEF AfterIndex
<1>7. \A b \in Actors : b # a => sync[b].pc = "none"
  BY <1>2, OneSync DEF Running
<1>8. s.pc = "keep" => graph' = db'
  <2>1. ASSUME s.pc = "keep" PROVE graph = sync[a].found
    <3>1. sync[a].found = sync[a].stored /\ synced
      BY <1>4, <2>1 DEF AfterIndex
    <3>2. \A b \in Actors : sync[b].pc \in {"none", "scan"}
      BY <1>4, <1>7
    <3>3. loop # "panicked"
      BY <1>2, OneSync
    <3>. QED BY <1>4, <3>1, <3>2, <3>3 DEF Inv, InMemory
  <2>. QED BY <1>2, <1>3, <2>1
<1>9. InMemory'
  BY <1>2, <1>3, <1>4, <1>6, <1>7, <1>8 DEF InMemory
<1>10. syncedSeq <= s.seq /\ s.seq <= seq
  BY <1>2, <1>4 DEF Inv, Ordered
<1>. QED BY <1>1, <1>2, <1>4, <1>5, <1>6, <1>9, <1>10, OneSync, StillWaiting, InsideHolds

\* Loading gives the graph of the tables just written.
LEMMA LoadHolds == ASSUME Inv, NEW a \in Actors, Load(a) PROVE Inv'
<1>. DEFINE s == [sync[a] EXCEPT !.pc = "swap", !.found = db]
<1>1. Typed' /\ sync \in [Actors -> Sync] /\ sync[a] \in Sync
  BY SyncTyped DEF SyncStep, Inv, Typed, TypeOK
<1>2. Running(a) /\ Go(a, s) /\ UNCHANGED <<db, syncMu>>
  BY DEF Load, Running
<1>3. /\ sync'[a] = s /\ \A b \in Actors : b # a => sync'[b] = sync[b]
      /\ UNCHANGED <<graph, synced, loop>>
  BY <1>1, <1>2 DEF Go, watcherVars
<1>4. /\ s.pc = "swap" /\ sync[a].pc = "load" /\ sync[a].todo = {} /\ sync[a].found = db
      /\ s.seq = sync[a].seq /\ s.todo = {} /\ s.found = db
  BY <1>1 DEF Load, Sync, Inv, InMemory
<1>5. s \in Sync
  <2>1. sync' \in [Actors -> Sync]
    BY <1>1 DEF Typed, TypeOK
  <2>. QED BY <1>3, <2>1
<1>. HIDE DEF s
<1>6. InMemory'
  BY <1>2, <1>3, <1>4 DEF Inv, InMemory
<1>7. syncedSeq <= s.seq /\ s.seq <= seq
  BY <1>2, <1>4 DEF Inv, Ordered
<1>. QED BY <1>1, <1>2, <1>4, <1>5, <1>6, <1>7, OneSync, StillWaiting, InsideHolds

\* What the end of a sync leaves of the locks, for whoever ran it.
LEMMA FinishFrees ==
    ASSUME Inv, NEW a \in Actors, Running(a), NEW error \in BOOLEAN, Finish(a, error),
           syncMu' = Free
    PROVE  /\ \A b \in Actors : ~ Running(b)'
           /\ Locks' /\ loop' # "panicked"
           /\ UNCHANGED <<tree, watches, events, watched, current, seq, degraded, since>>
           /\ \A c \in Callers : IF c = a THEN /\ call[c].pc = "lock"
                                               /\ call'[c].pc = IF error THEN "done" ELSE "read"
                                               /\ call'[c].error = error
                                 ELSE call'[c] = call[c]
<1>1. /\ sync \in [Actors -> Sync] /\ call \in [Callers -> Calls]
      /\ loop \in {"off", "on", "closed", "ended", "panicked"}
  BY DEF Inv, Typed, TypeOK, WatcherTypeOK, Calls
<1>2. \A b \in Actors : ~ Running(b)'
  BY <1>1, OneSync DEF Finish, Running, NoSync
<1>3. UNCHANGED <<tree, watches, events, watched, current, seq, degraded, since>>
  BY DEF Finish, watcherVars
<1>4. ASSUME NEW c \in Callers
      PROVE  IF c = a THEN /\ call[c].pc = "lock"
                           /\ call'[c].pc = IF error THEN "done" ELSE "read"
                           /\ call'[c].error = error
             ELSE call'[c] = call[c]
  <2>1. CASE c = a
    <3>1. call[c].pc = "lock" /\ a # Background
      BY <2>1, CallersAssumption DEF Inv, Locks
    <3>. QED BY <1>1, <2>1, <3>1 DEF Finish, Calls
  <2>2. CASE c # a
    BY <1>1, <2>2 DEF Finish, Calls, Actors
  <2>. QED BY <2>1, <2>2
<1>5. loop' # "panicked" /\ \A c \in Callers : call'[c].pc # "idle" => loop' = "on"
  <2>1. CASE loop = "off" /\ a = Background
    <3>1. \A c \in Callers : call[c].pc = "idle"
      BY <2>1 DEF Inv, Locks
    <3>. QED BY <2>1, <3>1 DEF Finish
  <2>2. CASE ~ (loop = "off" /\ a = Background)
    <3>1. loop' = loop
      BY <2>2 DEF Finish, watcherVars
    <3>2. \A c \in Callers : call'[c].pc # "idle" => call[c].pc # "idle"
      BY <1>4
    <3>. QED BY <3>1, <3>2, OneSync DEF Inv, Locks
  <2>. QED BY <2>1, <2>2
<1>6. Locks'
  <2>1. \A c \in Callers : ~ Running(c)'
    BY <1>2 DEF Actors
  <2>. QED BY <1>2, <1>5, <2>1 DEF Locks
<1>. QED BY <1>2, <1>3, <1>4, <1>5, <1>6

\* Publishing puts the graph and the sequence it was made for in place together.
LEMMA PublishHolds == ASSUME Inv, NEW a \in Actors, Publish(a) PROVE Inv'
<1>1. Typed' /\ Running(a) /\ Finish(a, FALSE) /\ syncMu' = Free /\ UNCHANGED db
  BY SyncTyped DEF SyncStep, Inv, Publish, Running
<1>2. /\ sync[a].found = db /\ sync[a].todo = {}
      /\ graph' = sync[a].found /\ syncedSeq' = sync[a].seq /\ synced' = TRUE
  BY DEF Publish, Inv, InMemory
<1>3. /\ \A b \in Actors : ~ Running(b)'
      /\ Locks' /\ loop' # "panicked"
      /\ UNCHANGED <<tree, watches, events, watched, current, seq, degraded, since>>
      /\ \A c \in Callers : IF c = a THEN call[c].pc = "lock" /\ call'[c].pc = "read"
                            ELSE call'[c] = call[c]
  BY <1>1, FinishFrees
<1>4. Watched' /\ Ordered' /\ InMemory'
  BY <1>1, <1>2, <1>3 DEF Inv, Watched, Announced, Ordered, InMemory, Running
<1>5. \A d \in Dirs : FileIn(d)' = FileIn(d) /\ (Unheard(d)' <=> Unheard(d))
  BY <1>3 DEF FileIn, Unheard
<1>6. Current'
  <2>1. \A d \in Dirs : Follows(sync[a].seq, sync[a].found, d)
    BY <1>1, <1>2 DEF Inv, Current
  <2>2. \A d \in Dirs : Follows(syncedSeq, graph, d)'
    BY <1>2, <1>3, <1>5, <2>1 DEF Follows
  <2>. QED BY <1>3, <2>2 DEF Current
<1>7. ASSUME NEW c \in Callers PROVE CallHolds(c)'
  <2>1. CallHolds(c) /\ (FoundSince(c, a) => GraphSince(c)')
    BY <1>2, <1>3 DEF Inv, GraphSince, FoundSince
  <2>2. CASE c = a
    BY <1>1, <1>3, <1>5, <2>1, <2>2 DEF CallHolds
  <2>3. CASE c # a
    BY <1>1, <1>2, <1>3, <1>5, <2>1, <2>3 DEF CallHolds, Actors
  <2>. QED BY <2>2, <2>3
<1>. QED BY <1>1, <1>3, <1>4, <1>6, <1>7 DEF Inv

\* A scan that fails has changed neither tables nor graph.
LEMMA FailSyncHolds == ASSUME Undisturbed, Inv, NEW a \in Actors, FailSync(a) PROVE Inv'
<1>1. /\ Typed' /\ sync[a].pc = "scan" /\ Finish(a, TRUE) /\ syncMu' = Free
      /\ UNCHANGED <<db, graph, synced, syncedSeq>>
  BY SyncTyped DEF SyncStep, Inv, FailSync, Undisturbed
<1>2. Running(a)
  BY <1>1 DEF Running
<1>3. /\ \A b \in Actors : ~ Running(b)'
      /\ Locks' /\ loop' # "panicked"
      /\ UNCHANGED <<tree, watches, events, watched, current, seq, degraded, since>>
      /\ \A c \in Callers : IF c = a THEN /\ call[c].pc = "lock" /\ call'[c].pc = "done"
                                          /\ call'[c].error = TRUE
                            ELSE call'[c] = call[c]
  BY <1>1, <1>2, FinishFrees
<1>4. Watched' /\ Ordered'
  BY <1>1, <1>3 DEF Inv, Watched, Announced, Ordered
<1>5. InMemory'
  <2>1. loop # "panicked" /\ \A b \in Actors : sync[b].pc \in {"none", "scan"}
    BY <1>1, <1>2, OneSync DEF Running
  <2>. QED BY <1>1, <1>3, <2>1 DEF Inv, InMemory, Running
<1>6. \A d \in Dirs : FileIn(d)' = FileIn(d) /\ (Unheard(d)' <=> Unheard(d))
  BY <1>3 DEF FileIn, Unheard
<1>7. Current'
  BY <1>1, <1>3, <1>6 DEF Inv, Current, Follows
<1>8. ASSUME NEW c \in Callers PROVE CallHolds(c)'
  <2>1. CallHolds(c) /\ (GraphSince(c)' <=> GraphSince(c))
    BY <1>1, <1>3 DEF Inv, GraphSince
  <2>. QED BY <1>1, <1>3, <1>6, <2>1 DEF CallHolds, Actors
<1>. QED BY <1>1, <1>3, <1>4, <1>5, <1>7, <1>8 DEF Inv

-----------------------------------------------------------------------------
(* Calls.                                                                  *)

\* What a call may rely on besides its own state.
LEMMA CallStepFacts ==
    ASSUME Inv, NEW c \in Callers, Call(c) \/ CallStep(c)
    PROVE  /\ Typed'
           /\ UNCHANGED <<watcherVars, db, graph, synced, syncedSeq, watching, background, syncMu, sync>>
           /\ ~ Running(c) /\ loop = "on"
           /\ \A b \in Callers : b # c => call'[b] = call[b] /\ since'[b] = since[b]
<1>1. Typed'
  BY CallTyped DEF Inv
<1>2. UNCHANGED <<watcherVars, db, graph, synced, syncedSeq, watching, background, syncMu, sync>>
  BY DEF Call, CallStep, Compare, ReadGraph, Return
<1>3. ~ Running(c) /\ loop = "on"
  BY DEF Call, CallStep, Compare, ReadGraph, Return, Inv, Locks
<1>4. \A b \in Callers : b # c => call'[b] = call[b] /\ since'[b] = since[b]
  BY DEF Call, CallStep, Compare, ReadGraph, Return, Inv, Typed, TypeOK
<1>. QED BY <1>1, <1>2, <1>3, <1>4

\* It is enough that the call itself still holds.
LEMMA CallKept ==
    ASSUME Inv, NEW c \in Callers, Call(c) \/ CallStep(c), CallHolds(c)'
    PROVE  Inv'
<1>1. /\ Typed'
      /\ UNCHANGED <<tree, watches, events, watched, current, seq, degraded, loop,
                     db, graph, synced, syncedSeq, watching, background, syncMu, sync>>
      /\ ~ Running(c) /\ loop = "on"
      /\ \A b \in Callers : b # c => call'[b] = call[b] /\ since'[b] = since[b]
  BY CallStepFacts DEF watcherVars
<1>2. Watched' /\ Ordered' /\ InMemory'
  BY <1>1 DEF Inv, Watched, Announced, Ordered, InMemory, Running
<1>3. \A d \in Dirs : FileIn(d)' = FileIn(d) /\ (Unheard(d)' <=> Unheard(d))
  BY <1>1 DEF FileIn, Unheard
<1>4. Current'
  BY <1>1, <1>3 DEF Inv, Current, Follows, Running
<1>5. Locks'
  BY <1>1 DEF Inv, Locks, Running
<1>6. ASSUME NEW b \in Callers, b # c PROVE CallHolds(b)'
  <2>1. CallHolds(b) /\ call'[b] = call[b] /\ since'[b] = since[b]
    BY <1>1, <1>6 DEF Inv
  <2>2. /\ GraphSince(b)' <=> GraphSince(b)
        /\ \A a \in Actors : FoundSince(b, a)' <=> FoundSince(b, a)
    BY <1>1, <2>1 DEF GraphSince, FoundSince
  <2>3. \A a \in Actors : Running(a)' <=> Running(a)
    BY <1>1 DEF Running
  <2>. QED BY <1>1, <1>3, <1>6, <2>1, <2>2, <2>3 DEF CallHolds, Actors
<1>. QED BY <1>1, <1>2, <1>4, <1>5, <1>6 DEF Inv

\* Where the sequences agree, graphs have what is in the files now, or what a
\* caller cannot complain of.
LEMMA CallHoldsFirst == ASSUME Inv, NEW c \in Callers, Call(c) PROVE Inv'
<1>1. /\ seq \in Nat /\ syncedSeq \in Nat /\ sync \in [Actors -> Sync] /\ graph \in [Dirs -> Files]
      /\ call \in [Callers -> Calls] /\ since \in [Callers -> [Dirs -> SUBSET Files]]
  BY DEF Inv, Typed, TypeOK, WatcherTypeOK, Graphs, Calls
<1>2. \A d \in Dirs : FileIn(d) \in Files
  BY DEF FileIn, Inv, Typed, TypeOK, WatcherTypeOK, Trees, Files
<1>3. /\ \A d \in Dirs : since'[c][d] = IF Unheard(d) THEN Files ELSE {FileIn(d)}
      /\ UNCHANGED <<tree, events, seq, degraded, graph, synced, syncedSeq, sync>>
      /\ ~ Running(c)
  BY <1>1, CallStepFacts DEF Call, watcherVars
<1>4. \/ call'[c].pc = "compare" /\ call'[c].seq = seq /\ synced /\ ~ degraded
      \/ call'[c].pc = "lock"
  BY <1>1 DEF Call, NoCall
<1>5. \A d \in Dirs : FileIn(d)' \in since'[c][d]
  BY <1>2, <1>3 DEF FileIn
<1>6. ASSUME synced, ~ degraded, seq <= syncedSeq PROVE GraphSince(c)'
  <2>1. seq = syncedSeq
    BY <1>1, <1>6 DEF Inv, Ordered
  <2>. QED BY <1>1, <1>2, <1>3, <1>6, <2>1 DEF Inv, Current, Follows, GraphSince
<1>7. ASSUME NEW a \in Actors, ~ degraded, Running(a), seq <= sync[a].seq
      PROVE  FoundSince(c, a)'
  <2>1. seq \in Nat /\ sync[a].seq \in Nat /\ sync[a].found \in [Dirs -> Files]
    BY <1>1 DEF Sync, Graphs
  <2>2. sync[a].seq <= seq
    BY <1>7 DEF Inv, Ordered
  <2>3. seq = sync[a].seq
    BY <1>7, <2>1, <2>2
  <2>4. ASSUME NEW d \in Dirs \ sync[a].todo PROVE sync[a].found[d] \in since'[c][d]
    <3>1. Follows(sync[a].seq, sync[a].found, d)
      BY <1>7 DEF Inv, Current
    <3>. QED BY <1>3, <1>7, <2>1, <2>3, <3>1 DEF Follows
  <2>. QED BY <1>3, <2>4 DEF FoundSince
<1>8. CallHolds(c)'
  <2>1. CASE call'[c].pc = "lock"
    BY <1>3, <1>5, <2>1 DEF CallHolds, Running
  <2>2. CASE call'[c].pc = "compare"
    <3>1. call'[c].seq = seq /\ synced /\ ~ degraded
      BY <1>4, <2>2
    <3>. QED BY <1>1, <1>3, <1>5, <1>6, <1>7, <2>2, <3>1 DEF CallHolds, Running
  <2>. QED BY <1>4, <2>1, <2>2
<1>. QED BY <1>8, CallKept

\* The later steps of a call keep what it may still be answered.
LEMMA CallHoldsOn == ASSUME Inv, NEW c \in Callers, CallStep(c) PROVE Inv'
<1>1. /\ syncedSeq \in Nat /\ sync \in [Actors -> Sync]
      /\ call \in [Callers -> Calls] /\ since \in [Callers -> [Dirs -> SUBSET Files]]
  BY DEF Inv, Typed, TypeOK, Calls
<1>2. /\ UNCHANGED <<tree, events, seq, degraded, graph, synced, syncedSeq, sync>>
      /\ ~ Running(c) /\ CallHolds(c)
      /\ call'[c].pc # "idle" => since'[c] = since[c]
  <2>1. Return(c) => call'[c].pc = "idle"
    BY <1>1 DEF Return, NoCall
  <2>2. call'[c].pc # "idle" => since'[c] = since[c]
    BY <2>1 DEF CallStep, Compare, ReadGraph
  <2>3. CallHolds(c)
    BY DEF Inv
  <2>. QED BY <2>2, <2>3, CallStepFacts DEF watcherVars
<1>3. /\ \A d \in Dirs : FileIn(d)' = FileIn(d)
      /\ ~ Running(c)'
      /\ call'[c].pc # "idle" => /\ GraphSince(c)' <=> GraphSince(c)
                                 /\ \A a \in Actors : FoundSince(c, a)' <=> FoundSince(c, a)
      /\ \A a \in Actors : Running(a)' <=> Running(a)
  BY <1>2 DEF FileIn, Running, GraphSince, FoundSince
<1>4. CASE Compare(c)
  <2>1. CASE call[c].seq = syncedSeq
    <3>1. call'[c].pc = "read" /\ call[c].pc = "compare"
      BY <1>1, <1>4, <2>1 DEF Compare, Calls
    <3>2. \A a \in Actors : Running(a) => FoundSince(c, a)
      BY <1>2, <2>1, <3>1 DEF CallHolds, Inv, Ordered
    <3>3. GraphSince(c)
      BY <1>1, <1>2, <2>1, <3>1 DEF CallHolds
    <3>4. CallHolds(c)'
      BY <1>2, <1>3, <3>1, <3>2, <3>3 DEF CallHolds
    <3>. QED BY <3>4, CallKept
  <2>2. CASE call[c].seq # syncedSeq
    <3>1. call'[c].pc = "lock" /\ call[c].pc = "compare"
      BY <1>1, <1>4, <2>2 DEF Compare, Calls
    <3>2. CallHolds(c)'
      BY <1>2, <1>3, <3>1 DEF CallHolds
    <3>. QED BY <3>2, CallKept
  <2>. QED BY <2>1, <2>2
<1>5. CASE ReadGraph(c)
  <2>1. call'[c].pc = "done" /\ call[c].pc = "read" /\ call'[c].answer = graph
    BY <1>1, <1>5 DEF ReadGraph, Calls
  <2>2. CallHolds(c)'
    BY <1>2, <1>3, <2>1 DEF CallHolds, GraphSince
  <2>. QED BY <2>2, CallKept
<1>6. CASE Return(c)
  <2>1. call'[c].pc = "idle"
    BY <1>1, <1>6 DEF Return, NoCall
  <2>2. CallHolds(c)'
    BY <2>1 DEF CallHolds
  <2>. QED BY <2>2, CallKept
<1>. QED BY <1>4, <1>5, <1>6 DEF CallStep

-----------------------------------------------------------------------------
(* The theorems.                                                           *)

\* The invariant holds initially.
LEMMA InvInit == ASSUME Init PROVE Inv
<1>1. Typed
  BY TypedInit
<1>2. Watched
  BY DEF Init, WatcherInit, Watched
<1>3. Locks /\ Ordered /\ InMemory /\ Current
  BY DEF Init, WatcherInit, Locks, Ordered, InMemory, Current, Running, NoSync, NoCall, Actors
<1>4. \A c \in Callers : CallHolds(c)
  BY DEF Init, CallHolds, NoCall
<1>. QED BY <1>1, <1>2, <1>3, <1>4 DEF Inv

\* Every step keeps the invariant.
LEMMA InvNext == ASSUME Undisturbed, Inv, [Next]_vars PROVE Inv'
<1>1. ASSUME NEW d \in Dirs, EditOf(d), Witnessed PROVE Inv'
  BY <1>1, EditHolds
<1>2. ASSUME NEW a \in Actors, LockSync(a) \/ SyncStep(a) PROVE Inv'
  BY <1>2, LockSyncHolds, ScanDirHolds, IndexHolds, LoadHolds, PublishHolds, FailSyncHolds
  DEF SyncStep
<1>3. ASSUME NEW c \in Callers, Call(c) \/ CallStep(c) PROVE Inv'
  BY <1>3, CallHoldsFirst, CallHoldsOn
<1>4. CASE \/ (TakeEvent \/ TakeError \/ HandleDir \/ HandleFile \/ EndLoop \/ Flush \/ Send)
                /\ UNCHANGED daemonVars
           \/ TakeBatch \/ LeaveLoop \/ Stop \/ Panic \/ UNCHANGED vars
  BY <1>4, TakeEventHolds, TakeErrorHolds, HandleDirHolds, OtherStepsHold, PanicHolds
<1>5. CASE OtherProcess
  BY <1>5 DEF OtherProcess, Undisturbed
<1>. QED BY <1>1, <1>2, <1>3, <1>4, <1>5 DEF Next, EditOf

\* Types and the bound on the kernel's queue hold whatever the environment does.
THEOREM TypeCorrect == Spec => []TypeOK
<1>1. Init => Typed
  BY TypedInit
<1>2. Typed /\ [Next]_vars => Typed'
  BY TypedNext
<1>3. Typed => TypeOK
  BY DEF Typed
<1>. QED BY <1>1, <1>2, <1>3, PTL DEF Spec

\* The invariant holds in every reachable state.
THEOREM InvHolds == Undisturbed => (Spec => []Inv)
<1>. SUFFICES ASSUME Undisturbed PROVE Spec => []Inv
  OBVIOUS
<1>1. Init => Inv
  BY InvInit
<1>2. Inv /\ [Next]_vars => Inv'
  BY InvNext
<1>. QED BY <1>1, <1>2, PTL DEF Spec

\* What upToDate stands for: where the flags and the sequences let FreshGraph
\* skip the disk, the graph in memory is that of the files.
THEOREM UpToDateIsCurrent == Undisturbed => (Spec => []UpToDateMeansCurrent)
<1>1. Inv => UpToDateMeansCurrent
  BY DEF Inv, Current, Follows, UpToDateMeansCurrent
<1>. QED BY <1>1, InvHolds, PTL

\* FreshGraph returns a graph of contents the files had during the call.
THEOREM AnswersAreFresh == Undisturbed => (Spec => []FreshAnswers)
<1>1. Inv => FreshAnswers
  BY DEF Inv, CallHolds, FreshAnswers
<1>. QED BY <1>1, InvHolds, PTL

\* However callers and the background take turns, the sequence that was synced
\* never goes back.
THEOREM SyncedNeverBackwards == Undisturbed => (Spec => NeverBackwards)
<1>1. Inv /\ [Next]_vars => [syncedSeq' >= syncedSeq]_vars
  <2>. SUFFICES ASSUME Inv, Next PROVE syncedSeq' >= syncedSeq
    OBVIOUS
  <2>1. syncedSeq \in Nat /\ seq \in Nat /\ \A a \in Actors : sync[a].seq \in Nat
    BY DEF Inv, Typed, TypeOK, WatcherTypeOK, Sync
  <2>2. ASSUME NEW a \in Actors, Publish(a) PROVE syncedSeq' >= syncedSeq
    BY <2>1, <2>2 DEF Publish, Inv, Ordered, Running
  <2>3. ASSUME UNCHANGED syncedSeq PROVE syncedSeq' >= syncedSeq
    BY <2>1, <2>3
  <2>. QED BY <2>2, <2>3
       DEF Next, Witnessed, daemonVars, OtherProcess, SyncStep, LockSync, ScanDir, Index, Load,
           Go, FailSync, TakeBatch, LeaveLoop, Stop, Panic, Call, CallStep, Compare, ReadGraph,
           Return
<1>. QED BY <1>1, InvHolds, PTL DEF Spec, NeverBackwards
=============================================================================
