------------------------------ MODULE Watcher ------------------------------
(***************************************************************************)
(* watcher.Watcher (pkg/watcher): the tree as users edit it, the           *)
(* notifications the kernel sends for it through fsnotify, the event loop  *)
(* that counts and handles them, and the debouncer that turns them into    *)
(* batches.                                                                *)
(*                                                                         *)
(* Below the root, which is always watched, each directory of Dirs holds   *)
(* at most one source file.  A batch stands for any batch: its reader      *)
(* indexes the whole tree whatever it lists.                               *)
(***************************************************************************)
EXTENDS Naturals, Sequences

CONSTANTS
    Dirs, Contents,
    Absent,       \* no directory, or no event
    Empty,        \* a directory without its source file
    MaxEdits,     \* edits of the tree, to bound the model
    MaxEvents,    \* fs.inotify.max_queued_events
    MaxBatches,   \* capacity of the batches channel
    \* Assumptions about the environment, each TRUE or FALSE.
    DirsStay,     \* a directory that was watched once never comes back
    QuickWatch    \* nobody edits a new directory between the moment its event
                  \* is counted and the moment it is watched

VARIABLES
    tree,      \* directory -> Absent, Empty or the content of its file
    edits,     \* how many edits were made
    watches,   \* directories the kernel watches
    events,    \* notifications not yet received
    watched,   \* watchedDirs: directories the watcher believes it watches
    current,   \* the event counted and yet to be handled
    seq,
    degraded,
    pending,   \* directory -> operation the debouncer holds for its file
    flushing,  \* flushes past the debouncer's lock, yet to send their batch
    batches,   \* length of the batches channel
    loop       \* where the event loop is

watcherVars == <<tree, edits, watches, events, watched, current, seq, degraded,
                 pending, flushing, batches, loop>>

ASSUME MarksAssumption == Absent # Empty /\ Absent \notin Contents /\ Empty \notin Contents
ASSUME BoundsAssumption == /\ MaxEdits \in Nat
                           /\ MaxEvents \in Nat \ {0} /\ MaxBatches \in Nat \ {0}
ASSUME WatchFlagsAssumption == DirsStay \in BOOLEAN /\ QuickWatch \in BOOLEAN

Files == Contents \cup {Empty}
Trees == [Dirs -> Files \cup {Absent}]

FileOps == {"create", "write", "remove", "rename"}
Event == [dir : Dirs, op : FileOps \cup {"mkdir", "rmdir"}]
Overflow == [dir |-> Absent, op |-> "overflow"]
ASSUME EventAssumption == Absent \notin Event

\* What a reader of the tree finds in d.
FileIn(d) == IF tree[d] = Absent THEN Empty ELSE tree[d]

\* New watches every directory before anything else, as far as the kernel lets it.
WatcherInit ==
    /\ tree \in Trees
    /\ watches \in SUBSET {d \in Dirs : tree[d] # Absent}
    /\ watched = watches
    /\ degraded = (\E d \in Dirs \ watches : tree[d] # Absent)
    /\ edits = 0 /\ events = <<>> /\ current = Absent /\ seq = 0
    /\ pending = [d \in Dirs |-> "none"]
    /\ flushing = 0 /\ batches = 0
    /\ loop = "off"

-----------------------------------------------------------------------------
(* Users edit the tree, and the kernel tells of it where it watches.  When *)
(* its queue is full it drops the event and says once that it did.         *)

Notify(d, op) ==
    events' = IF Len(events) < MaxEvents THEN Append(events, [dir |-> d, op |-> op])
              ELSE IF events[Len(events)] = Overflow THEN events
              ELSE Append(events, Overflow)

NotifyWatched(d, op) == IF d \in watches THEN Notify(d, op) ELSE UNCHANGED events

\* The event loop has counted the creation of d and is about to watch it.
AboutToWatch(d) == current = [dir |-> d, op |-> "mkdir"] /\ d \notin watches

Edit(d, new) ==
    /\ edits < MaxEdits
    /\ tree[d] # new
    /\ QuickWatch => ~ AboutToWatch(d)
    /\ tree' = [tree EXCEPT ![d] = new]
    /\ edits' = edits + 1
    /\ UNCHANGED <<watched, current, seq, degraded, pending, flushing, batches, loop>>

\* A file is written in place, or a new one is renamed over it.
WriteFile(d, c) == /\ tree[d] \in Files
                   /\ Edit(d, c)
                   /\ \/ tree[d] # Empty /\ NotifyWatched(d, "write")
                      \/ NotifyWatched(d, "create")
                   /\ UNCHANGED watches

\* A file is removed, or renamed to some place outside the tree.
RemoveFile(d) == /\ tree[d] \in Contents
                 /\ Edit(d, Empty)
                 /\ NotifyWatched(d, "remove") \/ NotifyWatched(d, "rename")
                 /\ UNCHANGED watches

\* A directory is made, or moved in together with its file.
MakeDir(d, c) == /\ tree[d] = Absent /\ c # Absent
                 /\ DirsStay => d \notin watched
                 /\ Edit(d, c)
                 /\ Notify(d, "mkdir")
                 /\ UNCHANGED watches

\* A directory is removed, or moved out together with its file; the kernel's
\* watch goes with it.
RemoveDir(d) == /\ Edit(d, Absent)
                /\ Notify(d, "rmdir")
                /\ watches' = watches \ {d}

-----------------------------------------------------------------------------
(* The event loop.                                                         *)

\* Receive an event and count it.
TakeEvent ==
    /\ loop = "on" /\ current = Absent /\ events # <<>>
    /\ Head(events) # Overflow
    /\ events' = Tail(events)
    /\ current' = Head(events)
    /\ seq' = seq + 1
    /\ UNCHANGED <<tree, edits, watches, watched, degraded, pending, flushing, batches, loop>>

\* fsnotify reports an error: from now on a change may have gone unseen.
TakeError ==
    /\ loop = "on" /\ current = Absent /\ events # <<>>
    /\ Head(events) = Overflow
    /\ events' = Tail(events)
    /\ degraded' = TRUE
    /\ UNCHANGED <<tree, edits, watches, watched, current, seq, pending, flushing, batches,
                   loop>>

\* watchTree: a directory that is not yet believed to be watched is added.
WatchTree(d) ==
    \/ /\ d \notin watched
       /\ watches' = watches \cup {d} /\ watched' = watched \cup {d}
       /\ UNCHANGED degraded
    \/ /\ d \notin watched
       /\ degraded' = TRUE
       /\ UNCHANGED <<watches, watched>>
    \/ /\ d \in watched
       /\ UNCHANGED <<watches, watched, degraded>>

DetermineOp(op, exists) ==
    CASE op = "remove" -> "delete"
      [] op = "rename" -> IF exists THEN "modify" ELSE "delete"
      [] op = "create" -> "create"
      [] op = "write"  -> "modify"

\* What is left of two operations on one file, "none" if they cancel out.
CoalesceOperations(existing, incoming) ==
    CASE existing = "none"   -> incoming
      [] existing = "create" -> IF incoming = "delete" THEN "none" ELSE "create"
      [] existing = "modify" -> IF incoming = "delete" THEN "delete" ELSE "modify"
      [] existing = "delete" -> IF incoming = "create" THEN "modify" ELSE "delete"

Record(d, op) ==
    pending' = IF loop = "on" THEN [pending EXCEPT ![d] = CoalesceOperations(@, op)]
               ELSE pending

\* The rest of processFSEvent.
HandleDir ==
    LET d == current.dir
    IN  /\ current # Absent /\ current.op \notin FileOps
        /\ current' = Absent
        /\ IF tree[d] # Absent /\ current.op = "mkdir" THEN WatchTree(d)
           ELSE UNCHANGED <<watches, watched, degraded>>
        /\ UNCHANGED <<tree, edits, events, seq, pending, flushing, batches, loop>>

HandleFile ==
    LET d == current.dir
    IN  /\ current # Absent /\ current.op \in FileOps
        /\ current' = Absent
        /\ Record(d, DetermineOp(current.op, tree[d] \in Contents))
        /\ UNCHANGED <<tree, edits, watches, watched, events, seq, degraded, flushing, batches,
                       loop>>

\* The debounce timer fires.
Flush == /\ loop = "on"
         /\ \E d \in Dirs : pending[d] # "none"
         /\ pending' = [d \in Dirs |-> "none"]
         /\ flushing' = flushing + 1
         /\ UNCHANGED <<tree, edits, watches, watched, events, current, seq, degraded, batches,
                        loop>>

\* A slip: a buffer of any length.
SendUnbounded == /\ flushing > 0 /\ loop \in {"on", "closed"}
                 /\ flushing' = flushing - 1
                 /\ batches' = batches + 1
                 /\ UNCHANGED <<tree, edits, watches, watched, events, current, seq, degraded,
                                pending, loop>>

Send == /\ flushing > 0 /\ loop \in {"on", "closed"} /\ batches < MaxBatches
        /\ flushing' = flushing - 1
        /\ batches' = batches + 1
        /\ UNCHANGED <<tree, edits, watches, watched, events, current, seq, degraded, pending,
                       loop>>

\* Close has stopped the debouncer; the loop notices and closes its channels.
EndLoop == /\ loop = "closed" /\ current = Absent
           /\ loop' = "ended"
           /\ UNCHANGED <<tree, edits, watches, watched, events, current, seq, degraded, pending,
                          flushing, batches>>

\* A flush that Close did not wait for sends on the closed channel, and takes the
\* process down.
SendOnClosed == /\ flushing > 0 /\ loop = "ended"
                /\ loop' = "panicked"
                /\ UNCHANGED <<tree, edits, watches, watched, events, current, seq, degraded,
                               pending, flushing, batches>>

EventLoop == TakeEvent \/ TakeError \/ HandleDir \/ HandleFile \/ EndLoop

WatcherTypeOK ==
    /\ tree \in Trees
    /\ edits \in 0 .. MaxEdits
    /\ watches \in SUBSET Dirs /\ watched \in SUBSET Dirs
    /\ events \in Seq(Event \cup {Overflow}) /\ Len(events) <= MaxEvents + 1
    /\ current \in Event \cup {Absent}
    /\ seq \in Nat
    /\ degraded \in BOOLEAN
    /\ pending \in [Dirs -> {"none", "create", "modify", "delete"}]
    /\ flushing \in Nat
    /\ batches \in 0 .. MaxBatches
    /\ loop \in {"off", "on", "closed", "ended", "panicked"}

\* Something about d is still on its way to the counter.
Unheard(d) == \E i \in 1 .. Len(events) : events[i].dir = d \/ events[i] = Overflow
=============================================================================
