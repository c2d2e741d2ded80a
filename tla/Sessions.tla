------------------------------ MODULE Sessions ------------------------------
(***************************************************************************)
(* The sessions of the MCP server (pkg/mcp_server/session.go): one open    *)
(* store, graph and perhaps daemon per project, shared by all tool calls   *)
(* on it, closed by a reaper once nobody has used it for a while.          *)
(*                                                                         *)
(* A project's files are one content, and a graph is the content it was    *)
(* built from.  A daemon keeps the promise that Daemon proves: a fresh     *)
(* graph is of a content the project had during the call of FreshGraph.    *)
(***************************************************************************)
EXTENDS Integers, FiniteSets

CONSTANTS
    Paths,      \* project directories
    Contents,
    NoGraph,    \* the nil graph of a new session
    Callers,    \* tool calls in flight
    Ids,        \* session objects: a handler may hold one that has left the map
    None,
    Ttl,        \* how long a session may go unused
    MaxLate,    \* how long a tick may wait for the reaper
    MayFail     \* what may fail: "open", "refresh" (up to the commit of an
                \* index run) and "load" (after it)

ASSUME SessionsAssumption ==
    /\ NoGraph \notin Contents /\ None \notin Ids
    /\ Ttl \in Nat /\ MaxLate \in Nat
    /\ MayFail \subseteq {"open", "refresh", "load"}
    /\ IsFiniteSet(Callers)

VARIABLES
    sessions,   \* path -> session in the map, or None
    object,     \* session objects
    sessionsMu, \* the call that holds it, or None
    call,       \* tool calls
    since,      \* caller -> every content its project had since it took the lock
                \* (history only)
    due, late,  \* whether a tick waits for the reaper, and since when
    server,     \* "serving", "stopping", or "stopped"
    disk, db    \* path -> content of the files, and of the graph in the database (only
                \* sessions without a daemon look at that here)

reaperVars == <<due, late, server>>
vars == <<sessions, object, sessionsMu, call, since, reaperVars, disk, db>>

\* Ages count from the last use; a new session has none, and is as old as any.
MaxAge == Ttl + MaxLate + 1

\* A slip: counting the call that opens a session here already.
NewSessionInUse(p, live) ==
    [path |-> p, open |-> TRUE, live |-> live, graph |-> NoGraph, age |-> MaxAge, inUse |-> 1,
     alone |-> TRUE]

\* `alone` (history only): the database was indexed by no one else since the
\* session was opened, and the session has loaded what it indexed itself.
NewSession(p, live) ==
    [path |-> p, open |-> TRUE, live |-> live, graph |-> NoGraph, age |-> MaxAge, inUse |-> 0,
     alone |-> TRUE]

NoCall == [pc |-> "idle", path |-> None, id |-> None]

ASSUME NonePathAssumption == None \notin Paths /\ None \notin Callers

Init ==
    /\ sessions = [p \in Paths |-> None]
    /\ \E p \in Paths : object = [i \in Ids |-> [NewSession(p, FALSE) EXCEPT !.open = FALSE]]
    /\ sessionsMu = None
    /\ call = [c \in Callers |-> NoCall]
    /\ since = [c \in Callers |-> {}]
    /\ due = FALSE /\ late = 0 /\ server = "serving"
    /\ disk \in [Paths -> Contents] /\ db \in [Paths -> Contents]

-----------------------------------------------------------------------------
(* openSession.  It holds sessionsMu from the lookup to the end.           *)

\* A tool call arrives and waits for the lock.
Call(c, p) ==
    /\ server = "serving" /\ call[c].pc = "idle"
    /\ call' = [call EXCEPT ![c] = [NoCall EXCEPT !.pc = "lock", !.path = p]]
    /\ UNCHANGED <<sessions, object, sessionsMu, since, reaperVars, disk, db>>

Lookup(c) ==
    /\ call' = [call EXCEPT ![c].id = sessions[call[c].path],
                            ![c].pc = IF sessions[call[c].path] = None THEN "open" ELSE "refresh"]
    /\ since' = [since EXCEPT ![c] = {disk[call[c].path]}]
    /\ UNCHANGED <<sessions, object, reaperVars, disk, db>>

\* A slip: looking the session up without the lock.
LookupUnlocked(c) == call[c].pc = "lock" /\ Lookup(c) /\ UNCHANGED sessionsMu

LockSessions(c) ==
    /\ call[c].pc = "lock" /\ sessionsMu = None
    /\ sessionsMu' = c
    /\ Lookup(c)

\* An object nobody can reach any more.
Unreached(i) == ~ object[i].open /\ \A c \in Callers : call[c].id # i

\* The session is in the map before it has a graph.  Its daemon starts, having
\* indexed, or does not start, before or after having indexed.
OpenStore(c) ==
    /\ call[c].pc = "open"
    /\ \E i \in Ids, live \in BOOLEAN :
          /\ Unreached(i)
          /\ object' = [object EXCEPT ![i] = NewSession(call[c].path, live)]
          /\ sessions' = [sessions EXCEPT ![call[c].path] = i]
          /\ call' = [call EXCEPT ![c].id = i, ![c].pc = "refresh"]
    /\ \E g \in {db[call[c].path]} \cup since[c] : db' = [db EXCEPT ![call[c].path] = g]
    /\ UNCHANGED <<sessionsMu, since, reaperVars, disk>>

Unlock == sessionsMu' = None

FailOpen(c) ==
    /\ call[c].pc = "open" /\ "open" \in MayFail
    /\ Unlock
    /\ call' = [call EXCEPT ![c] = NoCall]
    /\ since' = [since EXCEPT ![c] = {}]
    /\ UNCHANGED <<sessions, object, reaperVars, disk, db>>

\* The call has its session: give it graph g, touch and hold it, and unlock.
Acquire(c, g) ==
    /\ object' = [object EXCEPT ![call[c].id].graph = g, ![call[c].id].age = 0,
                                ![call[c].id].inUse = @ + 1]
    /\ call' = [call EXCEPT ![c].pc = "handle"]
    /\ Unlock
    /\ UNCHANGED <<sessions, since, reaperVars>>

\* What FreshGraph may return: its promise needs the database for itself, and
\* loads that work.
Fresh(c) == IF object[call[c].id].alone THEN since[c] ELSE Contents

RefreshLive(c) ==
    /\ call[c].pc = "refresh" /\ object[call[c].id].live
    /\ \E g \in Fresh(c) : Acquire(c, g) /\ db' = [db EXCEPT ![call[c].path] = g]
    /\ UNCHANGED disk

\* A slip: loading a graph only after a change.
MustLoadChanged(c) == disk[call[c].path] # db[call[c].path]

\* Without a daemon: EnsureFresh, and a new graph if something has changed or
\* there is none.
MustLoad(c) ==
    object[call[c].id].graph = NoGraph \/ disk[call[c].path] # db[call[c].path]

EnsureFresh(c) ==
    /\ call[c].pc = "refresh" /\ ~ object[call[c].id].live
    /\ db' = [db EXCEPT ![call[c].path] = disk[call[c].path]]
    /\ IF MustLoad(c)
       THEN /\ call' = [call EXCEPT ![c].pc = "load"]
            /\ UNCHANGED <<sessions, object, sessionsMu, since, reaperVars>>
       ELSE Acquire(c, object[call[c].id].graph)
    /\ UNCHANGED disk

Load(c) ==
    /\ call[c].pc = "load"
    /\ Acquire(c, db[call[c].path])
    /\ UNCHANGED <<disk, db>>

CanLoad(c) == call[c].pc = "load" \/ (call[c].pc = "refresh" /\ object[call[c].id].live)

\* An error before the commit of an index run, or after it.
Refused(c) ==
    /\ \/ /\ call[c].pc = "refresh" /\ "refresh" \in MayFail
          /\ UNCHANGED object
       \/ /\ CanLoad(c) /\ "load" \in MayFail
          /\ object' = [object EXCEPT ![call[c].id].alone = FALSE]
    /\ call' = [call EXCEPT ![c] = NoCall]
    /\ since' = [since EXCEPT ![c] = {}]
    /\ UNCHANGED <<sessions, reaperVars, disk, db>>

\* A slip: leaving the lock held on the way out with an error.
FailLocked(c) == Refused(c) /\ UNCHANGED sessionsMu

\* An error leaves the session in the map, without a use.
FailRefresh(c) == Refused(c) /\ Unlock

-----------------------------------------------------------------------------
(* The tool call itself, and its end.                                      *)

\* From here until it releases the session, the handler reads sess.graph as often
\* as it likes, without a lock.
Uncount(c, n) ==
    /\ call[c].pc = "handle" /\ sessionsMu = None
    /\ object' = [object EXCEPT ![call[c].id].inUse = @ - n, ![call[c].id].age = 0]
    /\ call' = [call EXCEPT ![c] = NoCall]
    /\ since' = [since EXCEPT ![c] = {}]
    /\ UNCHANGED <<sessions, sessionsMu, reaperVars, disk, db>>

\* A slip: a handler that releases its session, and is released again.
ReleaseTwice(c) == Uncount(c, 2)

Release(c) == Uncount(c, 1)

-----------------------------------------------------------------------------
(* Eviction and shutdown.                                                  *)

\* Close the sessions of some projects, and take them out of the map.  Of closed
\* ones only the handlers that they were closed under would notice anything more.
Closed(s) == IF s.inUse = 0 THEN [NewSession(s.path, FALSE) EXCEPT !.open = FALSE]
                            ELSE [s EXCEPT !.open = FALSE]

Close(ps) ==
    /\ object' = [i \in Ids |-> IF \E p \in ps : sessions[p] = i
                                THEN Closed(object[i]) ELSE object[i]]
    /\ sessions' = [p \in Paths |-> IF p \in ps THEN None ELSE sessions[p]]
    /\ UNCHANGED <<sessionsMu, call, since, disk, db>>

\* How long ago the session was used, as the reaper sees it: from the time of
\* its tick, which may be before that use.
Idle(i) == object[i].age - late > Ttl

\* A slip: going by the time of the last use only.
EvictedInUse == {p \in Paths : sessions[p] # None /\ Idle(sessions[p])}

Evicted == {p \in Paths : sessions[p] # None /\ object[sessions[p]].inUse = 0 /\ Idle(sessions[p])}

EvictIdleSessions ==
    /\ due /\ sessionsMu = None
    /\ Close(Evicted)
    /\ due' = FALSE /\ late' = 0
    /\ UNCHANGED server

\* A tick may have waited in the ticker's channel.
Fire == /\ server = "serving" /\ ~ due
        /\ due' = TRUE
        /\ late' \in 0 .. MaxLate
        /\ UNCHANGED <<sessions, object, sessionsMu, call, since, server, disk, db>>

\* ServeStdio returns and the reaper is told to end.
StopServing ==
    /\ server = "serving" /\ server' = "stopping"
    /\ UNCHANGED <<sessions, object, sessionsMu, call, since, due, late, disk, db>>

\* With this the process ends: what handlers still in flight would do is not
\* waited for.
CloseAllSessions ==
    /\ server = "stopping" /\ sessionsMu = None
    /\ server' = "stopped"
    /\ Close({p \in Paths : sessions[p] # None})
    /\ UNCHANGED <<due, late>>

-----------------------------------------------------------------------------
(* What goes on around.                                                    *)

Time == /\ due => late < MaxLate
        /\ object' = [i \in Ids |-> IF object[i].open /\ object[i].age < MaxAge
                                    THEN [object[i] EXCEPT !.age = @ + 1] ELSE object[i]]
        /\ late' = IF due THEN late + 1 ELSE late
        /\ UNCHANGED <<sessions, sessionsMu, call, since, due, server, disk, db>>

Edit(p, g) ==
    /\ disk' = [disk EXCEPT ![p] = g]
    /\ since' = [c \in Callers |-> IF call[c].pc \in {"idle", "lock"} \/ call[c].path # p
                                   THEN since[c] ELSE since[c] \cup {g}]
    /\ UNCHANGED <<sessions, object, sessionsMu, call, reaperVars, db>>

\* `graphcontext index` or `run` brings the database of a project up to date.
OtherProcess(p) ==
    /\ db' = [db EXCEPT ![p] = disk[p]]
    /\ object' = [i \in Ids |-> IF object[i].open /\ object[i].path = p
                                THEN [object[i] EXCEPT !.alone = FALSE] ELSE object[i]]
    /\ UNCHANGED <<sessions, sessionsMu, call, since, reaperVars, disk>>

OpenStep(c) == OpenStore(c) \/ FailOpen(c) \/ RefreshLive(c) \/ EnsureFresh(c) \/ Load(c) \/ FailRefresh(c)

Next ==
    /\ server # "stopped"
    /\ \/ \E c \in Callers : \/ \E p \in Paths : Call(c, p)
                             \/ LockSessions(c) \/ OpenStep(c) \/ Release(c)
       \/ EvictIdleSessions \/ Fire \/ StopServing \/ CloseAllSessions
       \/ Time
       \/ \E p \in Paths, g \in Contents : Edit(p, g)
       \/ \E p \in Paths : OtherProcess(p)

\* Goroutines are scheduled, handlers end, time passes and the ticker fires; a
\* Go mutex goes to whoever waits for it long enough.
Fairness ==
    LET Up(A) == server # "stopped" /\ A
    IN  /\ \A c \in Callers : /\ SF_vars(Up(LockSessions(c))) /\ WF_vars(Up(OpenStep(c)))
                              /\ SF_vars(Up(Release(c)))
        /\ SF_vars(Up(EvictIdleSessions)) /\ WF_vars(Up(Fire)) /\ SF_vars(Up(Time))

Spec == Init /\ [][Next]_vars
FairSpec == Spec /\ Fairness

-----------------------------------------------------------------------------
(* What must hold.                                                         *)

Graphs == Contents \cup {NoGraph}

TypeOK ==
    /\ sessions \in [Paths -> Ids \cup {None}]
    /\ object \in [Ids -> [path : Paths, open : BOOLEAN, live : BOOLEAN, graph : Graphs,
                           age : 0 .. MaxAge, inUse : Nat, alone : BOOLEAN]]
    /\ sessionsMu \in Callers \cup {None}
    /\ call \in [Callers -> [pc : {"idle", "lock", "open", "refresh", "load", "handle"},
                             path : Paths \cup {None}, id : Ids \cup {None}]]
    /\ since \in [Callers -> SUBSET Contents]
    /\ due \in BOOLEAN /\ late \in 0 .. MaxLate
    /\ server \in {"serving", "stopping", "stopped"}
    /\ disk \in [Paths -> Contents] /\ db \in [Paths -> Contents]

\* "Sessions with a tool call in flight are never evicted": until the server
\* stops, the session that a call refreshes or uses is open, is the one in the
\* map, and is the session of the project the call asked for.
HeldIsOpen ==
    server # "stopped" => \A c \in Callers : call[c].pc \in {"refresh", "load", "handle"} =>
        /\ sessions[call[c].path] = call[c].id
        /\ object[call[c].id].open /\ object[call[c].id].path = call[c].path

\* A project is never served by two open stores, daemons and graphs at once,
\* nor is one left open that the map has lost sight of.
OpenIsInMap == \A i \in Ids : object[i].open => sessions[object[i].path] = i

\* Whenever a handler looks at the graph of its session, whoever may have
\* refreshed it meanwhile, it finds that of a content the project had since the
\* call got its turn.  A session that was overtaken by another process, or failed
\* to load what it had indexed, may be behind, but only until it is closed.
HandlersSeeFresh ==
    \A c \in Callers : call[c].pc = "handle" /\ object[call[c].id].alone =>
        object[call[c].id].graph \in since[c]

\* Every tool call gets its turn and returns, also after errors of others.
CallsReturn == \A c \in Callers : call[c].pc # "idle" ~> call[c].pc = "idle" \/ server = "stopped"

Unused(p) == \A c \in Callers : call[c].path # p

\* A project that nobody asks for any more is closed, whatever happened to the
\* calls that used it.
IdleIsClosed ==
    \A p \in Paths : <>[](Unused(p) /\ server = "serving") => <>[](sessions[p] = None)
=============================================================================
