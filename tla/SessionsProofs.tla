--------------------------- MODULE SessionsProofs ---------------------------
(***************************************************************************)
(* Proofs about Sessions, for any number of projects, contents, tool calls *)
(* and session objects, and whatever fails.                                *)
(***************************************************************************)
EXTENDS Sessions, FiniteSetTheorems, TLAPS

-----------------------------------------------------------------------------
(* The inductive invariant, in named parts.                                *)

Holders(i) == {c \in Callers : call[c].pc = "handle" /\ call[c].id = i}

\* A session's use count is the number of handlers that have it.
Counted == \A i \in Ids : object[i].inUse = Cardinality(Holders(i))

\* What is in the map is open, and of the project it stands for.
MapIsOpen == \A p \in Paths : sessions[p] # None =>
                 object[sessions[p]].open /\ object[sessions[p]].path = p

Opening == {"open", "refresh", "load"}
Working == Opening \cup {"handle"}

\* Only the holder of the lock opens or refreshes, and it finds the map as it
\* has left it.  Who has a session knows which.
Locked ==
    /\ \A c \in Callers : call[c].pc \in Opening => sessionsMu = c
    /\ \A c \in Callers : call[c].pc = "open" => sessions[call[c].path] = None
    /\ \A c \in Callers : call[c].pc # "idle" => call[c].path \in Paths
    /\ \A c \in Callers : call[c].pc \in {"refresh", "load", "handle"} => call[c].id \in Ids
    /\ \A c \in Callers : call[c].pc = "load" => ~ object[call[c].id].live

\* What a call may see: what is in the files, what was seen before it, and what
\* it is about to load.
Since ==
    /\ \A c \in Callers : call[c].pc \in Working => disk[call[c].path] \in since[c]
    /\ \A c, e \in Callers :
          call[c].pc = "handle" /\ call[e].pc \in Opening /\ call[c].path = call[e].path
             => since[e] \subseteq since[c]
    /\ \A c \in Callers : call[c].pc = "load" /\ object[call[c].id].alone
             => db[call[c].path] \in since[c]

Loading(i) == \E c \in Callers : call[c].pc = "load" /\ call[c].id = i

\* A session without a daemon has loaded what is in the database.
Loaded ==
    \A i \in Ids : LET s == object[i] IN
        s.open /\ s.alone /\ ~ s.live /\ s.graph # NoGraph /\ ~ Loading(i)
           => s.graph = db[s.path]

Kept == TypeOK /\ Counted /\ MapIsOpen /\ OpenIsInMap /\ Locked /\ HeldIsOpen
Inv == Kept /\ Since /\ Loaded /\ HandlersSeeFresh

-----------------------------------------------------------------------------
(* Types and use counts.                                                   *)

Object == [path : Paths, open : BOOLEAN, live : BOOLEAN, graph : Graphs,
           age : 0 .. MaxAge, inUse : Nat, alone : BOOLEAN]

\* Numbers that are in their ranges.
LEMMA AgeTypes == /\ MaxAge \in 0 .. MaxAge /\ 0 \in 0 .. MaxAge /\ MaxAge \in Nat
                  /\ 0 \in 0 .. MaxLate /\ NoGraph \in Graphs
  BY SessionsAssumption DEF MaxAge, Graphs

\* A new session is one.
LEMMA NewSessionType ==
    ASSUME NEW p \in Paths, NEW live \in BOOLEAN
    PROVE  NewSession(p, live) \in Object
  BY AgeTypes DEF NewSession, Object

\* A closed session is one.
LEMMA ClosedType ==
    ASSUME NEW s \in Object
    PROVE  Closed(s) \in Object /\ ~ Closed(s).open /\ Closed(s).inUse = s.inUse
<1>1. s.path \in Paths
  BY DEF Object
<1>2. NewSession(s.path, FALSE) \in Object /\ NewSession(s.path, FALSE).inUse = 0
  BY <1>1, NewSessionType DEF NewSession
<1>. QED BY <1>2 DEF Closed, Object

\* The handlers of a session are finitely many.
LEMMA HoldersFinite ==
    ASSUME NEW i PROVE IsFiniteSet(Holders(i)) /\ Cardinality(Holders(i)) \in Nat
<1>1. Holders(i) \in SUBSET Callers
  BY DEF Holders
<1>. QED BY <1>1, FS_Subset, FS_CardinalityType, SessionsAssumption

\* A handler counts.
LEMMA HolderCounts ==
    ASSUME Kept, NEW c \in Callers, call[c].pc = "handle", call[c].id \in Ids
    PROVE  object[call[c].id].inUse \in Nat \ {0}
<1>1. c \in Holders(call[c].id)
  BY DEF Holders
<1>2. Cardinality(Holders(call[c].id)) # 0
  BY <1>1, HoldersFinite, FS_EmptySet
<1>. QED BY <1>2, HoldersFinite DEF Kept, Counted

\* Calls that leave handling alone leave the counts alone.
LEMMA SameHolders ==
    ASSUME NEW i,
           \A c \in Callers : call'[c].pc = "handle" /\ call'[c].id = i
                                 <=> call[c].pc = "handle" /\ call[c].id = i
    PROVE  Holders(i)' = Holders(i)
  BY DEF Holders

-----------------------------------------------------------------------------
(* Getting a session.                                                      *)

\* The parts of the invariant, for steps that use several.
LEMMA Parts ==
    ASSUME Inv
    PROVE  /\ TypeOK /\ Counted /\ MapIsOpen /\ OpenIsInMap /\ Locked /\ HeldIsOpen
           /\ Since /\ Loaded /\ HandlersSeeFresh
  BY DEF Inv, Kept

\* Waiting for the lock gives a call nothing.
LEMMA CallHolds ==
    ASSUME Inv, NEW c \in Callers, NEW p \in Paths, Call(c, p) PROVE Inv'
<1>1. TypeOK'
  BY Parts DEF TypeOK, NoCall, Call, reaperVars
<1>2. /\ \A e \in Callers \ {c} : call'[e] = call[e]
      /\ call'[c].pc = "lock" /\ call'[c].path = p /\ call[c].pc = "idle"
      /\ UNCHANGED <<sessions, object, sessionsMu, since, server, disk, db>>
  BY Parts DEF TypeOK, NoCall, Call, reaperVars
<1>3. Counted'
  <2>1. \A i \in Ids : Holders(i)' = Holders(i)
    BY <1>2 DEF Holders
  <2>. QED BY <1>2, <2>1, Parts DEF Counted
<1>4. MapIsOpen' /\ OpenIsInMap' /\ HeldIsOpen' /\ Locked'
  BY <1>2, Parts DEF MapIsOpen, OpenIsInMap, HeldIsOpen, Locked, Opening
<1>5. Since' /\ HandlersSeeFresh'
  BY <1>2, Parts DEF Since, Working, Opening, HandlersSeeFresh
<1>6. Loaded'
  <2>1. \A i \in Ids : Loading(i)' <=> Loading(i)
    BY <1>2 DEF Loading
  <2>. QED BY <1>2, <2>1, Parts DEF Loaded
<1>. QED BY <1>1, <1>3, <1>4, <1>5, <1>6 DEF Inv, Kept

\* The call that gets the lock finds the session in the map, or none.
LEMMA LockSessionsHolds ==
    ASSUME Inv, NEW c \in Callers, LockSessions(c) PROVE Inv'
<1>0. call[c].path \in Paths /\ call[c].pc = "lock" /\ sessionsMu = None
  BY Parts DEF Locked, LockSessions
<1>1. TypeOK'
  BY <1>0, Parts DEF TypeOK, LockSessions, Lookup, reaperVars
<1>2. /\ \A e \in Callers \ {c} : call'[e] = call[e] /\ since'[e] = since[e]
      /\ call'[c].path = call[c].path /\ call'[c].id = sessions[call[c].path]
      /\ call'[c].pc = IF sessions[call[c].path] = None THEN "open" ELSE "refresh"
      /\ since'[c] = {disk[call[c].path]}
      /\ sessionsMu' = c
      /\ UNCHANGED <<sessions, object, server, disk, db>>
  BY Parts DEF TypeOK, LockSessions, Lookup, reaperVars
<1>3. \A e \in Callers : call[e].pc \notin Opening
  BY <1>0, Parts, NonePathAssumption DEF Locked
<1>4. Counted'
  <2>1. \A i \in Ids : Holders(i)' = Holders(i)
    BY <1>0, <1>2 DEF Holders
  <2>. QED BY <1>2, <2>1, Parts DEF Counted
<1>5. MapIsOpen' /\ OpenIsInMap'
  BY <1>2, Parts DEF MapIsOpen, OpenIsInMap
<1>6. HeldIsOpen' /\ Locked'
  BY <1>0, <1>2, <1>3, Parts DEF MapIsOpen, HeldIsOpen, Locked, Opening, TypeOK
<1>7. Since' /\ HandlersSeeFresh'
  BY <1>2, <1>3, Parts DEF Since, Working, Opening, HandlersSeeFresh
<1>8. Loaded'
  <2>1. \A i \in Ids : Loading(i)' <=> Loading(i)
    BY <1>0, <1>2 DEF Loading
  <2>. QED BY <1>2, <2>1, Parts DEF Loaded
<1>. QED BY <1>1, <1>4, <1>5, <1>6, <1>7, <1>8 DEF Inv, Kept

\* A new session stands for a project that had none.
LEMMA OpenStoreHolds ==
    ASSUME Inv, server # "stopped", NEW c \in Callers, OpenStore(c) PROVE Inv'
<1>1. PICK i \in Ids, live \in BOOLEAN :
          /\ Unreached(i)
          /\ object' = [object EXCEPT ![i] = NewSession(call[c].path, live)]
          /\ sessions' = [sessions EXCEPT ![call[c].path] = i]
          /\ call' = [call EXCEPT ![c].id = i, ![c].pc = "refresh"]
  BY DEF OpenStore
<1>2. PICK g \in {db[call[c].path]} \cup since[c] : db' = [db EXCEPT ![call[c].path] = g]
  BY DEF OpenStore
<1>3. /\ call[c].pc = "open" /\ call[c].path \in Paths /\ sessions[call[c].path] = None
      /\ sessionsMu = c
      /\ UNCHANGED <<sessionsMu, since, server, due, late, disk>>
  BY Parts DEF OpenStore, Locked, Opening, reaperVars
<1>4. TypeOK'
  <2>1. NewSession(call[c].path, live) \in Object
    BY <1>3, NewSessionType
  <2>2. g \in Contents
    BY <1>3, Parts DEF TypeOK
  <2>. QED BY <1>1, <1>2, <1>3, <2>1, <2>2, Parts DEF TypeOK, Object
<1>5. /\ \A e \in Callers \ {c} : call'[e] = call[e]
      /\ call'[c].pc = "refresh" /\ call'[c].id = i /\ call'[c].path = call[c].path
      /\ \A j \in Ids \ {i} : object'[j] = object[j]
      /\ object'[i] = NewSession(call[c].path, live)
      /\ \A p \in Paths \ {call[c].path} : sessions'[p] = sessions[p] /\ db'[p] = db[p]
      /\ sessions'[call[c].path] = i
      /\ \A e \in Callers : call[e].id # i
      /\ ~ object[i].open
  BY <1>1, <1>2, <1>3, Parts DEF TypeOK, Unreached
<1>6. \A e \in Callers \ {c} : call[e].pc \notin Opening
  BY <1>3, Parts DEF Locked
<1>7. \A e \in Callers : call[e].pc = "handle" =>
          call[e].path # call[c].path /\ call[e].id \in Ids /\ call[e].path \in Paths
  BY <1>3, Parts, SessionsAssumption DEF HeldIsOpen, TypeOK, MapIsOpen, Locked
<1>8. Counted'
  <2>1. \A j \in Ids : Holders(j)' = Holders(j)
    BY <1>3, <1>5 DEF Holders
  <2>2. Holders(i) = {}
    BY <1>5 DEF Holders
  <2>3. object'[i].inUse = 0
    BY <1>5 DEF NewSession
  <2>. QED BY <1>5, <2>1, <2>2, <2>3, FS_EmptySet, Parts DEF Counted
<1>9. MapIsOpen'
  BY <1>3, <1>5, Parts, SessionsAssumption DEF MapIsOpen, NewSession, TypeOK
<1>10. OpenIsInMap'
  BY <1>3, <1>5, Parts, SessionsAssumption DEF OpenIsInMap, NewSession, TypeOK
<1>11. HeldIsOpen'
  BY <1>3, <1>5, <1>6, <1>7, Parts DEF HeldIsOpen, NewSession, Opening
<1>12. Locked'
  BY <1>3, <1>5, <1>6, Parts DEF Locked, Opening
<1>13. Since' /\ HandlersSeeFresh'
  BY <1>3, <1>5, <1>6, <1>7, Parts DEF Since, Working, Opening, HandlersSeeFresh
<1>14. Loaded'
  <2>1. \A j \in Ids : object[j].open => object[j].path # call[c].path /\ object[j].path \in Paths
    BY <1>3, Parts, SessionsAssumption DEF OpenIsInMap, TypeOK
  <2>2. \A j \in Ids : ~ Loading(j) /\ ~ Loading(j)'
    BY <1>3, <1>5, <1>6 DEF Loading, Opening
  <2>. QED BY <1>5, <2>1, <2>2, Parts DEF Loaded, NewSession
<1>. QED BY <1>4, <1>8, <1>9, <1>10, <1>11, <1>12, <1>13, <1>14 DEF Inv, Kept

\* A session refreshed with a graph that its caller may see, and counted.  h is
\* what the database has afterwards.
LEMMA AcquireHolds ==
    ASSUME Inv, server # "stopped", NEW c \in Callers, call[c].pc \in {"refresh", "load"},
           NEW g \in Contents, Acquire(c, g),
           NEW h \in Contents, db' = [db EXCEPT ![call[c].path] = h], disk' = disk,
           object[call[c].id].alone => g \in since[c] /\ (~ object[call[c].id].live => h = g)
    PROVE  Inv'
<1>1. PICK i \in Ids, p \in Paths :
      /\ i = call[c].id /\ p = call[c].path /\ sessionsMu = c
      /\ sessions[p] = i /\ object[i].open /\ object[i].path = p
      /\ \A e \in Callers \ {c} : call[e].pc \notin Opening
  BY Parts DEF Locked, HeldIsOpen, Opening
<1>2. /\ \A e \in Callers \ {c} : call'[e] = call[e]
      /\ call'[c].pc = "handle" /\ call'[c].id = i /\ call'[c].path = p
      /\ sessionsMu' = None
      /\ UNCHANGED <<sessions, since, due, late, server>>
  BY <1>1, Parts DEF Acquire, Unlock, TypeOK, reaperVars
<1>3. object[i] \in Object /\ object \in [Ids -> Object]
  BY Parts DEF TypeOK, Object
<1>4. /\ \A j \in Ids \ {i} : object'[j] = object[j]
      /\ object' \in [Ids -> Object]
      /\ object'[i] = [object[i] EXCEPT !.graph = g, !.age = 0, !.inUse = @ + 1]
  <2>1. [object[i] EXCEPT !.graph = g, !.age = 0, !.inUse = @ + 1] \in Object
    <3>1. g \in Graphs /\ 0 \in 0 .. MaxAge /\ object[i].inUse + 1 \in Nat
      BY <1>3, AgeTypes DEF Object, Graphs
    <3>. QED BY <1>3, <3>1 DEF Object
  <2>2. object' = [object EXCEPT ![i] = [object[i] EXCEPT !.graph = g, !.age = 0, !.inUse = @ + 1]]
    BY <1>1, <1>3 DEF Acquire, Object
  <2>. QED BY <1>3, <2>1, <2>2
<1>5. /\ object'[i].open /\ object'[i].path = p /\ object'[i].live = object[i].live
      /\ object'[i].alone = object[i].alone
      /\ object'[i].graph = g /\ object'[i].inUse = object[i].inUse + 1
  BY <1>1, <1>3, <1>4 DEF Object
<1>a. \A j \in Ids : /\ object'[j].open = object[j].open /\ object'[j].path = object[j].path
                      /\ object'[j].live = object[j].live /\ object'[j].alone = object[j].alone
  BY <1>1, <1>3, <1>4, <1>5 DEF Object
<1>6. \A q \in Paths \ {p} : db'[q] = db[q]
  BY <1>1, Parts DEF TypeOK
<1>7. db'[p] = h
  BY <1>1, Parts DEF TypeOK
<1>8. TypeOK'
  <2>1. call' \in [Callers -> [pc : {"idle", "lock", "open", "refresh", "load", "handle"},
                               path : Paths \cup {None}, id : Ids \cup {None}]]
    BY Parts DEF TypeOK, Acquire
  <2>2. db' \in [Paths -> Contents]
    BY Parts DEF TypeOK
  <2>. QED BY <1>2, <1>4, <2>1, <2>2, Parts DEF TypeOK, Object
<1>9. Counted'
  <2>1. \A j \in Ids \ {i} : Holders(j)' = Holders(j)
    BY <1>2, <1>1 DEF Holders
  <2>2. Holders(i)' = Holders(i) \cup {c} /\ c \notin Holders(i)
    BY <1>2 DEF Holders
  <2>3. Cardinality(Holders(i) \cup {c}) = Cardinality(Holders(i)) + 1
    BY <2>2, FS_AddElement, HoldersFinite
  <2>4. ASSUME NEW j \in Ids PROVE object'[j].inUse = Cardinality(Holders(j)')
    <3>1. CASE j = i
      BY <3>1, <1>5, <2>2, <2>3, Parts DEF Counted
    <3>2. CASE j # i
      BY <3>2, <1>4, <2>1, Parts DEF Counted
    <3>. QED BY <3>1, <3>2
  <2>. QED BY <2>4 DEF Counted
<1>10. MapIsOpen' /\ OpenIsInMap'
  BY <1>2, <1>a, Parts, SessionsAssumption DEF MapIsOpen, OpenIsInMap, TypeOK
<1>11. HeldIsOpen'
  BY <1>1, <1>2, <1>a, Parts DEF HeldIsOpen, Locked
<1>12. Locked'
  BY <1>1, <1>2, <1>a, Parts DEF Locked, Opening
<1>13. Since'
  BY <1>1, <1>2, Parts DEF Since, Working, Opening
<1>14. Loaded'
  <2>1. \A j \in Ids \ {i} : object[j].open => object[j].path # p /\ object[j].path \in Paths
    BY <1>1, Parts DEF OpenIsInMap, TypeOK
  <2>2. \A j \in Ids : (Loading(j) => j = i) /\ ~ Loading(j)'
    BY <1>1, <1>2 DEF Loading, Opening
  <2>3. ASSUME NEW j \in Ids, object'[j].open, object'[j].alone, ~ object'[j].live,
               object'[j].graph # NoGraph
        PROVE  object'[j].graph = db'[object'[j].path]
    <3>1. CASE j = i
      BY <2>3, <3>1, <1>1, <1>5, <1>7
    <3>2. CASE j # i
      BY <2>3, <3>2, <1>4, <1>6, <2>1, <2>2, Parts DEF Loaded
    <3>. QED BY <3>1, <3>2
  <2>. QED BY <2>3 DEF Loaded
<1>15. HandlersSeeFresh'
  <2>1. ASSUME NEW e \in Callers, call[e].pc = "handle", object'[call[e].id].alone
        PROVE  object'[call[e].id].graph \in since[e]
    <3>1. CASE call[e].id = i
      <4>1. call[e].path = p
        BY <2>1, <3>1, <1>1, Parts DEF HeldIsOpen
      <4>2. since[c] \subseteq since[e]
        BY <2>1, <4>1, <1>1, Parts DEF Since, Opening
      <4>. QED BY <2>1, <3>1, <4>2, <1>1, <1>5
    <3>2. CASE call[e].id # i
      BY <2>1, <3>2, <1>4, Parts DEF HandlersSeeFresh, Locked
    <3>. QED BY <3>1, <3>2
  <2>2. object'[i].alone => object'[i].graph \in since[c]
    BY <1>1, <1>5
  <2>. QED BY <1>2, <2>1, <2>2 DEF HandlersSeeFresh
<1>. QED BY <1>8, <1>9, <1>10, <1>11, <1>12, <1>13, <1>14, <1>15 DEF Inv, Kept

\* A daemon's graph, one found up to date, or one just loaded.
LEMMA RefreshHolds ==
    ASSUME Inv, server # "stopped", NEW c \in Callers,
           RefreshLive(c) \/ (EnsureFresh(c) /\ ~ MustLoad(c)) \/ Load(c)
    PROVE  Inv'
<1>1. CASE RefreshLive(c)
  <2>1. PICK g \in Fresh(c) : Acquire(c, g) /\ db' = [db EXCEPT ![call[c].path] = g]
    BY <1>1 DEF RefreshLive
  <2>2. call[c].pc = "refresh" /\ object[call[c].id].live /\ disk' = disk
    BY <1>1 DEF RefreshLive
  <2>3. g \in Contents /\ (object[call[c].id].alone => g \in since[c])
    BY Parts DEF Fresh, TypeOK
  <2>. QED BY <2>1, <2>2, <2>3, AcquireHolds
<1>2. CASE EnsureFresh(c) /\ ~ MustLoad(c)
  <2>1. PICK i \in Ids, p \in Paths :
            /\ i = call[c].id /\ p = call[c].path
            /\ call[c].pc = "refresh" /\ ~ object[i].live /\ object[i].open /\ object[i].path = p
            /\ \A e \in Callers \ {c} : call[e].pc \notin Opening
    BY <1>2, Parts DEF EnsureFresh, Locked, HeldIsOpen, Opening
  <2>2. /\ Acquire(c, object[i].graph) /\ disk' = disk
        /\ db' = [db EXCEPT ![call[c].path] = disk[p]]
        /\ object[i].graph # NoGraph /\ disk[p] = db[p]
    BY <1>2, <2>1 DEF EnsureFresh, MustLoad
  <2>3. ~ Loading(i)
    BY <2>1 DEF Loading, Opening
  <2>4. object[i].alone => object[i].graph = db[p]
    BY <2>1, <2>2, <2>3, Parts DEF Loaded
  <2>5. disk[p] \in since[c] /\ disk[p] \in Contents
    BY <2>1, Parts DEF Since, Working, Opening, TypeOK
  <2>6. object[i].graph \in Contents
    BY <2>2, Parts DEF TypeOK, Graphs
  <2>. QED BY <2>1, <2>2, <2>4, <2>5, <2>6, AcquireHolds
<1>3. CASE Load(c)
  <2>1. call[c].pc = "load" /\ Acquire(c, db[call[c].path]) /\ disk' = disk /\ db' = db
    BY <1>3 DEF Load
  <2>2. call[c].path \in Paths
    BY <2>1, Parts DEF Locked
  <2>3. /\ db[call[c].path] \in Contents
        /\ db' = [db EXCEPT ![call[c].path] = db[call[c].path]]
    BY <2>1, <2>2, Parts DEF TypeOK
  <2>4. object[call[c].id].alone => db[call[c].path] \in since[c]
    BY <2>1, Parts DEF Since
  <2>. QED BY <2>1, <2>3, <2>4, AcquireHolds
<1>. QED BY <1>1, <1>2, <1>3

\* An index run that has changed something is followed by a load.
LEMMA IndexedHolds ==
    ASSUME Inv, server # "stopped", NEW c \in Callers, EnsureFresh(c), MustLoad(c)
    PROVE  Inv'
<1>1. PICK i \in Ids, p \in Paths :
        /\ i = call[c].id /\ p = call[c].path /\ sessionsMu = c /\ sessions[p] = i
        /\ call[c].pc = "refresh" /\ ~ object[i].live /\ object[i].open /\ object[i].path = p
        /\ \A e \in Callers \ {c} : call[e].pc \notin Opening
  BY Parts DEF EnsureFresh, Locked, HeldIsOpen, Opening
<1>2. /\ call' = [call EXCEPT ![c].pc = "load"] /\ db' = [db EXCEPT ![p] = disk[p]]
      /\ UNCHANGED <<sessions, object, sessionsMu, since, due, late, server, disk>>
  BY <1>1 DEF EnsureFresh, reaperVars
<1>3. TypeOK'
  BY <1>1, <1>2, Parts DEF TypeOK
<1>4. /\ \A e \in Callers \ {c} : call'[e] = call[e]
      /\ call'[c].pc = "load" /\ call'[c].id = i /\ call'[c].path = p
      /\ \A q \in Paths \ {p} : db'[q] = db[q]
      /\ db'[p] = disk[p]
  BY <1>1, <1>2, Parts DEF TypeOK
<1>5. Counted'
  <2>1. \A j \in Ids : Holders(j)' = Holders(j)
    BY <1>1, <1>4 DEF Holders
  <2>. QED BY <1>2, <2>1, Parts DEF Counted
<1>6. MapIsOpen' /\ OpenIsInMap'
  BY <1>2, Parts DEF MapIsOpen, OpenIsInMap
<1>7. HeldIsOpen' /\ Locked'
  BY <1>1, <1>2, <1>4, Parts DEF HeldIsOpen, Locked, Opening
<1>8. Since' /\ HandlersSeeFresh'
  BY <1>1, <1>2, <1>4, Parts DEF Since, Working, Opening, HandlersSeeFresh
<1>9. Loaded'
  <2>1. \A j \in Ids \ {i} : object[j].open => object[j].path # p /\ object[j].path \in Paths
    BY <1>1, Parts DEF OpenIsInMap, TypeOK
  <2>2. \A j \in Ids : ~ Loading(j)
    BY <1>1 DEF Loading, Opening
  <2>3. Loading(i)'
    BY <1>4 DEF Loading
  <2>. QED BY <1>2, <1>4, <2>1, <2>2, <2>3, Parts DEF Loaded
<1>. QED BY <1>3, <1>5, <1>6, <1>7, <1>8, <1>9 DEF Inv, Kept

-----------------------------------------------------------------------------
(* Failing, releasing and closing.                                         *)

\* Sessions that are as before, but for ages, or no longer alone.
Alike == \A i \in Ids : /\ object'[i].open = object[i].open /\ object'[i].path = object[i].path
                        /\ object'[i].live = object[i].live /\ object'[i].graph = object[i].graph
                        /\ object'[i].inUse = object[i].inUse
                        /\ object'[i].alone => object[i].alone

\* A call that fails leaves no trace in the use counts.
LEMMA LeaveHolds ==
    ASSUME Inv, server # "stopped", NEW c \in Callers, FailOpen(c) \/ FailRefresh(c)
    PROVE  Inv'
<1>1. /\ call[c].pc \in Opening /\ sessionsMu = c /\ sessionsMu' = None
      /\ call' = [call EXCEPT ![c] = NoCall] /\ since' = [since EXCEPT ![c] = {}]
      /\ UNCHANGED <<sessions, due, late, server, disk, db>>
  BY Parts DEF FailOpen, FailRefresh, Refused, CanLoad, Unlock, Opening, Locked, reaperVars
<1>2. /\ \A e \in Callers \ {c} : call'[e] = call[e] /\ since'[e] = since[e]
      /\ call'[c].pc = "idle"
      /\ \A e \in Callers \ {c} : call[e].pc \notin Opening
  BY <1>1, Parts DEF TypeOK, NoCall, Locked
<1>3. /\ object' \in [Ids -> Object] /\ Alike
      /\ call[c].pc = "load" => ~ object'[call[c].id].alone
  <2>1. CASE UNCHANGED object
    <3>1. call[c].pc # "load" \/ ~ object'[call[c].id].alone
      <4>1. CASE FailOpen(c)
        BY <4>1 DEF FailOpen
      <4>2. CASE FailRefresh(c)
        <5>1. CASE call[c].pc = "refresh"
          BY <5>1
        <5>2. CASE object' = [object EXCEPT ![call[c].id].alone = FALSE] /\ call[c].pc = "load"
          BY <5>2, Parts DEF TypeOK, Locked
        <5>. QED BY <4>2, <5>1, <5>2 DEF FailRefresh, Refused, CanLoad
      <4>. QED BY <4>1, <4>2
    <3>. QED BY <2>1, <3>1, Parts DEF TypeOK, Object, Alike
  <2>2. CASE object' = [object EXCEPT ![call[c].id].alone = FALSE] /\ call[c].id \in Ids
    <3>1. PICK i \in Ids : i = call[c].id
      BY <2>2
    <3>2. object \in [Ids -> Object] /\ object[i] \in Object
      BY Parts DEF TypeOK, Object
    <3>3. [object[i] EXCEPT !.alone = FALSE] \in Object
      BY <3>2 DEF Object
    <3>4. object' = [object EXCEPT ![i] = [object[i] EXCEPT !.alone = FALSE]]
      BY <2>2, <3>1, <3>2 DEF Object
    <3>5. /\ object' \in [Ids -> Object]
          /\ \A j \in Ids \ {i} : object'[j] = object[j]
          /\ object'[i] = [object[i] EXCEPT !.alone = FALSE]
      BY <3>2, <3>3, <3>4
    <3>6. Alike /\ ~ object'[i].alone
      BY <3>2, <3>5 DEF Alike, Object
    <3>. QED BY <3>1, <3>5, <3>6
  <2>3. UNCHANGED object \/ object' = [object EXCEPT ![call[c].id].alone = FALSE]
    BY DEF FailOpen, FailRefresh, Refused
  <2>4. call[c].pc # "open" => call[c].id \in Ids
    BY <1>1, Parts DEF Opening, Locked
  <2>5. call[c].pc = "open" => UNCHANGED object
    BY DEF FailOpen, FailRefresh, Refused, CanLoad
  <2>. QED BY <2>1, <2>2, <2>3, <2>4, <2>5
<1>4. TypeOK'
  <2>1. call' \in [Callers -> [pc : {"idle", "lock", "open", "refresh", "load", "handle"},
                               path : Paths \cup {None}, id : Ids \cup {None}]]
    BY <1>1, Parts DEF TypeOK, NoCall
  <2>. QED BY <1>1, <1>3, <2>1, Parts DEF TypeOK, Object
<1>5. Counted'
  <2>1. \A j \in Ids : Holders(j)' = Holders(j)
    BY <1>1, <1>2 DEF Holders, Opening
  <2>. QED BY <1>3, <2>1, Parts DEF Counted, Alike
<1>6. MapIsOpen' /\ OpenIsInMap'
  BY <1>1, <1>3, Parts, SessionsAssumption DEF MapIsOpen, OpenIsInMap, TypeOK, Alike
<1>7. HeldIsOpen' /\ Locked'
  BY <1>1, <1>2, <1>3, Parts DEF HeldIsOpen, Locked, Alike, Opening
<1>8. Since'
  BY <1>1, <1>2, <1>3, Parts DEF Since, Working, Opening
<1>9. HandlersSeeFresh'
  BY <1>2, <1>3, Parts DEF HandlersSeeFresh, Alike, Locked
<1>10. Loaded'
  <2>1. ASSUME NEW j \in Ids, object'[j].alone PROVE Loading(j)' <=> Loading(j)
    BY <1>1, <1>2, <1>3, <2>1 DEF Loading, Opening
  <2>. QED BY <1>1, <1>3, <2>1, Parts DEF Loaded, Alike
<1>. QED BY <1>4, <1>5, <1>6, <1>7, <1>8, <1>9, <1>10 DEF Inv, Kept

\* A handler that is done is no longer counted.
LEMMA ReleaseHolds ==
    ASSUME Inv, server # "stopped", NEW c \in Callers, Release(c) PROVE Inv'
<1>1. PICK i \in Ids : i = call[c].id /\ call[c].pc = "handle" /\ sessionsMu = None
  BY Parts DEF Release, Uncount, Locked
<1>2. object \in [Ids -> Object] /\ object[i] \in Object /\ object[i].inUse - 1 \in Nat
  <2>1. object[i].inUse \in Nat \ {0}
    BY <1>1, HolderCounts DEF Inv
  <2>. QED BY <2>1, Parts DEF TypeOK, Object
<1>3. /\ \A j \in Ids \ {i} : object'[j] = object[j]
      /\ object' \in [Ids -> Object]
      /\ object'[i] = [object[i] EXCEPT !.inUse = @ - 1, !.age = 0]
  <2>1. [object[i] EXCEPT !.inUse = @ - 1, !.age = 0] \in Object
    BY <1>2, AgeTypes DEF Object
  <2>2. object' = [object EXCEPT ![i] = [object[i] EXCEPT !.inUse = @ - 1, !.age = 0]]
    BY <1>1, <1>2 DEF Release, Uncount, Object
  <2>. QED BY <1>2, <2>1, <2>2
<1>4. \A j \in Ids : /\ object'[j].open = object[j].open /\ object'[j].path = object[j].path
                     /\ object'[j].live = object[j].live /\ object'[j].alone = object[j].alone
                     /\ object'[j].graph = object[j].graph
                     /\ object'[j].inUse = IF j = i THEN object[i].inUse - 1 ELSE object[j].inUse
  BY <1>2, <1>3 DEF Object
<1>5. /\ \A e \in Callers \ {c} : call'[e] = call[e] /\ since'[e] = since[e]
      /\ call'[c].pc = "idle"
      /\ UNCHANGED <<sessions, sessionsMu, due, late, server, disk, db>>
  BY Parts DEF Release, Uncount, NoCall, TypeOK, reaperVars
<1>6. \A e \in Callers : call[e].pc \notin Opening
  BY <1>1, Parts, NonePathAssumption DEF Locked
<1>7. TypeOK'
  BY <1>3, <1>5, Parts DEF TypeOK, Object, Release, Uncount, NoCall
<1>8. Counted'
  <2>1. \A j \in Ids \ {i} : Holders(j)' = Holders(j)
    BY <1>1, <1>5 DEF Holders
  <2>2. Holders(i)' = Holders(i) \ {c} /\ c \in Holders(i)
    BY <1>1, <1>5 DEF Holders
  <2>3. Cardinality(Holders(i) \ {c}) = Cardinality(Holders(i)) - 1
    BY <2>2, FS_RemoveElement, HoldersFinite
  <2>4. ASSUME NEW j \in Ids PROVE object'[j].inUse = Cardinality(Holders(j)')
    <3>1. CASE j = i
      BY <3>1, <1>4, <2>2, <2>3, Parts DEF Counted
    <3>2. CASE j # i
      BY <3>2, <1>4, <2>1, Parts DEF Counted
    <3>. QED BY <3>1, <3>2
  <2>. QED BY <2>4 DEF Counted
<1>9. MapIsOpen' /\ OpenIsInMap'
  BY <1>4, <1>5, Parts, SessionsAssumption DEF MapIsOpen, OpenIsInMap, TypeOK
<1>10. HeldIsOpen' /\ Locked'
  BY <1>4, <1>5, <1>6, Parts DEF HeldIsOpen, Locked, Opening
<1>11. Since' /\ HandlersSeeFresh'
  BY <1>4, <1>5, <1>6, Parts DEF Since, Working, Opening, HandlersSeeFresh, Locked
<1>12. Loaded'
  <2>1. \A j \in Ids : Loading(j)' <=> Loading(j)
    BY <1>5, <1>6 DEF Loading, Opening
  <2>. QED BY <1>4, <1>5, <2>1, Parts DEF Loaded
<1>. QED BY <1>7, <1>8, <1>9, <1>10, <1>11, <1>12 DEF Inv, Kept

\* Closing sessions without a handler, or all of them as the process ends.
LEMMA CloseHolds ==
    ASSUME Inv, server # "stopped", sessionsMu = None,
           NEW ps \in SUBSET {p \in Paths : sessions[p] # None}, Close(ps),
           late' \in 0 .. MaxLate, due' \in BOOLEAN,
           \/ server' = server /\ \A p \in ps : object[sessions[p]].inUse = 0
           \/ server' = "stopped"
    PROVE  Inv'
<1>1. /\ object' = [i \in Ids |-> IF \E p \in ps : sessions[p] = i
                                  THEN Closed(object[i]) ELSE object[i]]
      /\ sessions' = [p \in Paths |-> IF p \in ps THEN None ELSE sessions[p]]
      /\ UNCHANGED <<sessionsMu, call, since, disk, db>>
  BY DEF Close
<1>2. \A e \in Callers : call[e].pc \notin Opening
  BY Parts, NonePathAssumption DEF Locked
<1>3. \A i \in Ids : object[i] \in Object
  BY Parts DEF TypeOK, Object
<1>4. \A i \in Ids : /\ object'[i] \in Object
                     /\ object'[i].inUse = object[i].inUse
                     /\ object'[i].open <=> object[i].open /\ ~ \E p \in ps : sessions[p] = i
                     /\ object'[i].open => object'[i] = object[i]
                     /\ object[i].inUse # 0 => /\ object'[i].graph = object[i].graph
                                               /\ object'[i].alone = object[i].alone
  <2>1. ASSUME NEW i \in Ids, object[i].inUse # 0
        PROVE  Closed(object[i]).graph = object[i].graph /\ Closed(object[i]).alone = object[i].alone
    BY <2>1, <1>3 DEF Closed, Object
  <2>. QED BY <1>1, <1>3, <2>1, ClosedType
<1>5. TypeOK'
  BY <1>1, <1>4, Parts DEF TypeOK, Object
<1>6. Counted'
  <2>1. \A j \in Ids : Holders(j)' = Holders(j)
    BY <1>1 DEF Holders
  <2>. QED BY <1>4, <2>1, Parts DEF Counted
<1>7. MapIsOpen'
  <2>1. ASSUME NEW p \in Paths \ ps, sessions[p] # None
        PROVE  sessions[p] \in Ids /\ ~ \E q \in ps : sessions[q] = sessions[p]
    BY <2>1, Parts DEF MapIsOpen, TypeOK
  <2>. QED BY <1>1, <1>4, <2>1, Parts DEF MapIsOpen
<1>8. OpenIsInMap'
  BY <1>1, <1>3, <1>4, Parts DEF OpenIsInMap, Object
<1>9. HeldIsOpen'
  <2>1. ASSUME server' = server, \A p \in ps : object[sessions[p]].inUse = 0,
               NEW e \in Callers, call[e].pc = "handle"
        PROVE  /\ call[e].path \in Paths \ ps
               /\ ~ \E p \in ps : sessions[p] = call[e].id
    <3>1. call[e].id \in Ids /\ object[call[e].id].inUse # 0
      BY <2>1, HolderCounts, Parts DEF Locked, Inv
    <3>. QED BY <2>1, <3>1, Parts DEF Locked, HeldIsOpen
  <2>2. \A e \in Callers : call[e].pc \in {"refresh", "load", "handle"} => call[e].pc = "handle"
    BY <1>2 DEF Opening
  <2>. QED BY <1>1, <1>4, <2>1, <2>2, Parts DEF HeldIsOpen, Locked
<1>10. Locked'
  BY <1>1, <1>2, Parts DEF Locked, Opening
<1>11. Since'
  BY <1>1, <1>2, Parts DEF Since, Working, Opening
<1>12. HandlersSeeFresh'
  <2>1. \A e \in Callers : call[e].pc = "handle" => call[e].id \in Ids /\ object[call[e].id].inUse # 0
    BY HolderCounts, Parts DEF Locked, Inv
  <2>. QED BY <1>1, <1>4, <2>1, Parts DEF HandlersSeeFresh
<1>13. Loaded'
  <2>1. \A j \in Ids : Loading(j)' <=> Loading(j)
    BY <1>1 DEF Loading
  <2>. QED BY <1>1, <1>4, <2>1, Parts DEF Loaded
<1>. QED BY <1>5, <1>6, <1>7, <1>8, <1>9, <1>10, <1>11, <1>12, <1>13 DEF Inv, Kept

-----------------------------------------------------------------------------
(* What goes on around.                                                    *)

\* Time changes ages; another process leaves the sessions of its project behind.
LEMMA AlikeHolds ==
    ASSUME Inv, object' \in [Ids -> Object], Alike, late' \in 0 .. MaxLate, due' \in BOOLEAN,
           server' \in {"serving", "stopping"}, server # "stopped",
           UNCHANGED <<sessions, sessionsMu, call, since, disk>>,
           db' \in [Paths -> Contents],
           \A p \in Paths : db'[p] = db[p] \/ \A i \in Ids :
               object[i].open /\ object[i].path = p => ~ object'[i].alone
    PROVE  Inv'
<1>1. TypeOK'
  BY Parts DEF TypeOK, Object
<1>2. Counted'
  <2>1. \A j \in Ids : Holders(j)' = Holders(j)
    BY DEF Holders
  <2>. QED BY <2>1, Parts DEF Counted, Alike
<1>3. MapIsOpen' /\ OpenIsInMap'
  BY Parts, SessionsAssumption DEF MapIsOpen, OpenIsInMap, TypeOK, Alike
<1>4. HeldIsOpen' /\ Locked'
  BY Parts DEF HeldIsOpen, Locked, Alike
<1>5. Since'
  <2>1. ASSUME NEW c \in Callers, call[c].pc = "load", object'[call[c].id].alone
        PROVE  db'[call[c].path] = db[call[c].path] /\ object[call[c].id].alone
    BY <2>1, Parts DEF Locked, HeldIsOpen, Alike
  <2>. QED BY <2>1, Parts DEF Since
<1>6. HandlersSeeFresh'
  BY Parts DEF HandlersSeeFresh, Alike, Locked
<1>7. Loaded'
  <2>1. \A j \in Ids : Loading(j)' <=> Loading(j)
    BY DEF Loading
  <2>2. \A j \in Ids : object[j].path \in Paths
    BY Parts DEF TypeOK
  <2>. QED BY <2>1, <2>2, Parts DEF Loaded, Alike
<1>. QED BY <1>1, <1>2, <1>3, <1>4, <1>5, <1>6, <1>7 DEF Inv, Kept

\* Whoever has a session sees an edit happen.
LEMMA EditHolds ==
    ASSUME Inv, NEW p \in Paths, NEW g \in Contents, Edit(p, g) PROVE Inv'
<1>1. /\ disk' = [disk EXCEPT ![p] = g]
      /\ UNCHANGED <<sessions, object, sessionsMu, call, due, late, server, db>>
      /\ since' = [c \in Callers |-> IF call[c].pc \in {"idle", "lock"} \/ call[c].path # p
                                     THEN since[c] ELSE since[c] \cup {g}]
  BY DEF Edit, reaperVars
<1>2. TypeOK'
  BY <1>1, Parts DEF TypeOK
<1>3. Counted' /\ MapIsOpen' /\ OpenIsInMap' /\ HeldIsOpen' /\ Locked'
  <2>1. \A i \in Ids : Holders(i)' = Holders(i)
    BY <1>1 DEF Holders
  <2>. QED BY <1>1, <2>1, Parts DEF Counted, MapIsOpen, OpenIsInMap, HeldIsOpen, Locked
<1>4. \A c \in Callers : since[c] \subseteq since'[c]
  BY <1>1
<1>5. \A c \in Callers : call[c].pc \in Working => disk'[call[c].path] \in since'[c]
  BY <1>1, Parts DEF Since, Working, Opening, TypeOK, Locked
<1>6. \A c, e \in Callers :
          call[c].pc = "handle" /\ call[e].pc \in Opening /\ call[c].path = call[e].path
             => since'[e] \subseteq since'[c]
  BY <1>1, Parts DEF Since, Opening
<1>7. Since'
  BY <1>1, <1>4, <1>5, <1>6, Parts DEF Since
<1>8. HandlersSeeFresh'
  BY <1>1, <1>4, Parts DEF HandlersSeeFresh
<1>9. Loaded'
  <2>1. \A i \in Ids : Loading(i)' <=> Loading(i)
    BY <1>1 DEF Loading
  <2>. QED BY <1>1, <2>1, Parts DEF Loaded
<1>. QED BY <1>2, <1>3, <1>7, <1>8, <1>9 DEF Inv, Kept

\* At the start nothing is open and nobody calls.
LEMMA InvInit == ASSUME Init PROVE Inv
<1>1. PICK p \in Paths : object = [i \in Ids |-> [NewSession(p, FALSE) EXCEPT !.open = FALSE]]
  BY DEF Init
<1>2. \A i \in Ids : object[i] \in Object /\ ~ object[i].open /\ object[i].inUse = 0
  <2>1. NewSession(p, FALSE) \in Object /\ NewSession(p, FALSE).inUse = 0
    BY NewSessionType DEF NewSession
  <2>. QED BY <1>1, <2>1 DEF Object
<1>3. /\ \A c \in Callers : call[c].pc = "idle"
      /\ \A p1 \in Paths : sessions[p1] = None
  BY DEF Init, NoCall
<1>4. TypeOK
  BY <1>1, <1>2, AgeTypes DEF Init, TypeOK, Object, NoCall
<1>5. Counted
  <2>1. \A i \in Ids : Holders(i) = {}
    BY <1>3 DEF Holders
  <2>. QED BY <1>2, <2>1, FS_EmptySet DEF Counted
<1>6. MapIsOpen /\ OpenIsInMap /\ Locked /\ HeldIsOpen /\ Since /\ Loaded /\ HandlersSeeFresh
  BY <1>2, <1>3 DEF MapIsOpen, OpenIsInMap, Locked, HeldIsOpen, Since, Loaded, HandlersSeeFresh,
                    Working, Opening
<1>. QED BY <1>4, <1>5, <1>6 DEF Inv, Kept

\* Every step keeps the invariant.
LEMMA InvNext == ASSUME Inv, [Next]_vars PROVE Inv'
<1>1. CASE UNCHANGED vars
  <2>1. \A i \in Ids : (Holders(i)' = Holders(i)) /\ (Loading(i)' <=> Loading(i))
    BY <1>1 DEF Holders, Loading, vars
  <2>. QED BY <1>1, <2>1, Parts DEF vars, reaperVars, Inv, Kept, TypeOK, Counted, MapIsOpen,
              OpenIsInMap, Locked, HeldIsOpen, Since, Loaded, HandlersSeeFresh
<1>2. ASSUME server # "stopped", NEW c \in Callers,
             (\E p \in Paths : Call(c, p)) \/ LockSessions(c) \/ OpenStep(c) \/ Release(c)
      PROVE  Inv'
  <2>1. CASE (\E p \in Paths : Call(c, p)) \/ LockSessions(c) \/ Release(c)
    BY <1>2, <2>1, CallHolds, LockSessionsHolds, ReleaseHolds
  <2>2. CASE OpenStore(c) \/ FailOpen(c) \/ FailRefresh(c)
    BY <1>2, <2>2, OpenStoreHolds, LeaveHolds
  <2>3. CASE RefreshLive(c) \/ Load(c)
    BY <1>2, <2>3, RefreshHolds
  <2>4. CASE EnsureFresh(c)
    BY <1>2, <2>4, RefreshHolds, IndexedHolds
  <2>. QED BY <1>2, <2>1, <2>2, <2>3, <2>4 DEF OpenStep
<1>3. ASSUME server # "stopped", EvictIdleSessions PROVE Inv'
  <2>1. Evicted \in SUBSET {p \in Paths : sessions[p] # None}
    BY DEF Evicted
  <2>2. \A p \in Evicted : object[sessions[p]].inUse = 0
    BY DEF Evicted
  <2>3. Close(Evicted) /\ sessionsMu = None /\ server' = server /\ late' = 0 /\ due' = FALSE
    BY <1>3 DEF EvictIdleSessions
  <2>. QED BY <1>3, <2>1, <2>2, <2>3, CloseHolds, AgeTypes
<1>4. ASSUME server # "stopped", CloseAllSessions PROVE Inv'
  <2>1. /\ Close({p \in Paths : sessions[p] # None}) /\ sessionsMu = None /\ server' = "stopped"
        /\ late' \in 0 .. MaxLate /\ due' \in BOOLEAN
    BY <1>4, Parts DEF CloseAllSessions, TypeOK
  <2>. QED BY <1>4, <2>1, CloseHolds
<1>5. ASSUME server # "stopped", Fire \/ StopServing \/ Time \/ \E p \in Paths : OtherProcess(p)
      PROVE  Inv'
  <2>1. /\ late' \in 0 .. MaxLate /\ due' \in BOOLEAN /\ server' \in {"serving", "stopping"}
        /\ UNCHANGED <<sessions, sessionsMu, call, since, disk>> /\ db' \in [Paths -> Contents]
    <3>1. late \in 0 .. MaxLate /\ due \in BOOLEAN /\ MaxLate \in Nat
          /\ server \in {"serving", "stopping"} /\ db \in [Paths -> Contents]
      BY <1>5, Parts, SessionsAssumption DEF TypeOK
    <3>2. CASE Fire \/ StopServing
      BY <3>1, <3>2 DEF Fire, StopServing
    <3>3. CASE Time
      BY <3>1, <3>3 DEF Time
    <3>4. CASE \E p \in Paths : OtherProcess(p)
      BY <3>1, <3>4, Parts DEF OtherProcess, TypeOK, reaperVars
    <3>. QED BY <1>5, <3>2, <3>3, <3>4
  <2>2. object \in [Ids -> Object]
    BY Parts DEF TypeOK, Object
  <2>3. CASE Fire \/ StopServing
    BY <1>5, <2>1, <2>2, <2>3, AlikeHolds, Parts DEF Fire, StopServing, Alike, TypeOK
  <2>4. CASE Time
    <3>1. \A i \in Ids : object[i].age < MaxAge => object[i].age + 1 \in 0 .. MaxAge
      BY <2>2, AgeTypes DEF Object
    <3>2. object' \in [Ids -> Object] /\ Alike /\ db' = db
      BY <2>2, <2>4, <3>1 DEF Time, Alike, Object
    <3>. QED BY <1>5, <2>1, <3>2, AlikeHolds
  <2>5. ASSUME NEW p \in Paths, OtherProcess(p) PROVE Inv'
    <3>1. object' \in [Ids -> Object] /\ Alike
      BY <2>2, <2>5 DEF OtherProcess, Alike, Object
    <3>2. \A q \in Paths : db'[q] = db[q] \/ \A i \in Ids :
              object[i].open /\ object[i].path = q => ~ object'[i].alone
      BY <2>2, <2>5, Parts DEF OtherProcess, TypeOK, Object
    <3>. QED BY <1>5, <2>1, <3>1, <3>2, AlikeHolds
  <2>. QED BY <1>5, <2>3, <2>4, <2>5
<1>. QED BY <1>1, <1>2, <1>3, <1>4, <1>5, EditHolds DEF Next

-----------------------------------------------------------------------------
(* The theorems.                                                           *)

\* The inductive invariant holds in every reachable state.
THEOREM InvHolds == Spec => []Inv
<1>1. Init => Inv
  BY InvInit
<1>2. Inv /\ [Next]_vars => Inv'
  BY InvNext
<1>. QED BY <1>1, <1>2, PTL DEF Spec

\* Types hold; a use count is never negative.
THEOREM TypeCorrect == Spec => []TypeOK
<1>1. Inv => TypeOK
  BY DEF Inv, Kept
<1>. QED BY <1>1, InvHolds, PTL

\* No session is evicted under a tool call.
THEOREM NeverEvictedInUse == Spec => []HeldIsOpen
<1>1. Inv => HeldIsOpen
  BY DEF Inv, Kept
<1>. QED BY <1>1, InvHolds, PTL

\* A project has at most one open session, and it can be found and closed.
THEOREM OneOpenSession == Spec => []OpenIsInMap
<1>1. Inv => OpenIsInMap
  BY DEF Inv, Kept
<1>. QED BY <1>1, InvHolds, PTL

\* Handlers see graphs of contents the project had since their call's turn.
THEOREM HandlersStayFresh == Spec => []HandlersSeeFresh
<1>1. Inv => HandlersSeeFresh
  BY DEF Inv
<1>. QED BY <1>1, InvHolds, PTL
=============================================================================
