------------------------------ MODULE MCIndexer ------------------------------
(***************************************************************************)
(* A repository of two files.  `lib` defines a helper, when it is there;   *)
(* `app` may call it, and then the call goes to the helper where there is  *)
(* one and to an external symbol where there is none: a change of `lib`    *)
(* moves an edge that leaves `app`.                                        *)
(***************************************************************************)
EXTENDS Indexer, TLC

CONSTANTS lib, app, helper, unknown, c1, c2

MCFiles == {lib, app}
MCIds == {lib, app, helper, unknown}
MCEdgeKeys == {[src |-> app, tgt |-> helper, line |-> 1],
               [src |-> app, tgt |-> unknown, line |-> 1]}
MCContents == {c1, c2}
MCVersions == 1 .. MaxVersion
MCTexts == (MCContents \X MCVersions) \cup {unknown}
MCMayHold == [f \in MCFiles |-> IF f = lib THEN {c1, Absent} ELSE {c1, c2}]
MCSizeOf == [c \in MCContents |-> 10]

Has(view, f, c) == view[f] # Absent /\ view[f].content = c
NodeOf(view, f) ==
    IF view[f] = Absent THEN Absent
    ELSE [file |-> f, text |-> <<view[f].content, view[f].version>>]

MCResolveNodes(view) ==
    [id \in MCIds |->
        CASE id \in MCFiles -> NodeOf(view, id)
          [] id = helper -> IF Has(view, lib, c1) THEN NodeOf(view, lib) ELSE Absent
          [] id = unknown -> IF Has(view, app, c1) /\ ~ Has(view, lib, c1)
                             THEN [file |-> NoFile, text |-> unknown] ELSE Absent]

MCResolveEdges(view) ==
    [k \in MCEdgeKeys |->
        IF Has(view, app, c1) /\ (k.tgt = helper <=> Has(view, lib, c1)) THEN 0 ELSE Absent]

ThisFileRecord == [hash : MCContents, size : {10}, mtime : 0 .. MaxClock, second : 0 .. MaxClock]
ThisFileIR == [hash : MCContents, data : [content : MCContents, version : MCVersions]]
=============================================================================
