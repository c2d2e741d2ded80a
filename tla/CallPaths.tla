------------------------------ MODULE CallPaths ------------------------------
(***************************************************************************)
(* The depth-first searches of pkg/analysis: PathsBetween (paths.go) and   *)
(* Trace (algorithms.go).  The recursion is a stack of calls, and the      *)
(* nodes of the calls are the current path.                                *)
(***************************************************************************)
EXTENDS CodeGraph, Sequences, SequencesExt

\* What is asked: the paths between two symbols, or the call tree of one.
Request == [task : {"paths", "trace"}, from : Nodes, to : Nodes, maxDepth : Int, limit : Int]

CONSTANT Requests

ASSUME CallPathsAssumption == Requests \subseteq Request

VARIABLES
    request,
    calls,     \* calls of dfs or walk: the edge taken, its end, the edges still to be followed
    found,      \* the paths, or the nodes of the call tree but its root, in the
                \* order they are made; each is the sequence of edges that leads there
    truncated,
    pathsDone

pathVars == <<request, calls, found, truncated, pathsDone>>

Spent == Len(found) >= request.limit
OnPath == {calls[i].node : i \in DOMAIN calls}

\* The edges taken to where the search is; the frame at the bottom has none.
Chain(fs) == [i \in 1 .. Len(fs) - 1 |-> fs[i + 1].via]

Out(n) == {e \in graph.edges : e.src = n /\ (request.task = "trace" => e.kind = "calls")}

\* A slip: one call too deep.
FollowedFurther(n, depth) == IF depth <= request.maxDepth THEN Out(n) ELSE {}

\* What is followed from node n at some depth.
Followed(n, depth) == IF depth < request.maxDepth THEN Out(n) ELSE {}

Bottom(n) == [via |-> {}, node |-> n, left |-> Followed(n, 0)]

PathsInit ==
    /\ request \in Requests
    /\ found = IF request.task = "paths" /\ request.from = request.to /\ request.limit > 0
               THEN << <<>> >> ELSE <<>>
    /\ truncated = (request.task = "paths" /\ request.limit <= 0)
    /\ calls = IF truncated \/ found # <<>> THEN <<>> ELSE <<Bottom(request.from)>>
    /\ pathsDone = (calls = <<>>)

\* A slip: following calls in any order.
UpcomingUnsorted(e) == e \in Last(calls).left

\* The next edge of the frame on top: for Trace by line, else in any order.
Upcoming(e) ==
    /\ e \in Last(calls).left
    /\ request.task = "trace" => \A f \in Last(calls).left : e.line <= f.line

Rest(e) == Append(Front(calls), [Last(calls) EXCEPT !.left = @ \ {e}])
Call(e) == [via |-> e, node |-> e.tgt, left |-> Followed(e.tgt, Len(calls))]

\* PathsBetween: dfs goes on to the end of an edge, if it is not on the path.
Skip(e) ==
    /\ request.task = "paths" /\ e.tgt \in OnPath
    /\ calls' = Rest(e)
    /\ UNCHANGED <<found, truncated>>

Refuse(e) ==
    /\ request.task = "paths" /\ e.tgt \notin OnPath /\ Spent
    /\ truncated' = TRUE /\ calls' = Rest(e)
    /\ UNCHANGED found

Arrive(e) ==
    /\ request.task = "paths" /\ e.tgt = request.to /\ e.tgt \notin OnPath /\ ~ Spent
    /\ found' = Append(found, Append(Chain(calls), e))
    /\ calls' = Rest(e)
    /\ UNCHANGED truncated

GoOn(e) ==
    /\ request.task = "paths" /\ e.tgt # request.to /\ e.tgt \notin OnPath /\ ~ Spent
    /\ calls' = Append(Rest(e), Call(e))
    /\ UNCHANGED <<found, truncated>>

\* Trace: the tree gets a node for the call, even if that closes a cycle or is at
\* the depth limit; then the node has no calls of its own.
Show(e) ==
    /\ request.task = "trace" /\ ~ Spent
    /\ found' = Append(found, Append(Chain(calls), e))
    /\ calls' = IF e.tgt \in OnPath THEN Rest(e) ELSE Append(Rest(e), Call(e))
    /\ UNCHANGED truncated

\* Out of budget: the other calls of this node are left out.
Stop(e) ==
    /\ request.task = "trace" /\ Spent
    /\ truncated' = TRUE
    /\ calls' = Append(Front(calls), [Last(calls) EXCEPT !.left = {}])
    /\ UNCHANGED found

Follow == /\ calls # <<>>
          /\ \E e \in Last(calls).left :
                Upcoming(e) /\ (Skip(e) \/ Refuse(e) \/ Arrive(e) \/ GoOn(e) \/ Show(e) \/ Stop(e))
          /\ UNCHANGED <<request, pathsDone>>

GoBack == /\ calls # <<>> /\ Last(calls).left = {}
          /\ calls' = Front(calls)
          /\ pathsDone' = (calls' = <<>>)
          /\ UNCHANGED <<request, found, truncated>>

PathsNext == Follow \/ GoBack

PathsSpec == graph \in Graphs /\ PathsInit /\ [][PathsNext /\ UNCHANGED graph]_<<graph, pathVars>>

-----------------------------------------------------------------------------
(* What must hold.                                                         *)

NodesOn(c) == <<request.from>> \o [i \in DOMAIN c |-> c[i].tgt]

\* A depth below 0 is 0.
Depth == IF request.maxDepth < 0 THEN 0 ELSE request.maxDepth

\* Chains of edges from the symbol asked about, no longer than allowed.
ChainsOf(es) ==
    {c \in UNION {[1 .. k -> es] : k \in 0 .. Depth} :
        \A i \in DOMAIN c : c[i].src = NodesOn(c)[i]}

IsSimple(s) == \A i, j \in DOMAIN s : s[i] = s[j] => i = j

SimplePaths == {c \in ChainsOf(graph.edges) : IsSimple(NodesOn(c)) /\ Last(NodesOn(c)) = request.to}

CallTree == {c \in ChainsOf({e \in graph.edges : e.kind = "calls"}) :
                c # <<>> /\ IsSimple(Front(NodesOn(c)))}

\* What is found is told once each; all of it, or, if truncated, as much as the limit allows.
Tells(all) ==
    /\ ToSet(found) \subseteq all /\ IsSimple(found)
    /\ IF truncated THEN Len(found) = IF request.limit < 0 THEN 0 ELSE request.limit
                    ELSE ToSet(found) = all

\* The paths between two symbols are all those without a repeated symbol, within the
\* depth, over edges of any kind, once for each choice among parallel edges.
PathsAreExact == request.task = "paths" /\ pathsDone => Tells(SimplePaths)

\* A call tree shows every chain of calls up to the depth or to a symbol that is on the
\* chain already; where it is truncated there was more to show, no call is shown without
\* those that lead to it, and of the calls of one symbol the first lines come first.
TraceIsExact ==
    request.task = "trace" /\ pathsDone =>
       /\ Tells(CallTree)
       /\ truncated => CallTree # ToSet(found)
       /\ \A c \in ToSet(found) : Len(c) > 1 => Front(c) \in ToSet(found)
       /\ \A c \in ToSet(found), d \in CallTree :
             Front(c) = Front(d) /\ Last(d).line < Last(c).line => d \in ToSet(found)
=============================================================================
