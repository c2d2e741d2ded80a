------------------------------ MODULE Components ------------------------------
(***************************************************************************)
(* SCCs (pkg/analysis/scc.go): Tarjan's algorithm on groups of nodes, such *)
(* as modules.  The recursion is a stack of frames; the neighbours of a    *)
(* group come in the order of a Go map, which is any.                      *)
(***************************************************************************)
EXTENDS CodeGraph, Sequences, SequencesExt

CONSTANTS
    Groups, NoGroup,    \* what groupOf may yield, NoGroup being ""
    Groupings           \* the functions groupOf that may be asked with

\* There are no more groups than nodes.
ASSUME ComponentsAssumption == IsFiniteSet(Groups)

VARIABLES
    groupOf,        \* node -> group
    index, low,     \* group -> number, or Unvisited
    stack,          \* groups visited and not yet in a component
    frames,         \* calls of connect: the group and its neighbours still to be looked at
    comps           \* components found

sccVars == <<groupOf, index, low, stack, frames, comps>>

Unvisited == -1

\* One group uses another.
Uses(x, y) ==
    /\ x # y /\ x # NoGroup /\ y # NoGroup
    /\ \E e \in graph.edges : /\ e.kind \in {"calls", "imports"}
                              /\ e.src \in graph.nodes /\ e.tgt \in graph.nodes
                              /\ groupOf[e.src] = x /\ groupOf[e.tgt] = y

Used(x) == {y \in Groups : Uses(x, y)}
Vertices == {x \in Groups : \E y \in Groups : Uses(x, y) \/ Uses(y, x)}
Visited == {x \in Groups : index[x] # Unvisited}

SccInit ==
    /\ groupOf \in Groupings
    /\ index = [x \in Groups |-> Unvisited] /\ low = [x \in Groups |-> Unvisited]
    /\ stack = <<>> /\ frames = <<>> /\ comps = {}

\* The call connect(v): the number of v is how many were visited before.
Connect(v, below) ==
    /\ index' = [index EXCEPT ![v] = Cardinality(Visited)]
    /\ low' = [low EXCEPT ![v] = Cardinality(Visited)]
    /\ stack' = Append(stack, v)
    /\ frames' = Append(below, [group |-> v, left |-> Used(v)])
    /\ UNCHANGED <<groupOf, comps>>

Start == frames = <<>> /\ \E v \in Vertices \ Visited : Connect(v, <<>>)

Lower(v, n) == [low EXCEPT ![v] = IF n < @ THEN n ELSE @]

\* A slip: counting those that are in a component already.
CountsAlways(w) == TRUE

\* A neighbour that was visited counts only while it is on the stack.
Counts(w) == Contains(stack, w)

Explore ==
    /\ frames # <<>>
    /\ \E w \in Last(frames).left :
          LET v == Last(frames).group
              rest == Append(Front(frames), [Last(frames) EXCEPT !.left = @ \ {w}])
          IN  IF index[w] = Unvisited
              THEN Connect(w, rest)
              ELSE /\ low' = IF Counts(w) THEN Lower(v, index[w]) ELSE low
                   /\ frames' = rest
                   /\ UNCHANGED <<groupOf, index, stack, comps>>

\* The end of connect(v), and what its caller does with low[v].
Finish ==
    /\ frames # <<>> /\ Last(frames).left = {}
    /\ LET v == Last(frames).group
           at == CHOOSE i \in DOMAIN stack : stack[i] = v
           comp == {stack[i] : i \in at .. Len(stack)}
       IN  /\ IF low[v] = index[v]
              THEN /\ stack' = SubSeq(stack, 1, at - 1)
                   /\ comps' = IF Cardinality(comp) > 1 THEN comps \cup {comp} ELSE comps
              ELSE UNCHANGED <<stack, comps>>
           /\ frames' = Front(frames)
           /\ low' = IF Len(frames) > 1 THEN Lower(frames[Len(frames) - 1].group, low[v]) ELSE low
    /\ UNCHANGED <<groupOf, index>>

SccNext == Start \/ Explore \/ Finish
SccSpec == graph \in Graphs /\ SccInit /\ [][SccNext /\ UNCHANGED graph]_<<graph, sccVars>>

SccDone == frames = <<>> /\ Vertices \subseteq Visited

-----------------------------------------------------------------------------
(* What must hold.                                                         *)

\* x leads to y, over any number of uses: every set with x that no use leaves has y.
LeadsTo(x, y) == \A S \in SUBSET Groups :
    x \in S /\ (\A u \in S, v \in Groups : Uses(u, v) => v \in S) => y \in S

Cycle(x) == {y \in Groups : LeadsTo(x, y) /\ LeadsTo(y, x)}

\* In whatever order maps are walked, the cycles reported are the classes of groups
\* that depend on one another, all of them and none twice: each is whole and right
\* when it is found, and at the end none is missing.
CyclesAreExact ==
    LET cycles == {Cycle(x) : x \in Vertices}
        real == {s \in cycles : Cardinality(s) > 1}
    IN  (\A s \in comps : s \in real) /\ (SccDone => comps = real)
=============================================================================
