------------------------------- MODULE Impact -------------------------------
(***************************************************************************)
(* The diff_impact tool: the lines of a diff are mapped onto symbols       *)
(* (pkg/diff/mapper.go), tests that reach these are selected               *)
(* (pkg/testselect), and their dependencies checked against the rules of   *)
(* the architecture (pkg/archlint).                                        *)
(*                                                                         *)
(* ReverseReach is taken by what module Reach shows of it: symbols within  *)
(* the depth asked for, each with its distance, the nearest first if there *)
(* are more than the limit.                                                *)
(***************************************************************************)
EXTENDS CodeGraph, UnifiedDiff

CONSTANTS
    Layouts,        \* where symbols are, and which of them are tests
    Rules,          \* rule sets
    MaxDepth,       \* 10 in handleDiffImpact
    ReachLimit      \* 2000 in SelectTests

IsPath(path) == path \in Seq(ToSet(path))

\* The patterns of a rule set.
Patterns(r) == {f.from : f \in r.forbidden} \cup {f.to : f \in r.forbidden} \cup ToSet(r.layers)

ASSUME ImpactAssumption ==
    /\ \A l \in Layouts : /\ \A n \in Nodes : IsPath(l.file[n]) /\ l.file[n] # DevNull
                          /\ l.first \in [Nodes -> Nat] /\ l.last \in [Nodes -> Nat]
    /\ \A r \in Rules : /\ r.layers \in Seq(ToSet(r.layers))
                        /\ \A p \in Patterns(r) : /\ p.glob \in {"*", "**", "none"}
                                                  /\ IsPath(p.dir) /\ p.dir # <<>>
    /\ MaxDepth \in Nat /\ ReachLimit \in Nat

VARIABLES
    layout,
    rules,
    unmapped,       \* the FileDiffs still to be mapped, none before the diff is read
    changed,        \* what MapDiffToSymbols returns
    unselected,     \* the changed symbols still to be looked at by SelectTests
    selected,       \* bestMatches: test -> depth
    violations,     \* what LintDiff returns
    stage           \* "read", "map", "select", "lint" or "done"

impactVars == <<diffVars, layout, rules, unmapped, changed, unselected, selected, violations, stage>>

-----------------------------------------------------------------------------
(* MapDiffToSymbols.                                                       *)

\* NodesInFile asks the database, which holds the graph that the session loaded: a commit in
\* between, by another process, is left out.
InFileOf(path) == {n \in graph.nodes : layout.file[n] = path}
Span(n) == layout.first[n] .. layout.last[n]

Symbol(n, type, lines) == [node |-> n, type |-> type, lines |-> lines]

\* What the diff of a file says of one of its symbols: nothing, or how it changed.
ChangeOf(fd, n) ==
    LET hit == Span(n) \cap ToSet(fd.added)
        gone == Span(n) \cap ToSet(fd.deleted)
    IN IF fd.isDeleted THEN {Symbol(n, "deleted", {})}
       ELSE IF hit # {} THEN {Symbol(n, IF fd.isNew \/ hit = Span(n) THEN "added" ELSE "modified", hit)}
       ELSE IF gone # {} THEN {Symbol(n, "modified", {Min(gone)})}
       ELSE {}

MapFile ==
    /\ stage = "map" /\ unmapped # <<>>
    /\ LET fd == Head(unmapped)
           seen == {s.node : s \in changed}
       IN changed' = changed \cup UNION {ChangeOf(fd, n) : n \in InFileOf(PathOf(fd)) \ seen}
    /\ unmapped' = Tail(unmapped)
    /\ UNCHANGED <<diffVars, layout, rules, unselected, selected, violations, stage>>

-----------------------------------------------------------------------------
(* SelectTests.                                                            *)

TestKinds == {"calls", "inherits", "overrides", "implements"}

\* The symbols from which k edges or fewer lead to n.
Reaching(n, k) ==
    LET from[j \in 0 .. k] == IF j = 0 THEN {n}
                              ELSE from[j - 1] \cup {e.src : e \in {d \in graph.edges : d.kind \in TestKinds /\ d.tgt \in from[j - 1]}}
    IN from[k]
ReachDepth(n, m) == CHOOSE k \in 0 .. MaxDepth : m \in Reaching(n, k) /\ \A j \in 0 .. k - 1 : m \notin Reaching(n, j)

WithinReach(n) == (Reaching(n, MaxDepth) \ {n}) \cap graph.nodes

\* What ReverseReach may return.
Reached(n) ==
    {S \in SUBSET WithinReach(n) :
       /\ Cardinality(S) = Min({ReachLimit, Cardinality(WithinReach(n))})
       /\ \A m \in S, o \in WithinReach(n) \ S : ReachDepth(n, m) <= ReachDepth(n, o)}

\* A slip: a match found later replaces a nearer one.
LaterToo(n, S) == {<<m, ReachDepth(n, m)>> : m \in S \cap layout.tests}

\* The matches of a changed symbol that are better than those there are.
Nearer(n, S) ==
    {<<m, ReachDepth(n, m)>> : m \in {t \in S \cap layout.tests :
                                        t \in DOMAIN selected => ReachDepth(n, t) < selected[t]}}

\* One changed symbol; a test that changed is selected itself.
Select(n) ==
    /\ stage = "select" /\ n \in unselected
    /\ \E S \in Reached(n) :
          LET better == Nearer(n, S)
              near == {b[1] : b \in better}
              itself == {n} \cap layout.tests
          IN selected' = [m \in DOMAIN selected \cup near \cup itself |->
                             IF m \in itself THEN 0
                             ELSE IF m \in near THEN (CHOOSE b \in better : b[1] = m)[2]
                             ELSE selected[m]]
    /\ unselected' = unselected \ {n}
    /\ UNCHANGED <<diffVars, layout, rules, unmapped, changed, violations, stage>>

-----------------------------------------------------------------------------
(* LintDiff.                                                               *)

DependencyKinds == {"calls", "imports", "inherits", "implements", "references"}

\* matchPathPattern: a path is a tuple of names; "dir/*" holds at any depth, too.
Matches(pattern, path) ==
    \/ pattern.glob \in {"**", "none"} /\ path = pattern.dir
    \/ IsStrictPrefix(pattern.dir, path)

\* findLayerIndex: the first layer that matches, 0 for none.
Layer(path) ==
    LET ls == {i \in DOMAIN rules.layers : Matches(rules.layers[i], path)}
    IN IF ls = {} THEN 0 ELSE Min(ls)

\* evaluateEdge: what an edge breaks, a forbidden rule or the order of the layers.
Breaches(e) ==
    LET s == layout.file[e.src]
        t == layout.file[e.tgt]
    IN IF ~ {e.src, e.tgt} \subseteq graph.nodes \/ s = t THEN {}
       ELSE {<<e, r>> : r \in {f \in rules.forbidden : Matches(f.from, s) /\ Matches(f.to, t)}}
              \cup (IF Layer(t) > 0 /\ Layer(s) > Layer(t) THEN {<<e, "layers">>} ELSE {})

\* A slip: symbols that are new are not looked at.
LintOld(syms) == UNION {Breaches(e) : e \in {d \in graph.edges : d.kind \in DependencyKinds
                                             /\ \E s \in syms : s.node = d.src /\ s.type # "added"}}

LintDiff(syms) == UNION {Breaches(e) : e \in {d \in graph.edges : d.kind \in DependencyKinds
                                              /\ d.src \in {s.node : s \in syms}}}

-----------------------------------------------------------------------------
(* handleDiffImpact                                                        *)

Read == stage = "read" /\ ~ IsRead /\ DiffNext /\ UNCHANGED <<layout, rules, unmapped, changed, unselected, selected, violations, stage>>

HasRead ==
    /\ stage = "read" /\ IsRead
    /\ stage' = "map" /\ unmapped' = diffs
    /\ UNCHANGED <<diffVars, layout, rules, changed, unselected, selected, violations>>

HasMapped ==
    /\ stage = "map" /\ unmapped = <<>>
    /\ stage' = "select" /\ unselected' = {s.node : s \in changed}
    /\ UNCHANGED <<diffVars, layout, rules, unmapped, changed, selected, violations>>

HasSelected ==
    /\ stage = "select" /\ unselected = {}
    /\ stage' = "lint"
    /\ UNCHANGED <<diffVars, layout, rules, unmapped, changed, unselected, selected, violations>>

Lint ==
    /\ stage = "lint"
    /\ violations' = LintDiff(changed) /\ stage' = "done"
    /\ UNCHANGED <<diffVars, layout, rules, unmapped, changed, unselected, selected>>

ImpactInit ==
    /\ DiffInit
    /\ layout \in Layouts /\ rules \in Rules
    /\ unmapped = <<>> /\ changed = {} /\ unselected = {}
    /\ selected = [m \in {} |-> 0] /\ violations = {}
    /\ stage = "read"

ImpactNext ==
    \/ Read \/ HasRead
    \/ MapFile \/ HasMapped
    \/ (\E n \in unselected : Select(n)) \/ HasSelected
    \/ Lint

ImpactSpec == graph \in Graphs /\ ImpactInit /\ [][ImpactNext /\ UNCHANGED graph]_<<graph, impactVars>>

-----------------------------------------------------------------------------
(* What must hold, of the whole way from the patch to the answer.          *)

AllPlain == \A i \in DOMAIN patch : IsPlain(patch[i])

\* The patch deleted a line from the middle of n.  The line is looked for by its old
\* number among the new ones: it must not have moved.
LosesLine(p, n) ==
    \E i \in DOMAIN p.script : /\ p.script[i].op = "del"
                               /\ NewUpto(p.script, i) >= layout.first[n] /\ NewUpto(p.script, i) < layout.last[n]
                               /\ OldUpto(p.script, i) = NewUpto(p.script, i) + 1

\* The symbols of which the patch wrote or deleted a line, or which went with their file.
Touched == {n \in graph.nodes : \E i \in DOMAIN patch :
              \/ layout.file[n] = patch[i].new /\ (Span(n) \cap AddedBy(patch[i]) # {} \/ LosesLine(patch[i], n))
              \/ layout.file[n] = patch[i].old /\ patch[i].new = DevNull}

\* A chain of k edges that tests follow leads from m to n.
TestChain(m, n, k) ==
    \E w \in [0 .. k -> Nodes] :
       /\ w[0] = m /\ w[k] = n
       /\ \A i \in 0 .. k - 1 : \E e \in graph.edges : e.kind \in TestKinds /\ e.src = w[i] /\ e.tgt = w[i + 1]

\* A test that runs a symbol the patch touches, by a chain of calls or because it is one,
\* is among the tests selected, no further off than the shortest of these chains; unless
\* more symbols reach the one touched than SelectTests looks at.
TouchedTestsAreSelected ==
    stage = "done" /\ AllPlain =>
       \A m \in layout.tests \cap graph.nodes, n \in Touched, k \in 0 .. MaxDepth :
          TestChain(m, n, k) /\ Cardinality(WithinReach(n)) <= ReachLimit =>
             m \in DOMAIN selected /\ selected[m] <= k

\* A path is the one of a pattern or lies below it.
Lies(path, pattern) == \E k \in 1 .. Len(path) : SubSeq(path, 1, k) = pattern.dir /\ (k < Len(path) \/ pattern.glob # "*")

\* A dependency on another file that the patch writes, and that a rule forbids or the
\* layers do not allow, is reported.
NewBreachesAreReported ==
    stage = "done" /\ AllPlain =>
       \A e \in graph.edges, i \in DOMAIN patch :
          LET s == layout.file[e.src]
              t == layout.file[e.tgt]
              in(path, layer) == Lies(path, rules.layers[layer]) /\ \A k \in 1 .. layer - 1 : ~ Lies(path, rules.layers[k])
          IN {e.src, e.tgt} \subseteq graph.nodes /\ s # t /\ s = patch[i].new
             /\ e.kind \in DependencyKinds /\ e.line \in Span(e.src) \cap AddedBy(patch[i])
             => /\ \A f \in rules.forbidden : Lies(s, f.from) /\ Lies(t, f.to) => <<e, f>> \in violations
                /\ \A j, k \in DOMAIN rules.layers : k < j /\ in(s, j) /\ in(t, k) => <<e, "layers">> \in violations
=============================================================================
