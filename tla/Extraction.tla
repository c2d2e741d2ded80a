----------------------------- MODULE Extraction -----------------------------
(***************************************************************************)
(* Pass 1 for one file (pkg/lang/generic): a walk over the syntax tree     *)
(* records declarations, bases and implemented traits; references with no  *)
(* declaration to hang on are dropped; a second walk attributes each call  *)
(* to the function around it.                                              *)
(*                                                                         *)
(* A syntax node is what the language's table makes of it, and the name    *)
(* its grammar gives: a class, interface or function declared, an impl or  *)
(* extension block, or a call.  Nodes are numbered in source order, and    *)
(* the number stands for the start of a node and for its line.             *)
(***************************************************************************)
EXTENDS Integers, FiniteSets, SequencesExt

CONSTANTS
    Path, Family,   \* of the file
    Syntax,         \* what a node may be, its place in the tree aside
    NameOrder,      \* the names of types, sorted
    None,           \* no name
    MaxTree         \* bound: nodes of a tree

ASSUME ExtractionAssumption ==
    /\ \A n \in Syntax : /\ n.k \in {"class", "interface", "function", "impl", "call"}
                         /\ DOMAIN n = {"k", "name", "of", "recv"}
    /\ NameOrder \in Seq(ToSet(NameOrder)) /\ MaxTree \in Nat

VARIABLES
    tree,       \* the syntax nodes walked so far, each with its parent `up`
    nodes,      \* ir.Nodes
    refs,       \* ir.Refs
    bases,      \* ir.Types.Bases
    walk        \* "declare", "orphans", "calls" or "done"

treeVars == <<tree, nodes, refs, bases, walk>>

-----------------------------------------------------------------------------
(* The tree.                                                               *)

\* The nodes around node i.
Around(t, i) == LET up[j \in 0 .. Len(t)] == IF j = 0 THEN {} ELSE {j} \cup up[t[j].up]
                IN up[t[i].up]

\* Where node i ends: after the last node in it.
End(t, i) == 1 + Max({i} \cup {j \in DOMAIN t : i \in Around(t, j)})

\* A tree grows at its right edge.
Parents == IF tree = <<>> THEN {0} ELSE {0, Len(tree)} \cup Around(tree, Len(tree))

\* enclosingType, for a node whose parent is i: a function cuts off the type around it.
EnclosingType(t, i) ==
    LET owner[j \in 0 .. Len(t)] ==
          CASE j = 0 -> None
            [] j > 0 /\ t[j].k \in {"class", "interface", "impl"} -> t[j].name
            [] j > 0 /\ t[j].k = "function" -> None
            [] j > 0 /\ t[j].k = "call" -> owner[t[j].up]
    IN owner[i]

-----------------------------------------------------------------------------
(* What is recorded of a node.                                             *)

\* The id of the next declaration named q: repeats are numbered.
UniqueID(q) == [file |-> Path, q |-> q, n |-> 1 + Cardinality({i \in DOMAIN nodes : nodes[i].id.q = q})]

Decl(kind, name, q, at) ==
    [id |-> UniqueID(q), kind |-> kind, name |-> name, line |-> at, exported |-> TRUE]
Ref(kind, name, recv, from, line) ==
    [kind |-> kind, name |-> name, recv |-> recv, from |-> from, line |-> line]

\* Those in a list that are among some names.
Only(seq, names) == FlattenSeq([i \in DOMAIN seq |-> IF seq[i] \in names THEN <<seq[i]>> ELSE <<>>])

InsertSorted(seq, name) == Only(NameOrder, ToSet(seq) \cup {name})
AddBase(type, base) == bases' = [bases EXCEPT ![type] = InsertSorted(@, base)]

\* typeDecl
DeclareType(n, at) ==
    LET d == Decl(n.k, n.name, <<n.name>>, at)
    IN /\ n.k \in {"class", "interface"}
       /\ nodes' = Append(nodes, d)
       /\ IF n.of \in {None, n.name} THEN UNCHANGED <<refs, bases>>
          ELSE /\ AddBase(n.name, n.of)
               /\ refs' = Append(refs, Ref("inherits", n.of, <<>>, d.id, at))

\* funcDecl: `of` is the type in an out-of-line name "Type::method".
DeclareFunction(n, at) ==
    LET outer == EnclosingType(tree, n.up)
        owner == IF outer = None THEN n.of ELSE outer
        q == IF owner = None THEN <<n.name>> ELSE <<owner, n.name>>
    IN /\ n.k = "function"
       /\ nodes' = IF n.name = None THEN nodes
                   ELSE Append(nodes, Decl(IF owner = None THEN "function" ELSE "method", n.name, q, at))
       /\ UNCHANGED <<refs, bases>>

\* implDecl: the type may be declared elsewhere in the file, later, or in another file.
DeclareImpl(n, at) ==
    /\ n.k = "impl"
    /\ IF n.of = None THEN UNCHANGED <<refs, bases>>
       ELSE /\ AddBase(n.name, n.of)
            /\ refs' = Append(refs, Ref("implements", n.of, <<>>, [file |-> Path, q |-> <<n.name>>, n |-> 1], at))
    /\ UNCHANGED nodes

PassCall(n) == n.k = "call" /\ UNCHANGED <<nodes, refs, bases>>

\* The first walk comes to a node.
Visit ==
    /\ walk = "declare" /\ Len(tree) < MaxTree
    /\ \E s \in Syntax, up \in Parents :
          LET n == [k |-> s.k, name |-> s.name, of |-> s.of, recv |-> s.recv, up |-> up]
              at == Len(tree) + 1
          IN /\ tree' = Append(tree, n)
             /\ DeclareType(n, at) \/ DeclareFunction(n, at) \/ DeclareImpl(n, at) \/ PassCall(n)
    /\ UNCHANGED walk

EndOfFile == walk = "declare" /\ walk' = "orphans" /\ UNCHANGED <<tree, nodes, refs, bases>>

\* A slip: references are kept whatever they come from.
KeepOrphans ==
    /\ walk = "orphans" /\ walk' = "calls"
    /\ UNCHANGED <<tree, nodes, refs, bases>>

DropOrphanRefs ==
    /\ walk = "orphans" /\ walk' = "calls"
    /\ refs' = FlattenSeq([k \in DOMAIN refs |-> IF \E i \in DOMAIN nodes : nodes[i].id = refs[k].from
                                                 THEN <<refs[k]>> ELSE <<>>])
    /\ UNCHANGED <<tree, nodes, bases>>

-----------------------------------------------------------------------------
(* The second walk.                                                        *)

\* The functions and methods whose span holds position `at`.
Spans(at) == {d \in ToSet(nodes) : /\ d.kind \in {"function", "method"}
                                   /\ d.line <= at /\ at < End(tree, d.line)}
Length(d) == End(tree, d.line) - d.line

\* A slip: the widest span.
OutermostDecl(at) == {d \in Spans(at) : \A e \in Spans(at) : Length(d) >= Length(e)}

\* DeclIndex: the narrowest span, if there is one.
ByRange(at) == {d \in Spans(at) : \A e \in Spans(at) : Length(d) <= Length(e)}

CallsAt(at) ==
    IF tree[at].k # "call" \/ ByRange(at) = {} THEN <<>>
    ELSE <<Ref("calls", tree[at].name, tree[at].recv,
               (CHOOSE d \in ByRange(at) : TRUE).id, at)>>

\* SortIR: references by line, those of one line in the order they come in.
ByLine(rs) ==
    LET before(j, i) == rs[j].line < rs[i].line \/ (rs[j].line = rs[i].line /\ j <= i)
        place(i) == Cardinality({j \in DOMAIN rs : before(j, i)})
    IN [k \in DOMAIN rs |-> rs[CHOOSE i \in DOMAIN rs : place(i) = k]]

\* calls, and SortIR.
Calls ==
    /\ walk = "calls" /\ walk' = "done"
    /\ refs' = ByLine(refs \o FlattenSeq([at \in DOMAIN tree |-> CallsAt(at)]))
    /\ UNCHANGED <<tree, nodes, bases>>

ExtractionInit ==
    /\ tree = <<>> /\ nodes = <<>> /\ refs = <<>>
    /\ bases = [t \in ToSet(NameOrder) |-> <<>>]
    /\ walk = "declare"

ExtractionNext == Visit \/ EndOfFile \/ DropOrphanRefs \/ Calls

ExtractionSpec == ExtractionInit /\ [][ExtractionNext]_treeVars

\* The FileIR.  The generic engine reads neither imports nor types of variables.
Extracted ==
    [path |-> Path, family |-> Family, module |-> Path, nodes |-> nodes, refs |-> refs,
     imports |-> <<>>, vars |-> {}, fields |-> {}, bases |-> bases,
     methods |-> {<<d.id.q[1], d.name>> : d \in {e \in ToSet(nodes) : e.kind = "method"}}]

-----------------------------------------------------------------------------
(* What must hold.                                                         *)

\* The declared functions around node i.
FunctionsAround(i) == {d \in ToSet(nodes) : d.kind \in {"function", "method"} /\ d.line \in Around(tree, i)}

\* Byte ranges find what the tree says: a call is a reference from the nearest function
\* around it that has a name, and no reference at all if there is none.
CallsAreAttributed ==
    walk = "done" => \A i \in {j \in DOMAIN tree : tree[j].k = "call"} :
        {r.from : r \in {s \in ToSet(refs) : s.line = i}} =
            {d.id : d \in {e \in FunctionsAround(i) : \A f \in FunctionsAround(i) : f.line <= e.line}}
=============================================================================
