--------------------------- MODULE TypeScriptPlugin ---------------------------
(***************************************************************************)
(* Pass 1 for a TypeScript file (pkg/lang/typescript): types are shown by  *)
(* annotations and by `new`.                                               *)
(*                                                                         *)
(* A function is a declaration, a method, an arrow function that is bound  *)
(* to a name, or a closure.  `of` is the type of a parameter, a variable   *)
(* or what is assigned, or the interface a class implements; `recv` are    *)
(* the bases of a class, the name on the right of an assignment, or the    *)
(* parts of a call's receiver.  "attr" assigns to a field of this.         *)
(***************************************************************************)
EXTENDS TypedExtraction

CONSTANTS
    TsSyntax,       \* what a node may be, its place in the tree aside
    MaxTsTree       \* bound: nodes of a tree

ASSUME TypeScriptPluginAssumption ==
    /\ \A n \in TsSyntax : /\ n.k \in {"import", "namespace", "class", "interface", "signature", "alias", "field", "method", "function",
                                        "arrow", "closure", "param", "var", "attr", "call"}
                           /\ DOMAIN n = {"k", "name", "of", "recv"} /\ n.recv \in Seq(STRING)
    /\ MaxTsTree \in Nat

-----------------------------------------------------------------------------
(* The tree.                                                               *)

FunctionLike == {"method", "function", "arrow", "closure"}

TsFits(n, up) ==
    LET within == IF up = 0 THEN "file" ELSE tree[up].k
    IN CASE n.k \in {"import", "namespace", "interface", "alias"} -> within = "file"
         [] n.k = "signature" -> within = "interface"
         [] n.k \in {"field", "method"} -> within = "class"
         [] n.k = "param" -> within \in FunctionLike /\ \A i \in up + 1 .. Len(tree) : tree[i].k = "param"
         [] n.k = "attr" -> within \in FunctionLike
         [] n.k \in {"class", "function", "arrow", "closure", "var", "call"} -> within \in {"file"} \cup FunctionLike

VisitTs ==
    /\ walk = "declare" /\ Len(tree) < MaxTsTree
    /\ \E s \in TsSyntax, up \in Parents :
          /\ TsFits(s, up)
          /\ tree' = Append(tree, [k |-> s.k, name |-> s.name, of |-> s.of, recv |-> s.recv, up |-> up])
    /\ UNCHANGED <<nodes, refs, bases, walk, typedVars>>

\* A function declared in a class, but for the methods themselves, is none.
IsDeclared(i) == tree[i].k \in {"class", "interface", "alias", "method", "arrow"} \/ (tree[i].k = "function" /\ ~ InClass(i))

TsDecl(i) ==
    LET n == tree[i]
    IN CASE n.k \in {"class", "alias"} -> PlainDecl("class", n.name, <<n.name>>, i)
         [] n.k = "interface" -> PlainDecl("interface", n.name, <<n.name>>, i)
         [] n.k = "method" -> PlainDecl("method", n.name, <<ClassOf(i), n.name>>, i)
         [] n.k \in {"function", "arrow"} -> PlainDecl("function", n.name, <<n.name>>, i)

-----------------------------------------------------------------------------
(* Types.                                                                  *)

\* extractParams
WithParams(ts, i) ==
    FoldLeft(LAMBDA acc, j : IF tree[j].of = None THEN acc
                             ELSE WithVar(acc, TsDecl(i).id, tree[j].name, BaseTypeName(tree[j].of)),
             ts, InOrder({j \in DOMAIN tree : tree[j].k = "param" /\ tree[j].up = i}))

\* An assignment to a field in a constructor: `new`, or a parameter of a shown type.
WithAttr(ts, class, i, j) ==
    LET passed == {tree[p].of : p \in {q \in ToSet(NodesOf({"param"})) : tree[q].up = i /\ <<tree[q].name>> = tree[j].recv}} \ {None}
        type == IF tree[j].of # None THEN {tree[j].of} ELSE passed
    IN IF type = {} THEN ts ELSE WithField(ts, class, tree[j].name, BaseTypeName(CHOOSE t \in type : TRUE))

\* methodDef
WithMethodDef(ts, i) ==
    LET class == ClassOf(i)
        named == WithVar(WithMethod(ts, class, tree[i].name), TsDecl(i).id, "this", class)
        attrs == InOrder({j \in DOMAIN tree : tree[j].k = "attr" /\ tree[i].name = "constructor" /\ i \in Around(tree, j)})
    IN FoldLeft(LAMBDA acc, j : WithAttr(acc, class, i, j), WithParams(named, i), attrs)

\* The members of a class, in their order.
WithMembers(ts, c) ==
    FoldLeft(LAMBDA acc, i : IF tree[i].k = "method" THEN WithMethodDef(acc, i)
                             ELSE IF tree[i].of # None THEN WithField(acc, tree[c].name, tree[i].name, BaseTypeName(tree[i].of))
                             ELSE acc,
             ts, InOrder({i \in DOMAIN tree : tree[i].k \in {"method", "field"} /\ tree[i].up = c}))

\* varDecl: the scope is told by the name of the function around, that of a method too, and
\* is the file if the function has none of its own.
ScopeOf(i) ==
    LET f == Innermost(FunctionLike, i)
    IN [file |-> Path, q |-> IF f # 0 /\ tree[f].k \in {"function", "method"} THEN <<tree[f].name>> ELSE <<>>, n |-> 1]

Learnt(ts, i) ==
    LET n == tree[i]
    IN CASE n.k = "class" -> WithMembers(ts, i)
         [] n.k = "signature" -> WithMethod(ts, tree[n.up].name, n.name)
         [] n.k = "function" /\ IsDeclared(i) -> WithParams(ts, i)
         [] n.k = "arrow" -> WithParams(ts, i)
         [] n.k = "var" /\ n.of # None -> WithVar(ts, ScopeOf(i), n.name, BaseTypeName(n.of))
         [] OTHER -> ts

-----------------------------------------------------------------------------
(* The first walk, and SortIR of the declarations.                         *)

\* importStmt and exportStmt: a namespace import takes all there is, and has an alias.
TsImport(n) == [ImportOf(n) EXCEPT !.wildcard = @ \/ n.k = "namespace"]

HeritageOf(i) == ToSet(tree[i].recv) \cup ({tree[i].of} \ {None})
HeritageRefs(i) ==
    [b \in DOMAIN tree[i].recv |-> Ref("inherits", tree[i].recv[b], <<>>, TsDecl(i).id, i)]
      \o (IF tree[i].of = None THEN <<>> ELSE <<Ref("implements", tree[i].of, <<>>, TsDecl(i).id, i)>>)

ParseTs ==
    /\ walk = "declare" /\ walk' = "calls"
    /\ LET places == [i \in DOMAIN tree |-> i]
           decls == InOrder({i \in DOMAIN tree : IsDeclared(i)})
           classes == NodesOf({"class"})
           importing == NodesOf({"import", "namespace"})
       IN /\ nodes' = [k \in DOMAIN decls |-> TsDecl(decls[k])]
          /\ refs' = FlattenSeq([k \in DOMAIN classes |-> HeritageRefs(classes[k])])
          /\ bases' = [t \in ToSet(NameOrder) |->
                         Only(NameOrder, UNION {HeritageOf(i) : i \in {c \in ToSet(classes) : tree[c].name = t}})]
          /\ types' = FoldLeft(Learnt, NoTypes, places)
          /\ imports' = [k \in DOMAIN importing |-> TsImport(tree[importing[k]])]
    /\ UNCHANGED tree

TsNext == VisitTs \/ ParseTs \/ (Calls /\ UNCHANGED typedVars)

TsSpec == ExtractionInit /\ TypedInit /\ [][TsNext]_<<treeVars, typedVars>>

-----------------------------------------------------------------------------
(* What the source says.                                                   *)

\* What shows the type of variable v in the function of node i: parameters of any function,
\* and variables of function declarations.  Those of methods and arrow functions are
\* recorded where calls do not look for them.
Records(i, v) ==
    {j \in InFunction(i) : /\ tree[j].name = v
                           /\ \/ tree[j].k = "param" /\ tree[j].up \in SameFunction(i)
                              \/ tree[j].k = "var" /\ LET f == Innermost(FunctionLike, j)
                                                      IN f \in SameFunction(i) /\ tree[f].k = "function"}

\* Its type, if it is plain: this of a method, or there is a record, and whatever has that
\* name in the function, or in another one of its name, shows the same type.
TsTypes(i, v) ==
    LET names == {tree[f].name : f \in SameFunction(i)}
        ds == {j \in DOMAIN tree : tree[j].k \in {"param", "var"} /\ tree[j].name = v
                                   /\ (j \in InFunction(i) \/ \E f \in Around(tree, j) : tree[f].name \in names)}
    IN IF v = "this" THEN IF ds = {} THEN {ClassOf(f) : f \in SameFunction(i)} \ {None} ELSE {}
       ELSE IF Records(i, v) # {} /\ \A j \in ds : tree[j].of # None THEN {tree[j].of : j \in ds}
       ELSE {}

\* The type of a field of a class: none if it is neither declared nor assigned. It is plain if
\* what is declared or assigned in a method shows the same type, and one is declared or
\* assigned in a constructor itself; what is recorded otherwise is not told.
TsFieldTypes(type, field) ==
    LET methods == {m \in DOMAIN tree : tree[m].k = "method" /\ ClassOf(m) = type}
        attrs == {j \in DOMAIN tree : tree[j].k = "attr" /\ tree[j].name = field /\ Around(tree, j) \cap methods # {}}
        own == {j \in attrs : tree[j].up \in methods /\ tree[tree[j].up].name = "constructor"}
        fields == {j \in DOMAIN tree : tree[j].k = "field" /\ tree[j].name = field /\ ClassOf(j) = type}
    IN IF fields \cup attrs = {} THEN {}
       ELSE IF fields \cup own # {} /\ \A j \in attrs \cup fields : tree[j].of # None
            THEN {tree[j].of : j \in attrs \cup fields}
       ELSE {None}
=============================================================================
