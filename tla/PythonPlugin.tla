----------------------------- MODULE PythonPlugin -----------------------------
(***************************************************************************)
(* Pass 1 for a Python file (pkg/lang/python).  Python shows the types of  *)
(* annotated names, of what a constructor call is assigned to, and of      *)
(* `self`.  Only what is directly in a class is a method of it; any other  *)
(* function in a class is no declaration, and its calls are those of the   *)
(* method around it.                                                       *)
(*                                                                         *)
(* `of` is the type of a parameter or of what is assigned, or a decorator; *)
(* `recv` are the bases of a class, the name on the right of an            *)
(* assignment, or the parts of a call's receiver.  "attr" assigns to a     *)
(* field of self.                                                          *)
(***************************************************************************)
EXTENDS TypedExtraction

CONSTANTS
    PySyntax,       \* what a node may be, its place in the tree aside
    MaxPyTree       \* bound: nodes of a tree

ASSUME PythonPluginAssumption ==
    /\ \A n \in PySyntax : /\ n.k \in {"import", "class", "function", "param", "assign", "attr", "call"}
                           /\ DOMAIN n = {"k", "name", "of", "recv"} /\ n.recv \in Seq(STRING)
    /\ MaxPyTree \in Nat

-----------------------------------------------------------------------------
(* The tree.                                                               *)

PyFits(n, up) ==
    LET within == IF up = 0 THEN "file" ELSE tree[up].k
    IN CASE n.k = "param" -> within = "function" /\ \A i \in up + 1 .. Len(tree) : tree[i].k = "param"
         [] n.k = "attr" -> within = "function"
         [] n.k = "import" -> within = "file"
         [] OTHER -> within \in {"file", "class", "function"}

VisitPy ==
    /\ walk = "declare" /\ Len(tree) < MaxPyTree
    /\ \E s \in PySyntax, up \in Parents :
          /\ PyFits(s, up)
          /\ tree' = Append(tree, [k |-> s.k, name |-> s.name, of |-> s.of, recv |-> s.recv, up |-> up])
    /\ UNCHANGED <<nodes, refs, bases, walk, typedVars>>

\* methodsOf
MethodsOf(class) == InOrder({i \in DOMAIN tree : tree[i].k = "function" /\ tree[i].up = class})

\* The functions in the order they are declared in: methods with their class.
FuncDefs ==
    FlattenSeq([i \in DOMAIN tree |-> CASE tree[i].k = "class" -> MethodsOf(i)
                                         [] tree[i].k = "function" /\ ~ InClass(i) -> <<i>>
                                         [] OTHER -> <<>>])

PyDecl(i) ==
    LET n == tree[i]
    IN IF n.k = "class" THEN PlainDecl("class", n.name, <<n.name>>, i)
       ELSE IF ClassOf(i) = None THEN PlainDecl("function", n.name, <<n.name>>, i)
       ELSE PlainDecl("method", n.name, <<ClassOf(i), n.name>>, i)

-----------------------------------------------------------------------------
(* Types.                                                                  *)

InInit(i) == ClassOf(i) # None /\ tree[i].name = "__init__"

\* What node j tells of the variables of function i, and of the fields of its class.
Learn(ts, i, j) ==
    LET n == tree[j]
        id == PyDecl(i).id
        type == IF n.of # None \/ ~ (InInit(i) /\ n.k = "attr" /\ n.recv # <<>>) THEN BaseTypeName(n.of)
                ELSE IF <<id, n.recv[1]>> \in DOMAIN ts.vars THEN ts.vars[<<id, n.recv[1]>>] ELSE None
    IN CASE type = None -> ts
         [] type # None /\ n.k \in {"param", "assign"} -> WithVar(ts, id, n.name, type)
         [] type # None /\ n.k = "attr" -> IF InInit(i) THEN WithField(ts, ClassOf(i), n.name, type) ELSE ts

\* funcDef: assignments of functions and classes inside count as well.
FuncTypes(ts, i) ==
    LET self == IF ClassOf(i) = None THEN ts
                ELSE WithVar(WithMethod(ts, ClassOf(i), tree[i].name), PyDecl(i).id, "self", ClassOf(i))
        body == InOrder({j \in DOMAIN tree : \/ tree[j].k = "param" /\ tree[j].up = i
                                             \/ tree[j].k \in {"assign", "attr"} /\ i \in Around(tree, j)})
    IN FoldLeft(LAMBDA acc, j : Learn(acc, i, j), self, body)

-----------------------------------------------------------------------------
(* The first walk, and SortIR of the declarations.                         *)

BaseRefs(i) ==
    [b \in DOMAIN tree[i].recv |-> Ref("inherits", tree[i].recv[b], <<>>, PyDecl(i).id, i)]
DecoratorRefs(i) ==
    IF tree[i].of = None THEN <<>> ELSE <<Ref("decorates", tree[i].of, <<>>, PyDecl(i).id, i)>>

ParsePy ==
    /\ walk = "declare" /\ walk' = "calls"
    /\ LET defs == FuncDefs
           classes == NodesOf({"class"})
           decls == InOrder(ToSet(classes \o defs))
           importing == NodesOf({"import"})
       IN /\ nodes' = [k \in DOMAIN decls |-> PyDecl(decls[k])]
          /\ refs' = FlattenSeq([k \in DOMAIN classes |-> BaseRefs(classes[k])])
                       \o FlattenSeq([k \in DOMAIN defs |-> DecoratorRefs(defs[k])])
          /\ bases' = [t \in ToSet(NameOrder) |->
                         Only(NameOrder, UNION {ToSet(tree[i].recv) : i \in {c \in ToSet(classes) : tree[c].name = t}})]
          /\ types' = FoldLeft(FuncTypes, NoTypes, defs)
          /\ imports' = [k \in DOMAIN importing |-> ImportOf(tree[importing[k]])]
    /\ UNCHANGED tree

PyNext == VisitPy \/ ParsePy \/ (Calls /\ UNCHANGED typedVars)

PySpec == ExtractionInit /\ TypedInit /\ [][PyNext]_<<treeVars, typedVars>>

-----------------------------------------------------------------------------
(* What the source says.                                                   *)

\* The type of variable v in the function around node i, if it is plain: self of a method
\* that gives the name to nothing else, or each parameter and assignment of that name shows
\* the same type, also in functions inside, where not all of them are.
PyTypes(i, v) ==
    LET ds == {j \in InFunction(i) : tree[j].k \in {"param", "assign"} /\ tree[j].name = v}
    IN IF v = "self" THEN IF ds = {} THEN {ClassOf(j) : j \in SameFunction(i)} \ {None} ELSE {}
       ELSE IF (\A j \in ds : tree[j].of # None) /\ \E j \in ds : Innermost({"function"}, j) \in SameFunction(i)
            THEN {tree[j].of : j \in ds}
       ELSE {}

\* What an assignment to a field shows: a type, or a parameter of one.
Shown(j) ==
    IF tree[j].of # None THEN {tree[j].of}
    ELSE IF tree[j].recv = <<>> THEN {}
    ELSE IF \E p \in DOMAIN tree : tree[p].k = "param" /\ tree[p].up = Innermost({"function"}, j) /\ tree[p].name = tree[j].recv[1]
         THEN PyTypes(j, tree[j].recv[1])
    ELSE {}

\* The type of a field of a class: none if no __init__ of it assigns to the field. It is plain
\* if each assignment in a method shows the same type, and one is in an __init__ itself; what
\* is recorded otherwise is not told.
PyFieldTypes(type, field) ==
    LET methods == {m \in DOMAIN tree : tree[m].k = "function" /\ ClassOf(m) = type}
        sets == {j \in DOMAIN tree : tree[j].k = "attr" /\ tree[j].name = field /\ Around(tree, j) \cap methods # {}}
        inits == {j \in sets : \E m \in Around(tree, j) \cap methods : InInit(m)}
        own == {j \in inits : tree[j].up \in methods /\ InInit(tree[j].up)}
    IN IF inits = {} THEN {}
       ELSE IF own # {} /\ (\A j \in sets : Shown(j) # {}) /\ \A j \in inits \ own : tree[j].of # None
            THEN UNION {Shown(j) : j \in sets}
       ELSE {None}
=============================================================================
