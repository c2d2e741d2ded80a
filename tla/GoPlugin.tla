------------------------------- MODULE GoPlugin -------------------------------
(***************************************************************************)
(* Pass 1 for a Go file (pkg/lang/golang).  Go shows the types of fields,  *)
(* receivers, parameters and many local variables: `of` is the type where  *)
(* a node has one, and `recv` the name of a method's receiver or the parts *)
(* of a call's.  An embedded field has no name; a field whose type is a    *)
(* struct without a name has the fields of that in it.                     *)
(***************************************************************************)
EXTENDS TypedExtraction

CONSTANTS
    GoSyntax,           \* what a node may be, its place in the tree aside
    AnonymousStruct,    \* the type of a field that is written out as a struct
    MaxGoTree           \* bound: nodes of a tree

ASSUME GoPluginAssumption ==
    /\ \A n \in GoSyntax : /\ n.k \in {"import", "class", "interface", "field", "signature", "typename", "function",
                                       "method", "param", "var", "short", "closure", "call"}
                           /\ DOMAIN n = {"k", "name", "of", "recv"} /\ n.recv \in Seq(STRING)
    /\ MaxGoTree \in Nat

-----------------------------------------------------------------------------
(* Where the grammar has which nodes.                                      *)

Decls == {"function", "method"}

Fits(n, up) ==
    LET within == IF up = 0 THEN "file" ELSE tree[up].k
    IN CASE n.k = "import" -> within = "file" /\ \A i \in DOMAIN tree : tree[i].k = "import"
         [] n.k \in Decls -> within = "file"
         [] n.k \in {"class", "interface"} -> within \in {"file", "closure"} \cup Decls
         [] n.k = "field" -> within = "class" \/ (within = "field" /\ tree[up].of = AnonymousStruct)
         [] n.k = "signature" -> within = "interface"
         [] n.k = "typename" -> within \in {"interface", "signature"}
         [] n.k = "param" -> within \in Decls /\ \A i \in up + 1 .. Len(tree) : tree[i].k = "param"
         [] n.k = "call" -> within \in {"file", "closure"} \cup Decls
         [] n.k \in {"var", "short", "closure"} -> within \in {"closure"} \cup Decls

\* The nearest node of one of these kinds around a node whose parent is i.
Nearest(kinds, i) == Max({j \in {i} \cup Around(tree, i) : tree[j].k \in kinds})

\* The id of the function around it.
OwnerID(i) == (CHOOSE d \in ToSet(nodes) : d.line = Nearest(Decls, i)).id

-----------------------------------------------------------------------------
(* What is recorded of a node.                                             *)

ImportSpec(n) ==
    /\ n.k = "import"
    /\ imports' = Append(imports, ImportOf(n))
    /\ UNCHANGED <<nodes, bases, types>>

TypeSpec(n, at) ==
    /\ n.k \in {"class", "interface"}
    /\ nodes' = Append(nodes, PlainDecl(n.k, n.name, <<n.name>>, at))
    /\ types' = IF n.k = "class" THEN types ELSE [types EXCEPT !.methods = {m \in @ : m.type # n.name}]
    /\ UNCHANGED <<bases, imports>>

\* Fields of a struct without a name are recorded as those of the type it is in, over what
\* was recorded of that name; an embedded field is not recorded.
FieldDeclaration(n) ==
    /\ n.k = "field"
    /\ types' = IF None \in {n.name, n.of} THEN types
                ELSE WithField(types, tree[Nearest({"class"}, n.up)].name, n.name, BaseTypeName(n.of))
    /\ UNCHANGED <<nodes, bases, imports>>

MethodElem(n) ==
    /\ n.k = "signature"
    /\ types' = WithMethod(types, tree[Nearest({"interface"}, n.up)].name, n.name)
    /\ UNCHANGED <<nodes, bases, imports>>

\* An embedded interface; a type named in the signature of a method counts as one, too.
TypeIdentifier(n) ==
    /\ n.k = "typename"
    /\ LET type == tree[Nearest({"interface"}, n.up)].name
       IN bases' = IF n.name = type THEN bases
                   ELSE [bases EXCEPT ![type] =
                           FlattenSeq([i \in DOMAIN NameOrder |-> Only(Append(@, n.name), {NameOrder[i]})])]
    /\ UNCHANGED <<nodes, types, imports>>

GoFuncDecl(n, at) ==
    /\ n.k = "function"
    /\ nodes' = Append(nodes, PlainDecl("function", n.name, <<n.name>>, at))
    /\ UNCHANGED <<bases, types, imports>>

\* A slip: the receiver is no variable of the method.
MethodDeclNoReceiver(n, at) ==
    /\ n.k = "method"
    /\ nodes' = Append(nodes, PlainDecl("method", n.name, <<BaseTypeName(n.of), n.name>>, at))
    /\ types' = WithMethod(types, BaseTypeName(n.of), n.name)
    /\ UNCHANGED <<bases, imports>>

MethodDecl(n, at) ==
    /\ n.k = "method"
    /\ LET type == BaseTypeName(n.of)
           d == PlainDecl("method", n.name, <<type, n.name>>, at)
           ts == WithMethod(types, type, n.name)
       IN /\ nodes' = Append(nodes, d)
          /\ types' = IF n.recv = <<>> THEN ts ELSE WithVar(ts, d.id, n.recv[1], type)
    /\ UNCHANGED <<bases, imports>>

\* paramTypes and localTypes: what shows no type leaves an earlier record as it is.
Variable(n) ==
    /\ n.k \in {"param", "var", "short"}
    /\ types' = IF n.of = None THEN types ELSE WithVar(types, OwnerID(n.up), n.name, BaseTypeName(n.of))
    /\ UNCHANGED <<nodes, bases, imports>>

\* The parameters of a closure are not looked at.
PassGo(n) == n.k \in {"closure", "call"} /\ UNCHANGED <<nodes, bases, types, imports>>

VisitGo ==
    /\ walk = "declare" /\ Len(tree) < MaxGoTree
    /\ \E s \in GoSyntax, up \in Parents :
          LET n == [k |-> s.k, name |-> s.name, of |-> s.of, recv |-> s.recv, up |-> up]
              at == Len(tree) + 1
          IN /\ Fits(s, up)
             /\ tree' = Append(tree, n)
             /\ \/ ImportSpec(n) \/ TypeSpec(n, at) \/ FieldDeclaration(n) \/ MethodElem(n) \/ TypeIdentifier(n)
                \/ GoFuncDecl(n, at) \/ MethodDecl(n, at) \/ Variable(n) \/ PassGo(n)
    /\ UNCHANGED <<refs, walk>>

\* All references are calls, each from a declaration, so there are no orphans to drop.
EndOfGoFile == walk = "declare" /\ walk' = "calls" /\ UNCHANGED <<tree, nodes, refs, bases, typedVars>>

GoNext == VisitGo \/ EndOfGoFile \/ (Calls /\ UNCHANGED typedVars)

GoSpec == ExtractionInit /\ TypedInit /\ [][GoNext]_<<treeVars, typedVars>>

-----------------------------------------------------------------------------
(* What the source says.                                                   *)

\* What declares variable v in the function around node i.
Declarations(i, v) ==
    {j \in SameFunction(i) : tree[j].k = "method" /\ tree[j].recv # <<>> /\ tree[j].recv[1] = v}
      \cup {j \in InFunction(i) : tree[j].k \in {"param", "var", "short", "closure"} /\ tree[j].name = v}

\* Its type, if it is plain: every declaration shows the same one.
GoTypes(i, v) ==
    LET ds == Declarations(i, v)
    IN IF \A j \in ds : tree[j].k # "closure" /\ tree[j].of # None THEN {tree[j].of : j \in ds} ELSE {}

\* The type of a field of a struct: none if none of the name is in the struct, and one that is
\* plain if the struct has it itself and those inside it that share the name have the same
\* type. An embedded field goes by the name of its type and leaves no record: it is not told.
GoFieldTypes(type, field) ==
    LET within == {j \in DOMAIN tree : tree[j].k = "field" /\ tree[Innermost({"class"}, j)].name = type}
        named == {j \in within : tree[j].name = field}
        embedded == {j \in within : tree[j].name = None /\ BaseTypeName(tree[j].of) = field}
    IN IF named \cup embedded = {} THEN {}
       ELSE IF field # None /\ embedded = {} /\ \E j \in named : tree[tree[j].up].k = "class" THEN {tree[j].of : j \in named}
       ELSE {None}
=============================================================================
