--------------------------- MODULE TypedExtraction ---------------------------
(***************************************************************************)
(* What the plugins of Go, Python and TypeScript record beside Extraction: *)
(* imports and the types of fields, parameters, local variables and        *)
(* receivers (ir.go).                                                      *)
(* Each variable is recorded under the function declaration around it,     *)
(* blocks and closures aside: of several declarations of a name in one     *)
(* function, the last counts.                                              *)
(*                                                                         *)
(* `of` is a type as it is written, but for the marks of a pointer, a      *)
(* slice or a generic.  What is recorded is its bare name: BaseTypeName    *)
(* drops the package of a qualified type, too.                             *)
(***************************************************************************)
EXTENDS Extraction

CONSTANTS
    ModulePath,     \* of the file
    ImportPaths,    \* import path -> how it may match a module
    Exported,       \* the names seen from outside of a file
    Qualified       \* a type written with a package -> that package, and the bare name

ASSUME TypedExtractionAssumption ==
    None \notin DOMAIN Qualified /\ \A t \in DOMAIN Qualified : Qualified[t].name # None

VARIABLES
    types,      \* ir.Types: fields, methods and vars
    imports     \* ir.Imports

typedVars == <<types, imports>>

NoTypes == [fields |-> [x \in {} |-> None], methods |-> {}, vars |-> [x \in {} |-> None]]

TypedInit == types = NoTypes /\ imports = <<>>

\* What is left of a type without a package.
BaseTypeName(t) == IF t \in DOMAIN Qualified THEN Qualified[t].name ELSE t

\* A map in which one key has been written.
Written(map, key, value) == [x \in DOMAIN map \cup {key} |-> IF x = key THEN value ELSE map[x]]

WithVar(ts, id, name, type) == [ts EXCEPT !.vars = Written(@, <<id, name>>, type)]
WithField(ts, type, field, is) == [ts EXCEPT !.fields = Written(@, <<type, field>>, is)]
WithMethod(ts, type, name) == [ts EXCEPT !.methods = @ \cup {[type |-> type, name |-> name]}]

\* Nodes in source order.
InOrder(is) == FlattenSeq([i \in DOMAIN tree |-> IF i \in is THEN <<i>> ELSE <<>>])
NodesOf(kinds) == InOrder({i \in DOMAIN tree : tree[i].k \in kinds})
InClass(i) == \E j \in Around(tree, i) : tree[j].k = "class"
ClassOf(i) == IF tree[i].up # 0 /\ tree[tree[i].up].k = "class" THEN tree[tree[i].up].name ELSE None

\* The nearest node of one of these kinds around node i, or 0.
Innermost(kinds, i) == Max({0} \cup {j \in Around(tree, i) : tree[j].k \in kinds})

\* Repeats of a name are not numbered.
PlainDecl(kind, name, q, at) ==
    [id |-> [file |-> Path, q |-> q, n |-> 1], kind |-> kind, name |-> name, line |-> at, exported |-> name \in Exported]

\* An import names a path, and an alias, or "*" for all that is there, or what is taken.
ImportOf(n) ==
    ImportPaths[n.name] @@ [alias |-> IF n.of = "*" THEN None ELSE n.of, wildcard |-> n.of = "*", names |-> ToSet(n.recv)]

TypedExtracted ==
    [Extracted EXCEPT
       !.module = ModulePath, !.imports = imports, !.methods = {<<m.type, m.name>> : m \in types.methods},
       !.vars = {[scope |-> v[1], name |-> v[2], is |-> types.vars[v]] : v \in DOMAIN types.vars},
       !.fields = {[type |-> x[1], field |-> x[2], is |-> types.fields[x]] : x \in DOMAIN types.fields}]

-----------------------------------------------------------------------------
(* What the source says of a variable.                                     *)

\* The functions with the id of the nearest declared one around node i.
SameFunction(i) ==
    LET around == FunctionsAround(i)
    IN {d.line : d \in {e \in ToSet(nodes) : /\ e.kind \in {"function", "method"}
                                            /\ \E n \in around : e.id = n.id /\ \A m \in around : m.line <= n.line}}

\* The nodes in them.
InFunction(i) == {j \in DOMAIN tree : Around(tree, j) \cap SameFunction(i) # {}}
=============================================================================
