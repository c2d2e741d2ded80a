------------------------------- MODULE Passes -------------------------------
(***************************************************************************)
(* The two passes together: the references of one file are extracted, by   *)
(* the generic plugins or by those of Go, Python and TypeScript, and       *)
(* resolved with those of another file; or they are resolved in one of a   *)
(* number of given repositories.                                           *)
(***************************************************************************)
EXTENDS GoPlugin, PythonPlugin, TypeScriptPlugin, Resolver

CONSTANTS
    Others,         \* plugin -> what the other file may be
    MaxResolved,    \* bound: nodes of a tree that is resolved
    MaxFree,        \* bound: nodes of a tree of Go that begins in any way
    Heads,          \* bound: plugin -> how larger trees begin
    MaxBeyond       \* bound: nodes that follow

ASSUME PassesAssumption ==
    /\ Path # "external" /\ Family \in ToSet(Families) /\ None = NoType
    /\ \A p \in {"generic", "go", "python", "typescript"} : \A f \in Others[p] : Sound({f}) /\ f.path # Path

VARIABLES
    stage,      \* "extract" or "resolve"
    plugin      \* "generic", "go", "python" or "typescript"

passVars == <<stage, plugin>>

-----------------------------------------------------------------------------
Init ==
    /\ ExtractionInit /\ TypedInit
    /\ \/ stage = "extract" /\ plugin \in {"generic", "go", "python", "typescript"} /\ ResolverInit({})
       \/ stage = "resolve" /\ plugin = "generic" /\ \E fs \in Repos : ResolverInit(fs)

\* The first nodes of a larger tree are given.
Headed == \E h \in Heads[plugin] : IsPrefix(tree', h) \/ (IsPrefix(h, tree') /\ Len(tree') <= Len(h) + MaxBeyond)

\* Larger trees are resolved only if they have a call with a receiver that may be typed.
CallsMethod == plugin # "generic" /\ \E i \in DOMAIN tree : tree[i].k = "call" /\ tree[i].recv # <<>>

\* What EnsureFresh does between the passes: it hands over all parsed files.
HandOver ==
    /\ stage = "extract" /\ walk = "done"
    /\ Len(tree) <= MaxResolved \/ CallsMethod
    /\ stage' = "resolve"
    /\ \E f \in Others[plugin] : repo' = {f, IF plugin = "generic" THEN Extracted ELSE TypedExtracted}
    /\ UNCHANGED <<plugin, treeVars, typedVars, files, pick, todo, edges, external, runs, answers>>

Extract ==
    \/ plugin = "generic" /\ ExtractionNext /\ UNCHANGED typedVars
    \/ plugin = "go" /\ GoNext /\ (Len(tree') <= MaxFree \/ Headed)
    \/ plugin = "python" /\ PyNext /\ Headed
    \/ plugin = "typescript" /\ TsNext /\ Headed

Next ==
    \/ stage = "extract" /\ Extract /\ UNCHANGED <<passVars, vars>>
    \/ HandOver
    \/ stage = "resolve" /\ ResolverNext /\ UNCHANGED <<passVars, treeVars, typedVars>>

Spec == Init /\ [][Next]_<<passVars, treeVars, typedVars, vars>>

-----------------------------------------------------------------------------
(* What must hold of both passes.                                          *)

\* The types that a variable is shown to have, and a field in the tree, as they are written.
PlainTypes(i, v) ==
    CASE plugin = "go" -> GoTypes(i, v) [] plugin = "python" -> PyTypes(i, v) [] plugin = "typescript" -> TsTypes(i, v)
OwnFieldTypes(type, field) ==
    CASE plugin = "go" -> GoFieldTypes(type, field)
      [] plugin = "python" -> PyFieldTypes(type, field)
      [] plugin = "typescript" -> TsFieldTypes(type, field)

BareNames(written) == {BaseTypeName(t) : t \in written}

\* What another file of the language tells of a field.
TypesToldIn(f, type, field) == {x.is : x \in {y \in f.fields : y.type = type /\ y.field = field}}

OtherFiles == FilesOf(Family) \ {File(Path)}

\* The bare types of a field in either file.
FieldTypes(type, field) ==
    BareNames(OwnFieldTypes(type, field)) \cup UNION {TypesToldIn(f, type, field) : f \in OtherFiles}

\* The modules with a declaration of a type, or of a method of it.
Declaring(type) ==
    {f.module : f \in {g \in FilesOf(Family) :
                         \E i \in DOMAIN g.nodes : g.nodes[i].kind # "function" /\ g.nodes[i].id.q[1] = type}}

\* The imports that a written type may come by, as the languages have it: that of its package
\* or namespace, or for a bare name one that names it or takes all there is (which in
\* TypeScript is an export).
ImportsOf(written) ==
    {imp \in ToSet(imports) :
       IF written \in DOMAIN Qualified
       THEN AliasOf(imp) = Qualified[written].package /\ (imp.wildcard => imp.alias # None)
       ELSE written \in imp.names \/ (imp.wildcard /\ imp.alias = None /\ plugin # "typescript")}

\* The modules it may be from: those, and that of the file itself.
ModulesOf(written) ==
    UNION {ToSet(imp.tries) \cup imp.near : imp \in ImportsOf(written)}
      \cup {m \in {ModulePath} \cap Declaring(written) : written \notin DOMAIN Qualified}

\* The source means a type of this module by a receiver whose first part has these types: it is
\* of the module, or it has a field that is shown to be where the type of the receiver is from.
\* What another file tells of fields is taken to be of its own module.
IsMeant(first, recv, module) ==
    \A t \in first :
       IF Len(recv) = 1 THEN ModulesOf(t) = {module}
       ELSE /\ \A u \in OwnFieldTypes(BaseTypeName(t), recv[2]) : ModulesOf(t) = {ModulePath} /\ ModulesOf(u) = {module}
            /\ \A f \in OtherFiles : TypesToldIn(f, BaseTypeName(t), recv[2]) # {} => ModulesOf(t) = {f.module} /\ f.module = module

IsOne(S) == \E x \in S : S = {x}

\* In Go, Python and TypeScript a method call is exact from what is written: where the receiver is a
\* variable with one plain type in its function, or a field of one, and one method of that
\* name is declared for a type of that name, in either file, and the type meant is from the
\* same module as the method, the call leads to it and nowhere else.
\* (`super` is no variable.)
CallsLeadHome ==
    stage = "resolve" /\ plugin # "generic" /\ todo = {} /\ runs > 0 =>
       \A i \in {j \in DOMAIN tree : tree[j].k = "call" /\ Len(tree[j].recv) \in 1 .. 2 /\ tree[j].recv[1] # "super"} :
          LET recv == tree[i].recv
              first == PlainTypes(i, recv[1])
              plain == IF Len(recv) = 1 THEN BareNames(first) ELSE UNION {FieldTypes(BaseTypeName(t), recv[2]) : t \in first}
              homes == {Node(p) : p \in {h \in PlacesOf(Family) : /\ D(h).kind = "method"
                                                                  /\ \E t \in plain : Node(h).q = <<t, tree[i].name>>}}
              leads == {e \in DOMAIN edges : e[1].file = Path /\ e[3] = "calls" /\ e[4] = i}
          IN IsOne(first) /\ IsOne(plain) /\ None \notin plain /\ IsOne(homes)
             /\ (\A home \in homes : IsMeant(first, recv, File(home.file).module))
             => {e[2] : e \in leads} = homes /\ \A e \in leads : edges[e] = "exact"
=============================================================================
