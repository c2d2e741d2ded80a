------------------------------ MODULE Resolver ------------------------------
(***************************************************************************)
(* Pass 2 (pkg/resolver): the references of all files become edges.        *)
(*                                                                         *)
(* A name is looked up by a list of rules, of which the first that finds   *)
(* anything decides the targets and how sure they are.  The index these    *)
(* rules read depends on the order of the files, which is that in which    *)
(* four goroutines of the indexer append them, and, where an import is     *)
(* matched by suffix, on the order of a Go map: both are chosen anew in    *)
(* each run.  `Begin` may run again on the same files; the graphs of all   *)
(* runs so far are kept in `answers`.                                      *)
(*                                                                         *)
(* A dotted name is the tuple of its parts.  CandidateCount is left out.   *)
(***************************************************************************)
EXTENDS Integers, FiniteSets, SequencesExt

CONSTANTS
    Repos,      \* repositories: sets of FileIRs
    Families,   \* the language families, sorted
    NoType,     \* the empty type name
    MaxRuns     \* bound: runs of Resolve

\* What pass 1 sees to: a path is that of one file, and an id begins with the path of its
\* file and tells the name; a reference comes from a declaration of its own file
\* (dropOrphanRefs).
Sound(fs) ==
    /\ IsFiniteSet(fs)
    /\ \A f, g \in fs : f.path = g.path => f = g
    /\ \A f \in fs :
          /\ f.path # "external" /\ f.family \in ToSet(Families)
          /\ f.nodes \in Seq(ToSet(f.nodes)) /\ f.refs \in Seq(ToSet(f.refs))
          /\ \A t \in DOMAIN f.bases : f.bases[t] \in Seq(ToSet(f.bases[t]))
          /\ IsFiniteSet(DOMAIN f.bases)
          /\ \A x \in f.methods : x = <<x[1], x[2]>>
          /\ \A i \in DOMAIN f.nodes : f.nodes[i].id.file = f.path /\ f.nodes[i].id.q \in Seq(ToSet(f.nodes[i].id.q))
          /\ \A i, j \in DOMAIN f.nodes : f.nodes[i].id = f.nodes[j].id => f.nodes[i].name = f.nodes[j].name
          /\ \A i \in DOMAIN f.refs : \E j \in DOMAIN f.nodes : f.refs[i].from = f.nodes[j].id

ASSUME ResolverAssumption ==
    /\ MaxRuns \in Nat /\ Families \in Seq(ToSet(Families))
    /\ \A fs \in Repos : Sound(fs)

VARIABLES
    repo,       \* the FileIRs, as a set
    files,      \* the same in the order they were handed over
    pick,       \* <<path, i>> -> the module a suffix match finds for its i-th import
    todo,       \* the jobs that are left
    edges,      \* <<source, target, kind, line>> -> confidence
    external,   \* the external nodes made so far
    runs,       \* how many there were
    answers     \* the graphs returned so far

vars == <<repo, files, pick, todo, edges, external, runs, answers>>

-----------------------------------------------------------------------------
(* The index.  A place <<i, j>> is the j-th declaration of the i-th file.  *)

File(path) == CHOOSE f \in ToSet(files) : f.path = path
D(p) == files[p[1]].nodes[p[2]]
FamilyOf(path) == File(path).family
InFamily(fam) == {j \in DOMAIN files : files[j].family = fam}
FilesOf(fam) == {files[j] : j \in InFamily(fam)}

Places == UNION {{<<i, j>> : j \in DOMAIN files[i].nodes} : i \in DOMAIN files}
PlacesOf(fam) == {p \in Places : files[p[1]].family = fam}

Before(p, q) == p[1] < q[1] \/ (p[1] = q[1] /\ p[2] < q[2])
\* What a Go map holds after all of S were written to one key: none or one.
LastOf(S) == {p \in S : \A q \in S \ {p} : Before(q, p)}

\* inFile and byName
InFile(path, name) == LastOf({p \in Places : files[p[1]].path = path /\ D(p).name = name})

\* A slip: of several declarations of a name, the first alone.
FirstByName(fam, name) ==
    LET named == {p \in PlacesOf(fam) : D(p).name = name}
    IN {p \in named : \A q \in named \ {p} : Before(p, q)}

ByName(fam, name) == {p \in PlacesOf(fam) : D(p).name = name}

\* typeMethods[type][Join(m)]
Method(fam, type, m) ==
    LastOf({p \in PlacesOf(fam) : /\ D(p).kind = "method" /\ Len(D(p).id.q) >= 2
                                  /\ Head(D(p).id.q) = type /\ Tail(D(p).id.q) = m})
HasMethods(fam, type) ==
    \E p \in PlacesOf(fam) : D(p).kind = "method" /\ Len(D(p).id.q) >= 2 /\ Head(D(p).id.q) = type

\* What a map of bases holds of a type.
BasesIn(up, type) == IF type \in DOMAIN up THEN up[type] ELSE <<>>

\* typeBases
TypeBases(fam) ==
    [type \in UNION {DOMAIN f.bases : f \in FilesOf(fam)} |->
       FlattenSeq([j \in DOMAIN files |-> IF j \in InFamily(fam) THEN BasesIn(files[j].bases, type) ELSE <<>>])]

\* typeFields["type.field"], NoType if there is none: of several files, the last one's.
Field(fam, type, field) ==
    LET Of(f) == {x \in f.fields : x.type = type /\ x.field = field}
        having == {j \in InFamily(fam) : Of(files[j]) # {}}
    IN IF having = {} THEN NoType ELSE (CHOOSE x \in Of(files[Max(having)]) : TRUE).is

-----------------------------------------------------------------------------
(* Imports.  An import names the module it may be, as written, cleaned and *)
(* relative to its file, in that order, and the modules it is a suffix of  *)
(* or that are a suffix of it.                                             *)

Modules(fam) == {f.module : f \in FilesOf(fam)}
Known(path, imp) == {i \in DOMAIN imp.tries : imp.tries[i] \in Modules(FamilyOf(path))}
ByModule(fam, module) == {j \in InFamily(fam) : files[j].module = module}

\* The imports that come down to the loop over the map.
Guessed(fs) == {s \in UNION {{<<f.path, i>> : i \in DOMAIN f.imports} : f \in fs} :
                  LET f == CHOOSE g \in fs : g.path = s[1]
                      mods == {g.module : g \in {h \in fs : h.family = f.family}}
                  IN ToSet(f.imports[s[2]].tries) \cap mods = {} /\ f.imports[s[2]].near \cap mods # {}}

\* resolveImportTarget
Targets(path, i) ==
    LET imp == File(path).imports[i]
    IN IF Known(path, imp) # {} THEN ByModule(FamilyOf(path), imp.tries[Min(Known(path, imp))])
       ELSE IF <<path, i>> \in DOMAIN pick THEN ByModule(FamilyOf(path), pick[<<path, i>>])
       ELSE {}

Earliest(S) == {j \in S : \A k \in S : j <= k}
Latest(S) == {j \in S : \A k \in S : k <= j}

\* What the i-th import of a file binds `name` to.
Binds(path, i, name) ==
    LET imp == File(path).imports[i]
        found == {j \in Targets(path, i) :
                    /\ InFile(files[j].path, name) # {}
                    /\ imp.wildcard => \A p \in InFile(files[j].path, name) : D(p).exported}
    IN IF imp.wildcard THEN UNION {InFile(files[j].path, name) : j \in Latest(found)}
       ELSE IF name \in imp.names THEN UNION {InFile(files[j].path, name) : j \in Earliest(found)}
       ELSE {}

\* bindings: of several imports, the last.
Bound(path, name) ==
    LET having == {i \in DOMAIN File(path).imports : Binds(path, i, name) # {}}
    IN UNION {Binds(path, i, name) : i \in Latest(having)}

\* What an import is called by: its alias, or the last part of its path, which is dotted in Python.
AliasOf(imp) == IF imp.alias # NoType THEN <<imp.alias>> ELSE IF imp.names = {} THEN imp.base ELSE <<>>

\* The declaration of `name` in the one file that an alias stands for: the first of a module.
ByAlias(path, recv, name) ==
    LET having == {i \in DOMAIN File(path).imports :
                     LET imp == File(path).imports[i]
                     IN ~ imp.wildcard /\ AliasOf(imp) = recv /\ Targets(path, i) # {}}
    IN UNION {UNION {InFile(files[j].path, name) : j \in Earliest(Targets(path, i))} : i \in Latest(having)}

-----------------------------------------------------------------------------
(* Types.                                                                  *)

\* Those of bs that were not seen, each once.
Unseen(bs, seen) ==
    LET some[i \in 0 .. Len(bs)] ==
          IF i = 0 THEN <<>>
          ELSE IF bs[i] \in seen \/ Contains(some[i - 1], bs[i]) THEN some[i - 1]
          ELSE Append(some[i - 1], bs[i])
    IN some[Len(bs)]

VisitBases(up, s) ==
    LET fresh == Unseen(BasesIn(up, Head(s.queue)), s.seen)
    IN [queue |-> Tail(s.queue) \o fresh, seen |-> s.seen \cup ToSet(fresh), last |-> fresh]

AllBases(up) == UNION {ToSet(up[t]) : t \in DOMAIN up}

\* The bases of `type`, breadth first, as far as the first type with a base among `having`:
\* those of its bases that were not seen before.
UpTheBases(up, type, having) ==
    LET n == 1 + Cardinality(AllBases(up))
        walk[k \in 0 .. n] ==
          IF k = 0 THEN [queue |-> <<type>>, seen |-> {type}, last |-> <<>>]
          ELSE LET s == walk[k - 1]
               IN IF s.queue = <<>> \/ ToSet(s.last) \cap having # {} THEN s ELSE VisitBases(up, s)
    IN walk[n].last

\* A slip: not stopping where the method is found.
MethodAnywhere(fam, type, m) == UNION {Method(fam, t, m) : t \in {type} \cup AllBases(TypeBases(fam))}

MethodInHierarchy(fam, type, m) ==
    IF Method(fam, type, m) # {} THEN Method(fam, type, m)
    ELSE LET up == TypeBases(fam)
             having == {b \in AllBases(up) : Method(fam, b, m) # {}}
         IN UNION {Method(fam, t, m) : t \in ToSet(UpTheBases(up, type, having))}

FieldInHierarchy(fam, type, field) ==
    LET up == TypeBases(fam)
        having == {b \in AllBases(up) : Field(fam, b, field) # NoType}
        last == UpTheBases(up, type, having)
        at == {i \in DOMAIN last : last[i] \in having}
    IN IF Field(fam, type, field) # NoType THEN Field(fam, type, field)
       ELSE IF at = {} THEN NoType ELSE Field(fam, last[Min(at)], field)

EnclosingClass(from) == IF Len(from.q) >= 2 THEN from.q[1] ELSE NoType

\* The scope of what is declared outside of any declaration.
FileScope(path) == [file |-> path, q |-> <<>>, n |-> 1]

\* varTypes: the type of variable `name` in a scope, if it is visible.
VarIn(scope, name) == {v.is : v \in {w \in File(scope.file).vars : w.scope = scope /\ w.name = name}}

FirstType(from, first) ==
    LET fam == FamilyOf(from.file)
        here == VarIn(from, first)
        super == BasesIn(TypeBases(fam), EnclosingClass(from))
    IN CASE first \in {"this", "self"} -> IF here # {} THEN CHOOSE t \in here : TRUE ELSE EnclosingClass(from)
         [] first = "super" -> IF super # <<>> THEN Head(super) ELSE NoType
         [] OTHER -> LET found == IF here # {} THEN here ELSE VarIn(FileScope(from.file), first)
                     IN IF found # {} THEN CHOOSE t \in found : TRUE
                        ELSE IF HasMethods(fam, first) THEN first ELSE NoType

\* resolveReceiverType: a chain of fields from its first part on.
ReceiverType(from, recv) ==
    LET type[i \in 1 .. Len(recv)] ==
          IF i = 1 THEN FirstType(from, recv[1])
          ELSE IF type[i - 1] = NoType THEN NoType
          ELSE FieldInHierarchy(FamilyOf(from.file), type[i - 1], recv[i])
    IN type[Len(recv)]
-----------------------------------------------------------------------------
(* The rules.                                                              *)

Node(p) == D(p).id
External(parts) == [file |-> "external", q |-> parts, n |-> 1]

Rule(targets, conf) == [to |-> targets, conf |-> conf]
Found(places, conf) == Rule({Node(p) : p \in places}, conf)
\* One candidate is as sure as the rule, several are ambiguous.
Candidates(places, conf) == Found(places, IF Cardinality(places) = 1 THEN conf ELSE "ambiguous")
Unknown(parts) == Rule({External(parts)}, "unknown")

\* The first rule that finds anything.
Decide(rules) == rules[Min({i \in DOMAIN rules : rules[i].to # {}})]

Single(S) == IF Cardinality(S) = 1 THEN S ELSE {}

\* inherits and implements; all other references go by the rules of calls
BaseRules(path, ref) ==
    << Found(Bound(path, ref.name), "exact"),
       Found(InFile(path, ref.name), "exact"),
       Found(Single(ByName(FamilyOf(path), ref.name)), "exact"),
       Unknown(<<ref.name>>) >>

\* A call without a receiver.
BareRules(path, ref) ==
    << Found(InFile(path, ref.name), "exact"),
       Found(Bound(path, ref.name), "exact"),
       Candidates(ByName(FamilyOf(path), ref.name), "name_match"),
       Unknown(<<ref.name>>) >>

MethodsNamed(fam, name) == {p \in ByName(fam, name) : D(p).kind = "method"}

\* A call with one.
ReceiverRules(path, ref) ==
    LET type == ReceiverType(ref.from, ref.recv)
        fam == FamilyOf(path)
    IN << Candidates(IF type = NoType THEN {} ELSE MethodInHierarchy(fam, type, <<ref.name>>), "exact"),
          Found(ByAlias(path, ref.recv, ref.name), "exact"),
          Candidates(MethodsNamed(fam, ref.name), "name_match"),
          Unknown(Append(ref.recv, ref.name)) >>

RulesFor(path, ref) ==
    IF ref.kind \in {"inherits", "implements"} THEN BaseRules(path, ref)
    ELSE IF ref.recv = <<>> THEN BareRules(path, ref)
    ELSE ReceiverRules(path, ref)

Edge(src, tgt, kind, line) == <<src, tgt, kind, line>>

\* edgeMap: of edges with the same ends, kind and line, the last.
Put(new) == edges' = [e \in DOMAIN new \cup DOMAIN edges |-> IF e \in DOMAIN new THEN new[e] ELSE edges[e]]

-----------------------------------------------------------------------------
(* Interfaces.                                                             *)

\* What a class must have: the methods of the interface's name, declared or in type facts.
Required(fam, iface) ==
    {Tail(D(p).id.q) : p \in {p \in PlacesOf(fam) : /\ D(p).kind = "method" /\ Len(D(p).id.q) >= 2
                                                    /\ Head(D(p).id.q) = iface}}
       \cup UNION {{<<m[2]>> : m \in {x \in f.methods : x[1] = iface}} : f \in FilesOf(fam)}

InFacts(fam, class, m) == \E f \in FilesOf(fam) : <<class>> \o m \in f.methods

\* A slip: one method in common is enough.
HasSome(fam, class, iface) ==
    \E m \in Required(fam, iface) : MethodInHierarchy(fam, class, m) # {} \/ InFacts(fam, class, m)

HasAll(fam, class, iface) ==
    /\ Required(fam, iface) # {}
    /\ \A m \in Required(fam, iface) : MethodInHierarchy(fam, class, m) # {} \/ InFacts(fam, class, m)

\* The class and the interface of an edge.
Matching(fam) ==
    {x \in PlacesOf(fam) \X PlacesOf(fam) :
       /\ D(x[1]).kind = "class" /\ D(x[2]).kind = "interface"
       /\ Node(x[1]) # Node(x[2])
       /\ HasAll(fam, D(x[1]).name, D(x[2]).name)}
Implements(fam) == {Edge(Node(x[1]), Node(x[2]), "implements", D(x[1]).line) : x \in Matching(fam)}

-----------------------------------------------------------------------------
(* A run.                                                                  *)

Orders(S) == {s \in [1 .. Cardinality(S) -> S] : \A x \in S : \E i \in DOMAIN s : s[i] = x}
Picks(fs) ==
    LET mods(fam) == {f.module : f \in {g \in fs : g.family = fam}}
        fileAt(s) == CHOOSE f \in fs : f.path = s[1]
        may(s) == fileAt(s).imports[s[2]].near \cap mods(fileAt(s).family)
    IN {p \in [Guessed(fs) -> UNION {may(s) : s \in Guessed(fs)}] : \A s \in Guessed(fs) : p[s] \in may(s)}

\* What is to do, in this order: <<i, j, k>> is the k-th reference of the j-th file, which
\* is of the i-th family; after the last file come the interfaces of a family, and after
\* the last family the end.
RefJobs(order) ==
    UNION {UNION {{<<i, j, k>> : k \in DOMAIN order[j].refs} :
                    j \in {x \in DOMAIN order : order[x].family = Families[i]}} : i \in DOMAIN Families}
InterfaceJobs(order) == {<<i, Len(order) + 1, 1>> : i \in DOMAIN Families}
EndOfRun == <<Len(Families) + 1, 1, 1>>

Earlier(x, y) ==
    \/ x[1] < y[1]
    \/ x[1] = y[1] /\ x[2] < y[2]
    \/ x[1] = y[1] /\ x[2] = y[2] /\ x[3] < y[3]
IsNext(x) == x \in todo /\ \A y \in todo \ {x} : Earlier(x, y)

Begin ==
    /\ todo = {} /\ runs < MaxRuns
    /\ \E order \in Orders(repo), p \in Picks(repo) :
          /\ files' = order /\ pick' = p
          /\ todo' = RefJobs(order) \cup InterfaceJobs(order) \cup {EndOfRun}
    /\ edges' = [e \in {} |-> "exact"] /\ external' = {}
    /\ runs' = runs + 1
    /\ UNCHANGED <<repo, answers>>

ResolveRef(x) ==
    /\ IsNext(x) /\ x # EndOfRun /\ x[2] \in DOMAIN files
    /\ LET ref == files[x[2]].refs[x[3]]
           rule == Decide(RulesFor(files[x[2]].path, ref))
       IN /\ Put([e \in {Edge(ref.from, t, ref.kind, ref.line) : t \in rule.to} |-> rule.conf])
          /\ external' = external \cup {t \in rule.to : t.file = "external"}
    /\ todo' = todo \ {x}
    /\ UNCHANGED <<repo, files, pick, runs, answers>>

MatchInterfaces(x) ==
    /\ IsNext(x) /\ x # EndOfRun /\ x[2] \notin DOMAIN files
    /\ Put([e \in Implements(Families[x[1]]) |-> "exact"])
    /\ todo' = todo \ {x}
    /\ UNCHANGED <<repo, files, pick, external, runs, answers>>

\* Nodes and edges are sorted, so their order tells nothing of that of the files.
Return ==
    /\ IsNext(EndOfRun)
    /\ answers' = answers \cup {[nodes |-> {Node(p) : p \in Places} \cup external, edges |-> edges]}
    /\ todo' = {}
    /\ UNCHANGED <<repo, files, pick, edges, external, runs>>

ResolverNext == Begin \/ (\E x \in todo : ResolveRef(x) \/ MatchInterfaces(x)) \/ Return

ResolverInit(fs) ==
    /\ repo = fs /\ files = <<>> /\ pick = <<>> /\ todo = {}
    /\ edges = [e \in {} |-> "exact"] /\ external = {} /\ runs = 0 /\ answers = {}

ResolverSpec == (\E fs \in Repos : ResolverInit(fs)) /\ [][ResolverNext]_vars

-----------------------------------------------------------------------------
(* What must hold.                                                         *)

\* The graph holds together, as the indexer and the foreign keys of the store take it
\* to: both ends of an edge have a node, an edge whose target was not found is the only
\* kind that leads to an external node, and none leads into another language.
GraphIsWhole ==
    \A a \in answers : \A e \in DOMAIN a.edges :
          /\ {e[1], e[2]} \subseteq a.nodes
          /\ e[2].file = "external" <=> a.edges[e] = "unknown"
          /\ e[2].file # "external" => FamilyOf(e[1].file) = FamilyOf(e[2].file)

\* The types k bases or fewer above a type.
Above(up, type, k) ==
    LET far[j \in 0 .. k] == IF j = 0 THEN {type}
                             ELSE far[j - 1] \cup UNION {ToSet(BasesIn(up, t)) : t \in far[j - 1]}
    IN far[k]

\* The declarations of method m that are nearest to a type, its own or those of its bases.
NearestTo(fam, type, m) ==
    LET up == TypeBases(fam)
        declared(k) == UNION {Method(fam, t, m) : t \in Above(up, type, k)}
        at == {k \in 0 .. Cardinality(AllBases(up)) : declared(k) # {}}
    IN IF at = {} THEN {} ELSE declared(Min(at))

RefsOf(path) == ToSet(File(path).refs)
AloneOnLine(path, ref) == \A r \in RefsOf(path) : r.line = ref.line /\ r.from = ref.from => r = ref
Resolved(ref) == {e \in DOMAIN edges : e[1] = ref.from /\ e[3] = ref.kind /\ e[4] = ref.line}

\* A call on a receiver of known type runs the nearest declaration: if the type or any
\* type above it declares the method, the call leads there and nowhere else, never to
\* one that a nearer type hides nor to one of another type with a method of that name.
CallsTheNearest ==
    todo = {} => \A f \in ToSet(files) : \A ref \in RefsOf(f.path) :
        ref.kind = "calls" /\ ref.recv # <<>> /\ AloneOnLine(f.path, ref) =>
           LET type == ReceiverType(ref.from, ref.recv)
               nearest == {Node(p) : p \in NearestTo(f.family, type, <<ref.name>>)}
           IN type # NoType /\ nearest # {} =>
                 /\ Resolved(ref) # {} /\ \A e \in Resolved(ref) : e[2] \in nearest

\* A class is said to implement an interface that has another id, beyond what it names
\* itself, just if each method the interface lists is declared for it or for a type it has
\* above it, or listed for it by a file: one short of a method does not.
ImplementsIsStructural ==
    todo = {} => \A i, c \in Places :
        LET fam == files[i[1]].family
            up == TypeBases(fam)
            declared(type) == {Tail(D(p).id.q) : p \in {x \in PlacesOf(fam) : /\ D(x).kind = "method"
                                                                             /\ Len(D(x).id.q) >= 2
                                                                             /\ Head(D(x).id.q) = type}}
            listed(type) == {<<m[2]>> : m \in {x \in UNION {f.methods : f \in FilesOf(fam)} : x[1] = type}}
            must == declared(D(i).name) \cup listed(D(i).name)
            has == listed(D(c).name)
                     \cup UNION {declared(t) : t \in Above(up, D(c).name, Cardinality(AllBases(up)))}
            names == \E ref \in RefsOf(Node(c).file) : ref.kind = "implements" /\ ref.from = Node(c) /\ ref.name = D(i).name
        IN /\ D(i).kind = "interface" /\ D(c).kind = "class" /\ files[c[1]].family = fam
           /\ Node(i) # Node(c) /\ ~ names /\ must # {}
           => ((\E e \in DOMAIN edges : e[1] = Node(c) /\ e[2] = Node(i) /\ e[3] = "implements")
                  <=> must \subseteq has)

\* Every run over the same files returns the same graph.
SameGraph == \A a, b \in answers : a = b

\* What the order of the files may decide: which of two files' methods or fields of one
\* type counts, in which order the bases of a type come, which file of a module an import
\* is taken to, which of several modules a suffix fits.
HasOneHome(fs) ==
    /\ \A f, g \in fs : f # g /\ f.family = g.family =>
          /\ f.module # g.module
          /\ \A i \in DOMAIN f.nodes, j \in DOMAIN g.nodes :
                f.nodes[i].kind = "method" /\ g.nodes[j].kind = "method" => f.nodes[i].id.q # g.nodes[j].id.q
          /\ \A x \in f.fields, y \in g.fields : <<x.type, x.field>> # <<y.type, y.field>>
          /\ \A t \in DOMAIN f.bases \cap DOMAIN g.bases : f.bases[t] = <<>> \/ g.bases[t] = <<>>
    /\ \A p, q \in Picks(fs) : p = q

\* Where each type and each module has one home, the graph does not depend on the order
\* in which workers hand over the files, nor on that of a map.
SameGraphAgain == HasOneHome(repo) => SameGraph
=============================================================================
