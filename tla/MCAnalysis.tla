----------------------------- MODULE MCAnalysis -----------------------------
(***************************************************************************)
(* One question about one small graph: four symbols, one of which may have *)
(* no row, with a few calls between them and perhaps an import or a second *)
(* call of the same symbol; or a call of a tool on one.                    *)
(***************************************************************************)
EXTENDS Reach, Components, CallPaths, Impact, Tools

CONSTANTS a, b, c, d, MaxCalls, MaxUses

VARIABLE asked    \* which analysis runs

MCNodes == {a, b, c, d}
MCKinds == {"calls", "imports"}

LineOf(n) == CASE n = a -> 1 [] n = b -> 2 [] n = c -> 3 [] n = d -> 3
E(m, n, kind, line) == [src |-> m, tgt |-> n, kind |-> kind, line |-> line]
Pairs == {p \in MCNodes \X MCNodes : p[1] # p[2]}
Calls == {E(p[1], p[2], "calls", LineOf(p[2])) : p \in Pairs}
UpTo(k, S) == {{f[i] : i \in DOMAIN f} : f \in UNION {[1 .. j -> S] : j \in 0 .. k}}
Extras == {{}, {E(a, d, "imports", 1)}, {E(d, a, "imports", 1)}, {E(a, c, "calls", 1)}, {E(b, b, "calls", 1)}}

GraphOf(ns, es) == [nodes |-> ns, edges |-> es, roots |-> {a, c}, callables |-> ns \ {c}]

SmallGraphs == {GraphOf(ns, es \cup xs) :
                   ns \in {MCNodes, MCNodes \ {b}}, es \in UpTo(MaxCalls, Calls), xs \in Extras}
PlainGraphs == {GraphOf(ns, es) : ns \in {MCNodes, MCNodes \ {b}}, es \in UpTo(MaxCalls, Calls)}
UseGraphs == {GraphOf(MCNodes, es) : es \in UpTo(MaxUses, Calls)}

Ask(task, depths, limits) ==
    [task : {task}, seed : {a}, kinds : {{"calls"}}, maxDepth : depths, limit : limits]
NoQuery == CHOOSE q \in Ask("dead", {0}, {0}) : TRUE
MCQueries == Ask("reverse", 1 .. 2, 1 .. 2) \cup Ask("forward", 1 .. 2, 0 .. 2)
                \cup Ask("neighborhood", 1 .. 2, 0 .. 3) \cup {NoQuery}

\* Each symbol a group of its own; or two in one group, and one in none.
Apart == [n \in MCNodes |-> n]
Coarse == [n \in MCNodes |-> IF n = d THEN a ELSE IF n = c THEN NoGroup ELSE n]
MCGroupings == {Apart, Coarse}

Request1(task, to, k, limit) ==
    [task |-> task, from |-> a, to |-> to, maxDepth |-> k, limit |-> limit]
NoRequest == Request1("paths", a, 0, 1)
MCRequests == {Request1("paths", d, k, l) : k \in 1 .. 3, l \in 0 .. 2}
                 \cup {Request1("trace", a, k, l) : k \in 2 .. 3, l \in {2, 4, 9}} \cup {NoRequest}

-----------------------------------------------------------------------------
(* Patches of a file with symbols a and b, and of the file of test c.      *)

MCNoPath == <<>>
MCDevNull == <<"dev", "null">>
MCJunk == <<"x">>
Src == <<"core", "src">>
Test == <<"core", "test">>
Web == <<"web", "api">>

OpsOf(n, dels) == {s \in UNION {[1 .. k -> {"keep", "del", "add"}] : k \in n .. n + dels} :
                     Cardinality({i \in DOMAIN s : s[i] # "del"}) = n /\ \E i \in DOMAIN s : s[i] # "keep"}
Script(ops, odd, look) == [i \in DOMAIN ops |-> [op |-> ops[i], look |-> IF i = odd THEN look ELSE "plain"]]
Scripts == {Script(ops, 0, "plain") : ops \in OpsOf(3, 2)}
              \cup {Script(ops, i, look) : ops \in OpsOf(3, 1), i \in 1 .. 2, look \in {"blank", "header"}}
AFew == {Script(ops, 0, "plain") : ops \in {<<"keep", "keep", "add">>, <<"add", "keep", "keep">>, <<"keep", "add", "del", "keep">>}}
File3(s, k) == [old |-> Src, new |-> Src, script |-> s, context |-> k]
All(op) == Script(<<op, op>>, 0, "plain")
TestFiles == {<<>>, <<[old |-> Test, new |-> MCDevNull, script |-> All("del"), context |-> 3]>>,
              <<[old |-> MCDevNull, new |-> Test, script |-> All("add"), context |-> 3]>>}
ManyPatches == {<<File3(s, k)>> \o ps : s \in Scripts, k \in 0 .. 1, ps \in TestFiles}
FewPatches == {<<File3(s, 0)>> : s \in AFew}
MCPatches == ManyPatches \cup FewPatches

\* b after a, or in it.
FileAt == [n \in MCNodes |-> CASE n \in {a, b} -> Src [] n = c -> Test [] n = d -> Web]
LayoutOf(first, last) == [file |-> FileAt, first |-> first, last |-> last, tests |-> {c}]
FirstLine == [n \in MCNodes |-> IF n = b THEN 3 ELSE 1]
Beside == LayoutOf(FirstLine, [n \in MCNodes |-> IF n = b THEN 3 ELSE 2])
Nested == LayoutOf([FirstLine EXCEPT ![b] = 2], [n \in MCNodes |-> IF n = a THEN 3 ELSE 2])
MCLayouts == {Beside, Nested}

P(dir, glob) == [dir |-> dir, glob |-> glob]
Forbidding == [forbidden |-> {[from |-> P(<<"core">>, "*"), to |-> P(Web, "none")]}, layers |-> <<>>]
Layered == [forbidden |-> {}, layers |-> <<P(<<"web">>, "**"), P(<<"core">>, "none")>>]
MCRules == {Forbidding, Layered}

\* Calls of each symbol stand in its first line.
CallsOut == {E(p[1], p[2], "calls", FirstLine[p[1]]) : p \in {q \in Pairs : q[1] # d}} \cup {E(b, d, "imports", 3)}
UsesOf(k) == {GraphOf(MCNodes, es) : es \in UpTo(k, CallsOut)}
Chains == {GraphOf(MCNodes, {E(c, a, "calls", 1), E(a, b, "calls", 1), E(b, d, "calls", 3)}),
           GraphOf(MCNodes \ {b}, {E(c, b, "calls", 1), E(b, a, "calls", 3), E(a, d, "calls", 1)})}
ImpactGraphs == UsesOf(3) \cup Chains

MCGraphs == SmallGraphs \cup UseGraphs \cup ImpactGraphs

-----------------------------------------------------------------------------
(* Calls of the tools that look for words.                                 *)

MCPlace == [n \in MCNodes |-> CASE n = a -> 1 [] n = b -> 2 [] n = c -> 3 [] n = d -> 4]
Indexes == {s \in UNION {[1 .. k -> MCNodes] : k \in 0 .. 4} : IsInjective(s)}
FitOf(exact, prefix, part) ==
    [n \in MCNodes |-> CASE n = exact -> "exact" [] n = prefix -> "prefix" [] n = part -> "part" [] OTHER -> "none"]
Searches == [tool : {"search"}, limit : 0 .. 2, index : Indexes, wanted : {MCNodes, MCNodes \ {a}},
             fit : {FitOf(0, 0, 0), FitOf(d, c, b), FitOf(c, 0, d), FitOf(0, b, d)}]
Token(hits, equal, part) == [hits |-> hits, equal |-> equal, part |-> part]
Tasks == [tool : {"task"}, limit : 0 .. 3,
          tokens : {<<Token({a}, {}, {})>>, <<Token({b, d}, {c}, {}), Token({}, {}, {b})>>, <<Token({}, {a}, {a, d})>>}]
MCToolArgs == Searches \cup Tasks
NoArgs == CHOOSE x \in Tasks : TRUE

-----------------------------------------------------------------------------
NoPatch == patch = <<>> /\ text = <<>> /\ current = <<>> /\ diffs = <<>> /\ oldLine = 0 /\ newLine = 0
NoImpact ==
    /\ NoPatch
    /\ layout = Beside /\ rules = Layered
    /\ unmapped = <<>> /\ changed = {} /\ unselected = {}
    /\ selected = [m \in {} |-> 0] /\ violations = {} /\ stage = "read"

Init ==
    /\ asked \in {"reach", "cycles", "paths", "impact", "search", "task"}
    /\ \/ graph \in SmallGraphs /\ asked \in {"reach", "cycles", "paths"}
       \/ graph \in ImpactGraphs /\ asked = "impact"
       \/ graph \in UseGraphs /\ asked = "cycles"
       \/ graph \in {GraphOf(MCNodes, {}), GraphOf(MCNodes \ {b}, {})} /\ asked = "search"
       \/ graph \in PlainGraphs /\ asked = "task"
    /\ args \in CASE asked = "search" -> Searches [] asked = "task" -> Tasks [] OTHER -> {NoArgs}
    /\ ToolsInit
    /\ query \in IF asked = "reach" THEN MCQueries ELSE {NoQuery}
    /\ groupOf \in IF asked = "cycles" THEN MCGroupings ELSE {Apart}
    /\ request \in IF asked = "paths" THEN MCRequests ELSE {NoRequest}
    /\ ReachInit /\ SccInit /\ PathsInit
    /\ IF asked = "impact" THEN /\ IF graph \in Chains THEN patch \in ManyPatches /\ rules = Layered ELSE patch \in FewPatches
            /\ ImpactInit
       ELSE NoImpact

Next ==
    /\ \/ asked = "reach" /\ ReachNext /\ UNCHANGED <<sccVars, pathVars, impactVars, toolVars>>
       \/ asked = "cycles" /\ SccNext /\ UNCHANGED <<reachVars, pathVars, impactVars, toolVars>>
       \/ asked = "paths" /\ PathsNext /\ UNCHANGED <<reachVars, sccVars, impactVars, toolVars>>
       \/ asked = "impact" /\ ImpactNext /\ UNCHANGED <<reachVars, sccVars, pathVars, toolVars>>
       \/ asked \in {"search", "task"} /\ ToolsNext /\ UNCHANGED <<reachVars, sccVars, pathVars, impactVars>>
    /\ UNCHANGED <<graph, asked>>

Spec == Init /\ [][Next]_<<graph, asked, reachVars, sccVars, pathVars, impactVars, toolVars>>
=============================================================================
