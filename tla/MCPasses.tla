------------------------------ MODULE MCPasses ------------------------------
(***************************************************************************)
(* Small syntax trees for Passes, and repositories by hand.                *)
(***************************************************************************)
EXTENDS Passes

S(k, name, of) == [k |-> k, name |-> name, of |-> of, recv |-> <<>>]
R(k, name, of, recv) == [k |-> k, name |-> name, of |-> of, recv |-> recv]
MCSyntax == {S("class", "A", None), S("class", "A", "B"), S("interface", "T", None),
             S("impl", "A", "T"), S("impl", "A", None),
             S("function", "f", None), S("function", "f", "A"), S("function", None, None),
             S("call", "f", None), R("call", "f", None, <<"self">>)}
MCNameOrder == <<"A", "B", "C", "T">>
MCFamilies == <<"first", "second">>

ImportLib == S("import", "my/lib", None)
LibNames == R("import", "my/lib", None, <<"B", "C", "g">>)
ClassA == S("class", "A", None)
FunctionF == S("function", "f", None)

\* How a tree begins.
Up(node, up) == [k |-> node.k, name |-> node.name, of |-> node.of, recv |-> node.recv, up |-> up]
Begin3(s1, s2, up2, s3, up3) == <<Up(s1, 0), Up(s2, up2), Up(s3, up3)>>

\* lib.B is another package's, which declares a type B, too; sync.B is none that is imported.
MCQualified == "lib.B" :> [package |-> <<"lib">>, name |-> "B"] @@ "sync.B" :> [package |-> <<"sync">>, name |-> "B"]

MCGoSyntax ==
    {ImportLib, S("import", "my/lib", "*"),
     ClassA, S("class", "B", None), S("field", "y", "B"), S("field", "y", "C"), S("field", "y", "lib.B"),
     S("field", None, "B"), S("field", "z", "struct"),
     S("interface", "T", None), S("signature", "f", None), S("typename", "B", None),
     FunctionF, R("method", "f", "A", <<"r">>), R("method", "f", "B", <<>>),
     S("param", "x", "B"), S("param", "x", "lib.B"), S("param", "x", "sync.B"),
     S("var", "x", "C"), S("short", "x", "B"), S("short", "x", None), S("closure", "x", "C"),
     S("call", "f", None), S("call", "g", None)}
       \cup {R("call", "f", None, recv) : recv \in {<<"x">>, <<"r">>, <<"x", "y">>, <<"r", "y">>, <<"r", "B">>}}
       \cup {R("call", "g", None, <<"lib">>)}

MCPySyntax ==
    {ImportLib, LibNames,
     ClassA, R("class", "A", None, <<"B">>),
     FunctionF, S("function", "__init__", None), S("function", "f", "g"),
     S("param", "x", "B"), S("param", "x", "lib.B"), S("param", "x", None), S("assign", "x", "C"), R("assign", "x", None, <<"x">>),
     S("attr", "y", "C"), R("attr", "y", None, <<"x">>),
     S("call", "g", None), R("call", "g", None, <<"lib">>)}
       \cup {R("call", "f", None, recv) : recv \in {<<"x">>, <<"self">>, <<"self", "y">>}}

\* Fields with a name or without one, of one struct in another; types of other packages; and
\* functions with a variable of a plain type, or of two.
MCGoHeads ==
    LET field(y, t) == S("field", y, t)
        run == R("method", "f", "A", <<"r">>)
        x(t) == S("param", "x", t)
    IN {Append(Begin3(ClassA, field("y", "B"), 1, field("z", "struct"), 1), Up(field("y", t), 3)) : t \in {"B", "C"}}
         \cup {Append(Begin3(ImportLib, ClassA, 0, field(y, "lib.B"), 2), Up(run, 0)) : y \in {None, "y"}}
         \cup {Begin3(ClassA, field(None, "B"), 1, run, 0), Begin3(ClassA, field("y", "B"), 1, run, 0),
               Begin3(FunctionF, x("B"), 1, S("short", "x", None), 1), Begin3(FunctionF, x("B"), 1, S("closure", "x", "C"), 1),
               Begin3(FunctionF, x("sync.B"), 1, S("var", "x", "C"), 1), Begin3(ImportLib, FunctionF, 0, x("lib.B"), 2),
               Begin3(S("import", "my/lib", "*"), FunctionF, 0, x("B"), 2),
               Begin3(S("class", "B", None), R("method", "f", "B", <<>>), 0, FunctionF, 0)}

MCPyHeads ==
    LET init == S("function", "__init__", None)
    IN {Begin3(ClassA, init, 1, S("param", "x", "B"), 2), Begin3(ClassA, init, 1, S("assign", "x", "C"), 2),
        Begin3(ClassA, FunctionF, 1, FunctionF, 2), Begin3(FunctionF, S("assign", "x", "C"), 1, FunctionF, 1),
        Begin3(FunctionF, S("param", "x", None), 1, FunctionF, 0),
        Begin3(LibNames, R("class", "A", None, <<"B">>), 0, FunctionF, 2), Begin3(LibNames, ClassA, 0, init, 2),
        Begin3(LibNames, FunctionF, 0, S("param", "x", "B"), 2), Begin3(ImportLib, FunctionF, 0, S("param", "x", "lib.B"), 2)}

MCTsSyntax ==
    {LibNames, S("import", "my/lib", "*"), S("namespace", "my/lib", "lib"),
     ClassA, S("class", "A", "T"), R("class", "A", None, <<"B">>),
     S("interface", "T", None), S("signature", "f", None), S("alias", "T", None),
     S("field", "y", "C"), S("method", "f", None), S("method", "constructor", None),
     FunctionF, S("arrow", "h", None), S("closure", "", None),
     S("param", "x", "B"), S("param", "x", "lib.B"), S("param", "x", None), S("var", "x", "C"), S("var", "x", None),
     S("attr", "y", "C"), R("attr", "y", None, <<"x">>), S("call", "g", None), R("call", "g", None, <<"lib">>)}
       \cup {R("call", "f", None, recv) : recv \in {<<"x">>, <<"this">>, <<"this", "y">>}}
MCTsHeads ==
    LET h == S("arrow", "h", None)
    IN {Begin3(ClassA, S("method", "constructor", None), 1, S("param", "x", "B"), 2),
        Begin3(ClassA, S("method", "f", None), 1, h, 2),
        Begin3(ClassA, S("field", "y", "C"), 1, S("method", "f", None), 1), Begin3(FunctionF, S("var", "x", "C"), 1, h, 1),
        Begin3(S("interface", "T", None), S("signature", "f", None), 1, S("class", "A", "T"), 0),
        Begin3(h, S("var", "x", "C"), 1, FunctionF, 0),
        Begin3(LibNames, FunctionF, 0, S("param", "x", "B"), 2), Begin3(LibNames, ClassA, 0, S("field", "y", "C"), 2),
        Begin3(S("namespace", "my/lib", "lib"), FunctionF, 0, S("param", "x", "lib.B"), 2)}

MCHeads == [go |-> MCGoHeads, python |-> MCPyHeads, typescript |-> MCTsHeads]
MCImportPaths == "my/lib" :> [tries |-> <<"my/lib">>, near |-> {"my/lib"}, base |-> <<"lib">>]

-----------------------------------------------------------------------------
(* Files by hand.                                                          *)

N(path, kind, q, line) ==
    [id |-> [file |-> path, q |-> q, n |-> 1], kind |-> kind, name |-> q[Len(q)], line |-> line, exported |-> TRUE]
FileOf(path, fam, module, ns) ==
    [path |-> path, family |-> fam, module |-> module, nodes |-> ns, refs |-> <<>>, imports |-> <<>>,
     vars |-> {}, fields |-> {}, bases |-> [t \in {} |-> <<>>],
     methods |-> {<<n.id.q[1], n.name>> : n \in {m \in ToSet(ns) : m.kind = "method"}}]

\* Another file of the language, and one of another language.
Crate == FileOf("crate", "first", "crate",
                <<N("crate", "class", <<"B">>, 1), N("crate", "method", <<"B", "f">>, 2),
                  N("crate", "interface", <<"T">>, 3), N("crate", "method", <<"T", "f">>, 4)>>)
Alien == FileOf("alien", "second", "alien",
                <<N("alien", "class", <<"B">>, 1), N("alien", "method", <<"B", "f">>, 2), N("alien", "function", <<"f">>, 3)>>)

\* A package of the same language, in another directory.
Lib ==
    [FileOf("lib/lib", "first", "my/lib",
              <<N("lib/lib", "class", <<"B">>, 1), N("lib/lib", "method", <<"B", "f">>, 2),
                N("lib/lib", "class", <<"C">>, 4), N("lib/lib", "method", <<"C", "f">>, 5),
                N("lib/lib", "function", <<"g">>, 6)>>)
       EXCEPT !.fields = {[type |-> "B", field |-> "y", is |-> "C"]}]

\* Another file of the package.
Sibling ==
    FileOf("sib", "first", "app",
           <<N("sib", "class", <<"B">>, 1), N("sib", "method", <<"B", "f">>, 2),
             N("sib", "class", <<"C">>, 3), N("sib", "method", <<"C", "f">>, 4)>>)
MCOthers == [generic |-> {Crate, Alien}, go |-> {Lib, Sibling}, python |-> {Lib}, typescript |-> {Lib}]

\* Types A to D, some with a method f, in one file, and a call of f in A.run; A has a
\* field y of type C, and A.run a variable x of type B.
TypeAt == [A |-> 1, B |-> 3, C |-> 5, D |-> 7]
TypeFile(bs, ms) ==
    LET with(t) == <<N("types", "class", <<t>>, TypeAt[t])>>
                     \o (IF t \in ms THEN <<N("types", "method", <<t, "f">>, TypeAt[t] + 1)>> ELSE <<>>)
    IN [FileOf("types", "second", "types", with("B") \o with("C") \o with("D"))
          EXCEPT !.bases = bs, !.fields = {[type |-> "B", field |-> "y", is |-> "C"]}]
Call(name, recv, line) ==
    [kind |-> "calls", name |-> name, recv |-> recv, line |-> line,
     from |-> [file |-> "app", q |-> <<"A", "run">>, n |-> 1]]
AppFile(bs, recv) ==
    [FileOf("app", "second", "app", <<N("app", "class", <<"A">>, 1), N("app", "method", <<"A", "run">>, 2)>>)
       EXCEPT !.bases = bs, !.refs = <<Call("f", recv, 3)>>,
              !.vars = {[scope |-> Call("f", recv, 3).from, name |-> "x", is |-> "B"]}]
TypeRepos ==
    {{AppFile([t \in {"A"} |-> ba], r), TypeFile([t \in {"B", "C", "D"} |-> CASE t = "B" -> bb [] t = "C" -> bc [] t = "D" -> <<>>], ms)} :
       ba \in {<<>>, <<"B">>, <<"B", "C">>, <<"C", "B">>},
       bb \in {<<>>, <<"D">>}, bc \in {<<>>, <<"D">>, <<"A">>},
       ms \in SUBSET {"B", "C", "D"},
       r \in {<<"self">>, <<"super">>, <<"x">>, <<"D">>, <<"self", "y">>, <<"other">>}}

\* Classes that have, inherit or lack methods of an interface with two.
Iface == <<N("types", "interface", <<"I">>, 1), N("types", "method", <<"I", "f">>, 2), N("types", "method", <<"I", "g">>, 3)>>
ClassRepos ==
    {{[FileOf("app", "second", "app",
              <<N("app", "class", <<"A">>, 1)>> \o [i \in 1 .. Len(as) |-> N("app", "method", <<"A", as[i]>>, 1 + i)])
         EXCEPT !.bases = [t \in {"A"} |-> ba]],
      FileOf("types", "second", "types",
             Iface \o <<N("types", "class", <<"B">>, 4)>> \o [i \in 1 .. Len(bs) |-> N("types", "method", <<"B", bs[i]>>, 4 + i)])} :
       as \in {<<>>, <<"f">>, <<"f", "g">>, <<"h">>}, bs \in {<<>>, <<"g">>, <<"f", "g">>}, ba \in {<<>>, <<"B">>}}

\* An import of a module that one or two files may be, or that a suffix may fit.
Import(tries, near, alias, names, wildcard) ==
    [tries |-> tries, near |-> near, alias |-> alias, names |-> names, wildcard |-> wildcard, base |-> <<"lib">>]
LibFile(path, module, has, shown) ==
    FileOf(path, "second", module,
           <<[N(path, "class", <<"B">>, 1) EXCEPT !.exported = shown]>>
             \o (IF has THEN <<[N(path, "function", <<"g">>, 2) EXCEPT !.exported = shown]>> ELSE <<>>))
Importer(imp, ref) ==
    [FileOf("app", "second", "app", <<N("app", "class", <<"A">>, 1), N("app", "method", <<"A", "run">>, 2)>>)
       EXCEPT !.imports = <<imp>>, !.refs = <<ref>>]
UserRefs == {Call("g", <<>>, 3), Call("g", <<"lib">>, 3),
             [Call("B", <<>>, 1) EXCEPT !.kind = "inherits", !.from.q = <<"A">>]}
Imports == {Import(<<"lib">>, {}, NoType, {}, FALSE), Import(<<"lib">>, {}, NoType, {"g", "B"}, FALSE),
            Import(<<"lib">>, {}, NoType, {}, TRUE), Import(<<"x", "my/lib">>, {"lib"}, "lib", {}, FALSE),
            Import(<<"b">>, {"lib", "my/lib"}, NoType, {"g"}, FALSE)}
ImportRepos ==
    {{Importer(imp, ref), LibFile("lib/a", "lib", h1, s1), LibFile("lib/b", m, h2, TRUE)} :
       imp \in Imports, ref \in UserRefs, h1 \in BOOLEAN, s1 \in BOOLEAN, h2 \in BOOLEAN, m \in {"lib", "my/lib", "other"}}

MCRepos == TypeRepos \cup ClassRepos \cup ImportRepos

\* A Go package of two files, and a call into it: an import path ends in the directory.
GoPackage == {{Importer(Import(<<>>, {"my/lib"}, NoType, {}, FALSE), Call("g", <<"lib">>, 3)),
               FileOf("my/lib/a", "second", "my/lib", <<N("my/lib/a", "class", <<"B">>, 1)>>),
               FileOf("my/lib/b", "second", "my/lib", <<N("my/lib/b", "function", <<"g">>, 1)>>)}}
=============================================================================
