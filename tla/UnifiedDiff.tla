----------------------------- MODULE UnifiedDiff -----------------------------
(***************************************************************************)
(* ParseUnifiedDiff (pkg/diff/diff.go) reads what git writes of a patch.   *)
(*                                                                         *)
(* A patch is, for each file, a script of lines kept, deleted and added,   *)
(* and the lines of context git shows around a change.  A line of the      *)
(* output is a record that says how it begins; a deleted line that itself  *)
(* begins with "-- " begins like a header, and so does an added "++ " one. *)
(***************************************************************************)
EXTENDS Integers, FiniteSets, SequencesExt

CONSTANTS
    Patches,    \* sequences of file patches
    NoPath,     \* the empty path
    DevNull,    \* the path /dev/null
    Junk        \* what a line that only looks like a header names as its path

ScriptLine == [op : {"keep", "del", "add"}, look : {"plain", "blank", "header"}]

FilePatch(p) ==
    /\ DOMAIN p = {"old", "new", "script", "context"}
    /\ NoPath \notin {p.old, p.new} /\ {p.old, p.new} # {DevNull}
    /\ p.script \in Seq(ScriptLine) /\ p.context \in Nat

ASSUME UnifiedDiffAssumption ==
    \A ps \in Patches : ps \in Seq(ToSet(ps)) /\ \A i \in DOMAIN ps : FilePatch(ps[i])

VARIABLES
    patch,      \* what was changed
    text,       \* the lines of the diff still to be read
    current,    \* the FileDiff being read: none or one
    diffs,      \* those that are complete
    oldLine,    \* currentOldLine
    newLine     \* currentNewLine

diffVars == <<patch, text, current, diffs, oldLine, newLine>>

-----------------------------------------------------------------------------
(* What git writes.                                                        *)

Upto(script, i, ops) == Cardinality({j \in 1 .. i : script[j].op \in ops})
OldUpto(script, i) == Upto(script, i, {"keep", "del"})
NewUpto(script, i) == Upto(script, i, {"keep", "add"})

IsShown(p, i) == \E j \in DOMAIN p.script : p.script[j].op # "keep" /\ i - j \in -p.context .. p.context
OpensHunk(p, i) == IsShown(p, i) /\ (i = 1 \/ ~ IsShown(p, i - 1))
HunkEnd(p, i) == Max({j \in i .. Len(p.script) : \A k \in i .. j : IsShown(p, k)})

\* A side without lines is numbered by the line before.
SideStart(before, upto) == IF upto > before THEN before + 1 ELSE before

Hunk(p, i) ==
    [t |-> "@@", old |-> SideStart(OldUpto(p.script, i - 1), OldUpto(p.script, HunkEnd(p, i))),
                 new |-> SideStart(NewUpto(p.script, i - 1), NewUpto(p.script, HunkEnd(p, i)))]

Line(l) ==
    CASE l.op = "keep" -> [t |-> IF l.look = "blank" THEN "" ELSE " "]
      [] l.op = "del"  -> IF l.look = "header" THEN [t |-> "---", path |-> Junk] ELSE [t |-> "-"]
      [] l.op = "add"  -> IF l.look = "header" THEN [t |-> "+++", path |-> Junk] ELSE [t |-> "+"]

Written(p, i) == (IF OpensHunk(p, i) THEN <<Hunk(p, i)>> ELSE <<>>)
                   \o (IF IsShown(p, i) THEN <<Line(p.script[i])>> ELSE <<>>)

GitDiff(p) ==
    LET name == IF p.new = DevNull THEN p.old ELSE p.new
    IN <<[t |-> "diff", old |-> IF p.old = DevNull THEN p.new ELSE p.old, new |-> name]>>
         \o (IF p.old = DevNull THEN <<[t |-> "new file"]>> ELSE <<>>)
         \o (IF p.new = DevNull THEN <<[t |-> "deleted file"]>> ELSE <<>>)
         \o <<[t |-> "---", path |-> p.old], [t |-> "+++", path |-> p.new]>>
         \o FlattenSeq([i \in DOMAIN p.script |-> Written(p, i)])
         \o <<[t |-> "\\"]>>

-----------------------------------------------------------------------------
(* The parser.                                                             *)

FileDiff(old, new) ==
    [old |-> old, new |-> new, isNew |-> FALSE, isDeleted |-> FALSE,
     added |-> <<>>, deleted |-> <<>>, ranges |-> <<>>]

PathOf(fd) == IF fd.new \notin {NoPath, DevNull} THEN fd.new ELSE fd.old

\* condenseLineRanges
Ranges(lines) ==
    LET of[i \in 0 .. Len(lines)] ==
            IF i = 0 THEN <<>>
            ELSE IF i > 1 /\ lines[i] = lines[i - 1] + 1
            THEN [of[i - 1] EXCEPT ![Len(of[i - 1])].count = @ + 1]
            ELSE Append(of[i - 1], [start |-> lines[i], count |-> 1])
    IN of[Len(lines)]

Complete == [i \in DOMAIN current |-> [current[i] EXCEPT !.ranges = Ranges(current[i].added)]]

Starts(l) ==
    /\ l.t = "diff"
    /\ diffs' = diffs \o Complete
    /\ current' = <<FileDiff(l.old, l.new)>>
    /\ UNCHANGED <<oldLine, newLine>>

\* Before the first file nothing counts.
Preamble(l) == l.t # "diff" /\ current = <<>> /\ UNCHANGED <<current, diffs, oldLine, newLine>>

Header(l) ==
    /\ current # <<>>
    /\ current' = CASE l.t = "new file"     -> [current EXCEPT ![1].isNew = TRUE]
                    [] l.t = "deleted file" -> [current EXCEPT ![1].isDeleted = TRUE]
                    [] l.t = "---"          -> [current EXCEPT ![1].old = l.path]
                    [] l.t = "+++"          -> [current EXCEPT ![1].new = l.path]
    /\ UNCHANGED <<diffs, oldLine, newLine>>

IsHeader(l) == l.t \in {"new file", "deleted file", "---", "+++"}

\* A slip: the two sides of a hunk swapped.
OpenHunkSwapped(l) ==
    /\ current # <<>> /\ l.t = "@@"
    /\ oldLine' = l.new /\ newLine' = l.old
    /\ UNCHANGED <<current, diffs>>

\* parseHunkHeader: the counts are read and not used.
OpenHunk(l) ==
    /\ current # <<>> /\ l.t = "@@"
    /\ oldLine' = l.old /\ newLine' = l.new
    /\ UNCHANGED <<current, diffs>>

Body(l) ==
    /\ current # <<>>
    /\ current' = CASE l.t = "+" -> [current EXCEPT ![1].added = Append(@, newLine)]
                    [] l.t = "-" -> [current EXCEPT ![1].deleted = Append(@, oldLine)]
                    [] OTHER     -> current
    /\ oldLine' = IF l.t \in {"-", " ", ""} THEN oldLine + 1 ELSE oldLine
    /\ newLine' = IF l.t \in {"+", " ", ""} THEN newLine + 1 ELSE newLine
    /\ UNCHANGED diffs

ReadLine ==
    /\ text # <<>>
    /\ text' = Tail(text)
    /\ LET l == Head(text)
       IN \/ Starts(l)
          \/ Preamble(l)
          \/ IsHeader(l) /\ Header(l)
          \/ OpenHunk(l)
          \/ l.t \in {"+", "-", " ", "", "\\"} /\ Body(l)
    /\ UNCHANGED patch

EndOfText ==
    /\ text = <<>> /\ current # <<>>
    /\ diffs' = diffs \o Complete
    /\ current' = <<>>
    /\ UNCHANGED <<patch, text, oldLine, newLine>>

DiffInit ==
    /\ patch \in Patches
    /\ text = <<[t |-> "warning"]>> \o FlattenSeq([i \in DOMAIN patch |-> GitDiff(patch[i])])
    /\ current = <<>> /\ diffs = <<>>
    /\ oldLine = 0 /\ newLine = 0

DiffNext == ReadLine \/ EndOfText

DiffSpec == DiffInit /\ [][DiffNext]_diffVars

IsRead == text = <<>> /\ current = <<>>

-----------------------------------------------------------------------------
(* What must hold.                                                         *)

IsPlain(p) == \A i \in DOMAIN p.script : p.script[i].look # "header"

AddedBy(p) == {NewUpto(p.script, i) : i \in {j \in DOMAIN p.script : p.script[j].op = "add"}}
DeletedBy(p) == {OldUpto(p.script, i) : i \in {j \in DOMAIN p.script : p.script[j].op = "del"}}
Covered(ranges) == UNION {r.start .. r.start + r.count - 1 : r \in ToSet(ranges)}

\* Of every file, the lines added and deleted are those of the patch, by their numbers in
\* the new file and in the old one, however the changes fall into hunks, also into hunks
\* that have no line of one of the files; unless a line looks like a header.
LinesAreExact ==
    IsRead =>
       /\ Len(diffs) = Len(patch)
       /\ \A i \in DOMAIN patch : IsPlain(patch[i]) =>
             /\ PathOf(diffs[i]) = IF patch[i].new = DevNull THEN patch[i].old ELSE patch[i].new
             /\ diffs[i].isNew = (patch[i].old = DevNull) /\ diffs[i].isDeleted = (patch[i].new = DevNull)
             /\ ToSet(diffs[i].added) = AddedBy(patch[i]) /\ Covered(diffs[i].ranges) = AddedBy(patch[i])
             /\ ToSet(diffs[i].deleted) = DeletedBy(patch[i])
=============================================================================
