--------------------------- MODULE MCSqliteStore ---------------------------
EXTENDS SqliteStore, TLC

CONSTANTS a, b, x

\* A call from one symbol of the repository to another, and one from there to
\* an external symbol.
MCEdgeKeys == {[src |-> a, tgt |-> b, line |-> 1], [src |-> b, tgt |-> x, line |-> 2]}

\* Nothing tells one row id from another.
RowSymmetry == Permutations(RowIds)
=============================================================================
