SPECIFICATION Spec
CONSTANTS
    a = a
    b = b
    x = x
    Ids = {a, b, x}
    External = {x}
    Files = {f}
    Texts = {t1, t2}
    EdgeKeys <- MCEdgeKeys
    Counts = {0}
    Records = {rec}
    Parses = {ir}
    Absent = Absent
    NoFile = NoFile
    RowIds = {r1, r2, r3}
    Versions = {v1, v2}
    MaxQueued = 2
SYMMETRY RowSymmetry
INVARIANTS
    TypeOK
    CommittedForeignKeys
    SearchMirrorsNodes
PROPERTY
    ImplementsGraphStore
