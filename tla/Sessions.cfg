SPECIFICATION FairSpec
CONSTANTS
    Paths = {p1}
    Contents = {g1, g2}
    NoGraph = NoGraph
    Callers = {c1, c2}
    Ids = {s1, s2}
    None = None
    Ttl = 1
    MaxLate = 1
    MayFail = {"open", "refresh", "load"}
CHECK_DEADLOCK FALSE
INVARIANTS
    TypeOK
    HeldIsOpen
    OpenIsInMap
    HandlersSeeFresh
PROPERTIES
    CallsReturn
    IdleIsClosed
