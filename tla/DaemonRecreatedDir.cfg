SPECIFICATION Spec
CONSTANTS
    Dirs = {d1}
    Contents = {c1, c2}
    Absent = Absent
    Empty = Empty
    MaxEdits = 3
    MaxEvents = 2
    MaxBatches = 1
    Callers = {c}
    DirsStay = FALSE
    QuickWatch = TRUE
    OwnDb = TRUE
    MayFail = {}
CHECK_DEADLOCK FALSE
INVARIANT FreshAnswers
