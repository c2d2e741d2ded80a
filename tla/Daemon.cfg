SPECIFICATION Spec
CONSTANTS
    Dirs = {d1}
    Contents = {c1, c2}
    Absent = Absent
    Empty = Empty
    MaxEdits = 3
    MaxEvents = 2
    MaxBatches = 1
    Callers = {c}
    DirsStay = TRUE
    QuickWatch = TRUE
    OwnDb = TRUE
    MayFail = {"scan"}
CHECK_DEADLOCK FALSE
INVARIANTS
    TypeOK
    UpToDateMeansCurrent
    FreshAnswers
PROPERTY
    NeverBackwards
