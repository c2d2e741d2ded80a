SPECIFICATION FairSpec
CONSTANTS
    Dirs = {d1}
    Contents = {c1, c2}
    Absent = Absent
    Empty = Empty
    MaxEdits = 2
    MaxEvents = 1
    MaxBatches = 1
    Callers = {c}
    DirsStay = TRUE
    QuickWatch = TRUE
    OwnDb = FALSE
    MayFail = {"scan"}
CHECK_DEADLOCK FALSE
PROPERTIES
    CallsReturn
    Drains
