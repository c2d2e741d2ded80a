SPECIFICATION Spec
CONSTANTS
    lib = lib
    app = app
    helper = helper
    unknown = unknown
    c1 = c1
    c2 = c2
    Files <- MCFiles
    Ids <- MCIds
    External = {unknown}
    Texts <- MCTexts
    EdgeKeys <- MCEdgeKeys
    Counts = {0}
    Records <- ThisFileRecord
    Parses <- ThisFileIR
    Absent = Absent
    NoFile = NoFile
    Procs = {p}
    Contents <- MCContents
    MayHold <- MCMayHold
    SizeOf <- MCSizeOf
    ResolveNodes <- MCResolveNodes
    ResolveEdges <- MCResolveEdges
    MaxVersion = 2
    MaxClock = 2
    TicksPerSecond = 2
    OneAtATime = TRUE
    FineClock = TRUE
    CalmRebuild = TRUE
    ReadsFail = TRUE
INVARIANTS
    TypeOK
    StoreInStep
    AnswersAreCurrent
    NoRefusedCommit
