SPECIFICATION Spec
CONSTANTS
    lib = lib
    app = app
    helper = helper
    unknown = unknown
    c1 = c1
    c2 = c2
    Files <- MCFiles
    Ids <- MCIds
    External = {unknown}
    Texts <- MCTexts
    EdgeKeys <- MCEdgeKeys
    Counts = {0}
    Records <- ThisFileRecord
    Parses <- ThisFileIR
    Absent = Absent
    NoFile = NoFile
    Procs = {p, q}
    Contents <- MCContents
    MayHold <- MCMayHold
    SizeOf <- MCSizeOf
    ResolveNodes <- MCResolveNodes
    ResolveEdges <- MCResolveEdges
    MaxVersion = 1
    MaxClock = 1
    TicksPerSecond = 1
    OneAtATime = FALSE
    FineClock = TRUE
    CalmRebuild = TRUE
    ReadsFail = FALSE
INVARIANT QuietRunIsExact
