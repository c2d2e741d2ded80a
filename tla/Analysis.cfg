SPECIFICATION Spec
CONSTANTS
    a = a
    b = b
    c = c
    d = d
    MaxCalls = 3
    MaxUses = 4
    NoGroup = NoGroup
    Nodes <- MCNodes
    Kinds <- MCKinds
    Graphs <- MCGraphs
    Queries <- MCQueries
    Groups <- MCNodes
    Groupings <- MCGroupings
    Requests <- MCRequests
    Patches <- MCPatches
    NoPath <- MCNoPath
    DevNull <- MCDevNull
    Junk <- MCJunk
    Layouts <- MCLayouts
    Rules <- MCRules
    MaxDepth = 2
    ReachLimit = 2
    ToolArgs <- MCToolArgs
    Place <- MCPlace
    MaxSeeds = 2
CHECK_DEADLOCK FALSE
INVARIANTS
    ReachTypeOK
    ReachIsExact
    CutKeepsNearest
    DeadIsUnreached
    NeighborhoodIsExact
    CyclesAreExact
    PathsAreExact
    TraceIsExact
    LinesAreExact
    TouchedTestsAreSelected
    NewBreachesAreReported
    SearchIsHonest
    ContextIsWhole
