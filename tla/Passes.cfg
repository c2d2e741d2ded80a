SPECIFICATION Spec
CONSTANTS
    Path = "src"
    Family = "first"
    Syntax <- MCSyntax
    NameOrder <- MCNameOrder
    None = ""
    GoSyntax <- MCGoSyntax
    AnonymousStruct = "struct"
    MaxGoTree = 6
    PySyntax <- MCPySyntax
    MaxPyTree = 5
    TsSyntax <- MCTsSyntax
    MaxTsTree = 5
    ImportPaths <- MCImportPaths
    Qualified <- MCQualified
    ModulePath = "app"
    Exported = {"A", "B", "C", "T", "f", "g"}
    MaxTree = 4
    Families <- MCFamilies
    NoType = ""
    MaxRuns = 2
    MaxResolved = 3
    MaxFree = 3
    MaxBeyond = 2
    Heads <- MCHeads
    Others <- MCOthers
    Repos <- MCRepos
CHECK_DEADLOCK FALSE
INVARIANTS
    CallsAreAttributed
    GraphIsWhole
    CallsTheNearest
    ImplementsIsStructural
    SameGraphAgain
    CallsLeadHome
