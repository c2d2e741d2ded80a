SPECIFICATION Spec
CONSTANTS
    Path = "src"
    Family = "first"
    Syntax <- MCSyntax
    NameOrder <- MCNameOrder
    None = ""
    GoSyntax <- MCGoSyntax
    AnonymousStruct = "struct"
    MaxGoTree = 0
    PySyntax <- MCPySyntax
    MaxPyTree = 0
    TsSyntax <- MCTsSyntax
    MaxTsTree = 0
    ImportPaths <- MCImportPaths
    Qualified <- MCQualified
    ModulePath = "app"
    Exported = {"A", "B", "C", "T", "f", "g"}
    MaxTree = 0
    Families <- MCFamilies
    NoType = ""
    MaxRuns = 2
    MaxResolved = 0
    MaxFree = 0
    MaxBeyond = 0
    Heads <- MCHeads
    Others <- MCOthers
    Repos <- GoPackage
CHECK_DEADLOCK FALSE
INVARIANT SameGraph
