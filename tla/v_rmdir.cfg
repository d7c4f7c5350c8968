CONSTANTS
    Name <- MCName
    Char <- MCChar
    Spelling <- MCSpelling
    Pkg <- MCPkg
    StowDir <- Beside
    Target <- TargetDir
    Hosts <- SmallHosts
    MayDie = FALSE
SPECIFICATION Spec
INVARIANTS
    RmdirOnlyEmpty
