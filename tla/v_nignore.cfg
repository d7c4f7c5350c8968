CONSTANTS
    Name <- MCName
    Char <- MCChar
    Spelling <- MCSpelling
    Pkg <- MCPkg
    StowDir <- InTarget
    Target <- TargetDir
    Hosts <- NIgnoreHosts
    MayDie = FALSE
SPECIFICATION Spec
INVARIANTS
    NIgnoreInstalls
