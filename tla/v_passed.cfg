CONSTANTS
    Name <- MCName
    Char <- MCChar
    Spelling <- MCSpelling
    Pkg <- MCPkg
    StowDir <- InTarget
    Target <- TargetDir
    Hosts <- PassedHosts
    MayDie = FALSE
SPECIFICATION Spec
INVARIANTS
    Complete
