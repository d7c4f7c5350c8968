CONSTANTS
    Name <- MCName
    Char <- MCChar
    Spelling <- MCSpelling
    Pkg <- MCPkg
    StowDir <- InTarget
    Target <- TargetDir
    Hosts <- ForceHosts
    MayDie = FALSE
SPECIFICATION Spec
INVARIANTS
    ForceOthersKept
