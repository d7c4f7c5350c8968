CONSTANTS
    Name <- MCName
    Char <- MCChar
    Spelling <- MCSpelling
    Pkg <- MCPkg
    StowDir <- InTarget
    Target <- TargetDir
    Hosts <- CrashHosts
    MayDie = TRUE
SPECIFICATION Spec
INVARIANTS
    OthersKept
    PlanWorks
PROPERTIES
    PackagesIntact
    ForeignKept
