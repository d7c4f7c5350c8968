CONSTANTS
    Name <- MCName
    Char <- MCChar
    Spelling <- MCSpelling
    Pkg <- MCPkg
    StowDir <- InTarget
    Target <- TargetDir
    Hosts <- PlainHosts
    MayDie = FALSE
SPECIFICATION Spec
INVARIANTS
    TypeOK
    NoWriteThroughLink
    OthersKept
    Complete
    Gone
    PlanWorks
    NoEmptyDirsLeft
    Idempotent
    RestowWorks
    UnstowWorks
PROPERTIES
    PackagesIntact
    ForeignKept
    Terminates
    Refines
