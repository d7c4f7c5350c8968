CONSTANTS
    Name <- MCName
    Char <- MCChar
    Spelling <- MCSpelling
    Pkg <- MCPkg
    StowDir <- InTarget
    Target <- TargetDir
    Hosts <- FeatureHosts
    MayDie = FALSE
SPECIFICATION Spec
INVARIANTS
    NIgnoreAsNamed
    OthersKept
    Complete
    Gone
    PlanWorks
    NoEmptyDirsLeft
    NothingDone
PROPERTIES
    PackagesIntact
    ForeignKept
    KeptDirsStay
    KeptEndsStay
    TraversedStays
    ProtectionHolds
