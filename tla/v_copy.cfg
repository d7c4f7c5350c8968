CONSTANTS
    Name <- MCName
    Char <- MCChar
    Spelling <- MCSpelling
    Pkg <- MCPkg
    StowDir <- InTarget
    Target <- TargetDir
    Hosts <- CopyDirHosts
    MayDie = FALSE
SPECIFICATION Spec
PROPERTIES
    PackagesIntact
