CONSTANTS
    File <- MCFile
    Dir <- MCDir
    Link <- MCLink
    Command <- MCCommand
    Rule <- MCRule
    Contents <- MCContents
    StowDir = "stow"
    IniOf <- MCIniOf
    HomeFiles <- MCHome
    Asked <- MCAsked
SPECIFICATION Spec
INVARIANTS
    IniTypeOK
    ReadOnce
    FilesClosed
    TargetsAdded
PROPERTIES
    IniTerminates
CHECK_DEADLOCK FALSE
