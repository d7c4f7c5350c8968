CONSTANTS
    Word <- MCWord
    Form <- MCForm
    Dirs <- TightDirs
    Hidden <- MCHidden
    ReadOnly <- MCReadOnly
    Commands <- TightCommands
SPECIFICATION Spec
INVARIANTS
    EntriesMerged
