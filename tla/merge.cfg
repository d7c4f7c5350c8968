CONSTANTS
    Word <- MCWord
    Form <- MCForm
    Dirs <- MCDirs
    Hidden <- MCHidden
    ReadOnly <- MCReadOnly
    Commands <- MCCommands
SPECIFICATION Spec
INVARIANTS
    EntriesMerged
    EntriesUnmerged
    DuplicatesRemoved
    RoundTrip
