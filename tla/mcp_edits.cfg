SPECIFICATION Spec
CONSTANTS
    Kinds <- MCKinds
    Hosts <- MCHosts
    Default = "owned"
    Dirs <- MCDirs
    MaxCommands = 3
    MaxEdits <- MCEdits
INVARIANTS ClientEditsStay
CHECK_DEADLOCK FALSE
