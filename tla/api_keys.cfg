SPECIFICATION Spec
CONSTANTS
    Profiles <- MCProfiles
    MaxKeys = 3
    MaxCommands = 2
    MaxOthers = 1
    MaxLines = 0
    Unmatched <- MCUnmatched
INVARIANTS LogoutIsComplete SavedIsRead SourcesInOrder
PROPERTIES RotationIsConsented CommandEnds
CHECK_DEADLOCK FALSE
