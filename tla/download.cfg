SPECIFICATION Spec
CONSTANTS
    Packages <- MCPackages
    Newness <- MCNewness
    FileName <- MCFileName
    Parts <- MCParts
    Folder <- MCFolder
    WithUrl <- MCWithUrl
    UserOptions <- MCOptions
    PageSize = 2
    MaxRuns = 1
    MaxChanges = 1
INVARIANTS OldFilesStay SuccessIsWhole RightPackages
CHECK_DEADLOCK FALSE
