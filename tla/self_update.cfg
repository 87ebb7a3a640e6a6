CONSTANTS
    Procs = {p1}
    MaxRunning = 1
    MaxVersion = 3
    NumNames = 4
    Exe = 2
    Needed = {1, 2}
    Ships <- Bundles
    UserNames = {4}
    Faults = {"download", "rename", "remove", "kill"}
SPECIFICATION Spec
CHECK_DEADLOCK FALSE
INVARIANTS
    NothingLost
    FailureRestores
    SuccessIsComplete
    UserFilesUntouched
