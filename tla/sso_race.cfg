SPECIFICATION Spec
CONSTANTS
    work = work
    legacy = legacy
    p1 = p1
    p2 = p2
    Procs = {p1, p2}
    Slots = {legacy}
    Legacy = legacy
    SlotOf <- SameProfile
    MaxGrants = 3
    MaxRunning = 2
    Commands = {"resolve"}
    Expiries = {"due"}
    Faults = {"write", "network", "api"}
SYMMETRY Alike
PROPERTIES
    RefreshMovesForward
