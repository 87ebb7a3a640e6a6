CONSTANTS
    p1 = p1
    p2 = p2
    Procs <- MCProcs
    Kinds <- MCKinds
    MaxClock = 3
    Interval = 1
    MaxVersion = 2
    Faults <- FaultKinds
SPECIFICATION FairSpec
CHECK_DEADLOCK FALSE
INVARIANTS
    NewsIsKept
PROPERTIES
    OnlyRacesSetBack
    CommandEnds
