SPECIFICATION Spec
CONSTANTS
    team = team
    user = user
    Alien = Alien
    Nameable <- MCNameable
    MaxObjects = 5
    PageSize = 2
    MaxRetries = 1
    MaxOthers = 2
    MaxRotated = 2
INVARIANTS ReportIsTrue ExitTellsEffect ListIsComplete
PROPERTIES UnnamedKeepAccess LossIsConsented CommandEnds
CHECK_DEADLOCK FALSE
