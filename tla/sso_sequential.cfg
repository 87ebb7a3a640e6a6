SPECIFICATION FairSpec
CONSTANTS
    work = work
    legacy = legacy
    p1 = p1
    p2 = p2
    Procs = {p1, p2}
    Slots = {work, legacy}
    Legacy = legacy
    SlotOf <- TwoProfiles
    MaxGrants = 2
    MaxRunning = 1
    Commands = {"resolve", "auth", "login", "logout"}
    Expiries = {"opaque"}
    Faults = {"crash", "write", "network", "api", "revoke", "no_refresh", "unexpected"}
INVARIANTS
    RefreshNotOlder
    CleanupSparesLiveSessions
    OwnSessionFirst
    RejectionEndsOwnSession
PROPERTIES
    ServedTokenIsUsable
    CommandEnds
