SPECIFICATION OidcSpec
CONSTANTS
    j1 = j1
    j2 = j2
    s1 = s1
    s2 = s2
    s3 = s3
    None = None
    Damaged = Damaged
    Jobs <- MCJobs
    Services <- MCServices
    Entries <- MCEntries
    Joined <- MCJoined
    UsesKeyring <- MCJobs
    Legible <- MCLegible
    Lifetime = 2
    Margin = 2
    MaxTime = 2
    MaxMinted = 2
SYMMETRY MCSymmetry
INVARIANTS EntriesAreGenuine
PROPERTIES Implements
CHECK_DEADLOCK FALSE
