CONSTANTS
    NumPackages = 3
    NumFiles = 2
    Size <- SizeOf
    ChunkSize = 2
    Attempts <- AttemptChoices
SPECIFICATION FairSpec
INVARIANTS
    CreatedPackagesAreWhole
    ResyncsBounded
    NothingUploadedUnchecked
    SuccessMeansEverything
PROPERTIES PushEnds Publishes
