CONSTANTS
    NumPackages = 2
    NumFiles = 2
    Size <- SizeOf
    ChunkSize = 2
    Attempts <- AttemptsWithResync
SPECIFICATION Spec
INVARIANT SkipErrorsContinues
