SPECIFICATION Spec
CONSTANTS
    c1 = c1
    c2 = c2
    Ranges <- ShutdownRanges
    FileSize = 3
    SourceSize = 3
    RangedServer = TRUE
    Recovered <- SharedRecovered
    MaxJobs = 3
    Callers <- TwoCallers
    Starts <- ShutdownStarts
    Resizes <- ShutdownPairs
    Operations <- ShutdownOps
    Manners <- AllManners
INVARIANTS
    CleanedIsQuiet
    ActiveIsLive
    NobodyStuck
PROPERTIES
    StatusIsFinal
    KeepsPromise
CHECK_DEADLOCK FALSE
SYMMETRY CallerSymmetry
