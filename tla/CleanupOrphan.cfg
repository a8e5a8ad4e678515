SPECIFICATION Spec
CONSTANTS
    c1 = c1
    c2 = c2
    Ranges <- ShutdownRanges
    FileSize = 3
    SourceSize = 3
    RangedServer = TRUE
    Recovered <- NoneRecovered
    MaxJobs = 3
    Callers <- TwoCallers
    Starts <- ShutdownStarts
    Resizes <- ShutdownPairs
    Operations <- OrphanOps
    Manners <- RudeOnBusy
INVARIANTS
    CleanedIsQuiet
CHECK_DEADLOCK FALSE
