SPECIFICATION Spec
CONSTANTS
    c1 = c1
    c2 = c2
    Ranges <- TailRanges
    FileSize = 3
    SourceSize = 3
    RangedServer = TRUE
    Recovered <- NoneRecovered
    MaxJobs = 2
    Callers <- OneCaller
    Starts <- TailStarts
    Resizes <- TailPairs
    Operations <- PlainOps
    Manners <- AllManners
INVARIANTS
    CompletedIsIntact
CHECK_DEADLOCK FALSE
