SPECIFICATION Spec
CONSTANTS
    c1 = c1
    c2 = c2
    Ranges <- ResizeRanges
    FileSize = 3
    SourceSize = 3
    RangedServer = TRUE
    Recovered <- NoneRecovered
    MaxJobs = 3
    Callers <- OneCaller
    Starts <- ResizeStarts
    Resizes <- ResizePairs
    Operations <- ResizeOps
    Manners <- AllManners
INVARIANTS
    NoCallRaises
    ExclusiveFiles
    CompletedIsIntact
    NothingCountedTwice
PROPERTIES
    StepsRunOut
CHECK_DEADLOCK FALSE
