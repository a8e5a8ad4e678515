SPECIFICATION Spec
CONSTANTS
    c1 = c1
    c2 = c2
    Ranges <- SharedRanges
    FileSize <- None
    SourceSize = 4
    RangedServer = TRUE
    Recovered <- SharedRecovered
    MaxJobs = 3
    Callers <- TwoCallers
    Starts <- SharedStarts
    Resizes <- SharedPairs
    Operations <- SharedOps
    Manners <- AllManners
INVARIANTS
    TypeOK
    BooksAgree
    LiveIsTracked
    ActiveIsLive
    DownloadsAreMonitored
    CompletedIsIntact
CHECK_DEADLOCK FALSE
SYMMETRY CallerSymmetry
