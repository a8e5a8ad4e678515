SPECIFICATION Spec
CONSTANTS
    c1 = c1
    c2 = c2
    Ranges <- CropRanges
    FileSize = 3
    SourceSize = 3
    RangedServer = TRUE
    Recovered <- NoneRecovered
    MaxJobs = 2
    Callers <- OneCaller
    Starts <- ResizeStarts
    Resizes <- CropPairs
    Operations <- PlainOps
    Manners <- AllManners
INVARIANTS
    ResizeLosesNothing
CHECK_DEADLOCK FALSE
