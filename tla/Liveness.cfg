SPECIFICATION FairSpec
CONSTANTS
    c1 = c1
    c2 = c2
    Ranges <- PairRanges
    FileSize = 2
    SourceSize = 2
    RangedServer = TRUE
    Recovered <- NoneRecovered
    MaxJobs = 2
    Callers <- TwoCallers
    Starts <- PairStarts
    Resizes <- PairResizes
    Operations <- LivenessOps
    Manners <- AllManners
PROPERTIES
    TasksEnd
    CallsReturn
    MonitorStops
CHECK_DEADLOCK FALSE
