SPECIFICATION FairSpec
CONSTANTS
    r = r
    a = a
    b = b
    f = f
    Urls <- FourUrls
    Root <- r
    Sites <- SmallSites
    Depths <- SomeDepths
    Patterns <- SomePatterns
INVARIANTS
    CrawlTypeOK
    ExploredOnce
    DepthKept
    ListsEverything
PROPERTIES
    CrawlAdvances
    CrawlEnds
CHECK_DEADLOCK FALSE
