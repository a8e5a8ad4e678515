SPECIFICATION Spec
CONSTANTS
    FileSizes <- Sizes
    Parts <- SomeParts
    Caches <- NoCache
    Kinds <- MultiOnly
    MaxConn = 3
    LimitSize = 2
    UseChunked = TRUE
INVARIANTS
    StartsFitSlots
CHECK_DEADLOCK FALSE
