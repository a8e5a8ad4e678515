SPECIFICATION Spec
CONSTANTS
    FileSizes <- Sizes
    Parts <- SomeParts
    Caches <- SomeCaches
    Kinds <- BothKinds
    MaxConn = 3
    LimitSize = 2
    UseChunked = TRUE
INVARIANTS
    PlanCovers
    PlanDisjoint
    EveryByteOnce
CHECK_DEADLOCK FALSE
