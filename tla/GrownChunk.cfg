SPECIFICATION Spec
CONSTANTS
    Names <- ThreeByteNames
    Plans <- SmallPlans
    Finished <- NothingFinished
    MinChunkSize = 2
    MaxCrashes = 1
INVARIANTS
    MergeIsExact
CHECK_DEADLOCK FALSE
