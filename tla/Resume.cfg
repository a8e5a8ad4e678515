SPECIFICATION Spec
CONSTANTS
    Names <- ThreeByteNames
    Plans <- SmallPlans
    Finished <- OverlappingSets
    MinChunkSize = 2
    MaxCrashes = 2
INVARIANTS
    RecoveryTypeOK
    FragmentsMeet
    FewestFiles
    GapIsReal
    CarefulMergeIsExact
    RefusedForGaps
    InfoIsTrue
CHECK_DEADLOCK FALSE
