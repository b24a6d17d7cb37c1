SPECIFICATION FairSpec
CONSTANTS
    MaxImageCounts = {1, 2, 8}
    Resources = {r1}
    NoImage = NoImage
    MaxBehind = 3
INVARIANTS
    NoUseAfterFree
    SubmissionsLegal
PROPERTIES
    RingPromise
    FramesKeepComing
    DroppedIsFreed
CHECK_DEADLOCK FALSE
