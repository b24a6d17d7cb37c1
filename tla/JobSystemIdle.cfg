SPECIFICATION FairSpec
CONSTANTS
    NumThreads = 1
    UintRange = 5
    Clients = {main}
    JobCounts = {2}
    GroupSizes = {1}
    MaxCalls = 1
    MayAbandon = FALSE
    NoJob = NoJob
    main = main
PROPERTY IdleThreadExecutes
