SPECIFICATION FairSpec
CONSTANTS
    NumThreads = 2
    UintRange = 5
    Clients = {main}
    JobCounts = {2}
    GroupSizes = {1}
    MaxCalls = 1
    MayAbandon = TRUE
    NoJob = NoJob
    main = main
PROPERTY RunningJobsFinish
