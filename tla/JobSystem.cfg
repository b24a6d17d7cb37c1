SPECIFICATION FairSpec
CONSTANTS
    NumThreads = 2
    UintRange = 5
    Clients = {main}
    JobCounts = {2, 3}
    GroupSizes = {2}
    MaxCalls = 2
    MayAbandon = FALSE
    NoJob = NoJob
    main = main
INVARIANTS
    CounterExact
    ContextOutlivesJobs
    NothingLeftBehind
PROPERTIES
    PoolPromise
    WaitTerminates
