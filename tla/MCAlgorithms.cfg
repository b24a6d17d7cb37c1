SPECIFICATION Spec
CONSTANTS
    UintRange = 32
    Huge = 1000
    Holders = {"e", "f"}
    Files = {"a", "b"}
    ExpirationTime = 1
    MaxTime = 2
    MaxObjects = 3
INVARIANTS
    GroupsPartitionJobs
    BoundsSound
    ShapesSound
    RequestsLegal
    PipelinesLegal
    ModelsFaithful
    ContentKept
    OwnershipExact
CHECK_DEADLOCK FALSE
