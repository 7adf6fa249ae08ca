SPECIFICATION FairSpec
CONSTANTS
    Requests = {r1, r2}
    Writings <- MCWritings
    MaxVersion = 1
    MaxTasks = 1
    MaxCached = 1
INVARIANTS
    FreshWithoutOverlap
PROPERTIES
    EventuallyFresh
CHECK_DEADLOCK FALSE
