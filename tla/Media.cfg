SPECIFICATION FairSpec
CONSTANTS
    Ids = {m1}
    Workers = {w1, w2}
    MaxRuns = 2
    FileSize = 3
    Chunk = 2
INVARIANTS
    UrlsResolve
    HalfDoneHidden
PROPERTIES
    RequestsEnd
CHECK_DEADLOCK FALSE
