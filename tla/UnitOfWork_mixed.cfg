SPECIFICATION FairSpec
CONSTANTS
    f1 = f1
    n1 = n1
    n2 = n2
    w1 = w1
    w2 = w2
    Reqs <- MCReqs
    Nested <- MCNested
    Guarded <- MCGuarded
    Rows <- MCRows
    Capacity = 2
INVARIANTS
    FlatOkMeansDurable
    AllOrNothing
    NoFlatLeak
    NestedNeverStored
PROPERTIES
    RefinesAtomic
    EveryRequestAnswered
