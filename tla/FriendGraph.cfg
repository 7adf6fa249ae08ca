SPECIFICATION FairSpec
CONSTANTS
    a = a
    b = b
    p1 = p1
    p2 = p2
    Users <- MCUsers
    Procs <- MCProcs
INVARIANTS
    Symmetric
    FriendsWereAsked
PROPERTIES
    AcceptIsAtomic
    DecidedNeverReopens
    OperationsEnd
