SPECIFICATION TokensSpec
CONSTANTS
    alice = alice
    p1 = p1
    p2 = p2
    Users <- MCUsers
    Procs <- MCProcs
    Spellings <- MCSpellings
    AccessLife = 1
    RefreshLife = 2
    AccessTTL = 1
    RefreshTTL = 2
    MaxTime = 2
    MaxEntries = 1
SYMMETRY Symm
CHECK_DEADLOCK FALSE
INVARIANTS
    RevokedStaysOut
PROPERTY
    NeverLifted
