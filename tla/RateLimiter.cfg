SPECIFICATION LimiterSpec
CONSTANTS
    Addresses = {a1}
    t1 = t1
    t2 = t2
    Bearers <- MCBearers
    Prefix <- MCPrefix
    Requests = {r1, r2}
    GuestLimit = 1
    UserLimit = 1
    Window = 2
    MaxTime = 3
    MaxCount = 2
SYMMETRY Symm
INVARIANTS
    WindowBound
    RefusedOverLimit
    CountersExpire
CHECK_DEADLOCK FALSE
