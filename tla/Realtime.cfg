SPECIFICATION FairSpec
CONSTANTS
    alice = alice
    bob = bob
    tab1 = tab1
    tab2 = tab2
    phone = phone
    Users <- MCUsers
    Sockets <- MCSockets
    Owner <- MCOwner
    Followers <- MCFollowers
    MaxForwards = 1
CHECK_DEADLOCK FALSE
INVARIANTS
    RegisteredHaveHandlers
    LiveAreRegistered
PROPERTIES
    DeadLeave
