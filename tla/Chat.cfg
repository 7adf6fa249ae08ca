SPECIFICATION ChatFairSpec
CONSTANTS
    Parties = {alice, bob}
    Ids = {1, 2, 3}
    Firsts <- MCFirsts
    MaxTime = 1
INVARIANTS
    ChatTypeOK
    EveryMessageOnce
    SeenWasReported
PROPERTIES
    WalkEnds
