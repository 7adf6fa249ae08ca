SPECIFICATION FairSpec
CONSTANTS
    Viewers = {author, follower}
    Posts = {p1}
    Readers = {r1}
    Limits = {1, 21}
    MaxFeed = 2
    MaxEdits = 1
INVARIANTS
    TypeOK
    ExactWhenQuiet
PROPERTIES
    DeletedFades
CHECK_DEADLOCK FALSE
