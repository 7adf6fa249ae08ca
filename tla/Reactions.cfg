SPECIFICATION Spec
CONSTANTS
    u1 = u1
    u2 = u2
    love = love
    sad = sad
    p1 = p1
    p2 = p2
    Users <- MCUsers
    Types <- MCTypes
    Procs <- MCProcs
    MaxRows = 3
SYMMETRY Symm
INVARIANTS
    TypeOK
    NoDeadlock
    ExactWithoutOverlap
PROPERTIES
    ReplacedAtOnce
    OthersKept
