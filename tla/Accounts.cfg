SPECIFICATION Spec
CONSTANTS
    Requests = {w1, w2}
    Emails = {e1, e2}
    Names = {n1}
    Pairs = {p1}
    Values = {old, new1}
    Inputs = {new1}
    Bodies <- MCBodies
    Default = old
    Keep = keep
INVARIANTS OneRowPerKey NoDeadlock DisplayFollowsNames
PROPERTY OnlyItsColumns
SYMMETRY Symmetry
