CONSTANTS
    e1 = e1
    e2 = e2
    e3 = e3
    e4 = e4
    NoOne = NoOne
    Entity = {e1, e2, e3, e4}
    ArrivalTime = {0, 11, 12, 13, 14, 15}
    MinTimeNeeded = 11
SPECIFICATION Spec
CHECK_DEADLOCK FALSE
SYMMETRY Symmetry
INVARIANTS
    FastestIsFirst
    SortedIsFair
