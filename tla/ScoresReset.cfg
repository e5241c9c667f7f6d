CONSTANTS
    c1 = c1
    c2 = c2
    b1 = b1
    NoOne = NoOne
    Client = {c1}
    Bot = {}
    Admin = {}
    AnyAdmin = FALSE
    Points = {10}
    MaxTime = 2
    MaxGames = 2
    MinTimeNeeded = 1
    NoRecord = 9
SPECIFICATION Spec
INVARIANTS
    ResetIsShown
