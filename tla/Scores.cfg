CONSTANTS
    c1 = c1
    c2 = c2
    b1 = b1
    NoOne = NoOne
    Client = {c1, c2}
    Bot = {b1}
    Admin = {c1}
    AnyAdmin = FALSE
    Points = {10}
    MaxTime = 2
    MaxGames = 1
    MinTimeNeeded = 0
    NoRecord = 9
SPECIFICATION Spec
CONSTRAINT TwoAtOnce
INVARIANTS
    TotalsInv
    ScoresAgree
PROPERTIES
    IdleGainNothing
    PaidForThisGame
