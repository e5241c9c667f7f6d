CONSTANTS
    c1 = c1
    c2 = c2
    b1 = b1
    Client = {c1, c2}
    Bot = {b1}
    MaxOpenClose = 3
    MaxReplay = 2
    Level = {"default", "extra_ball"}
    ReadsOpen = FALSE
SPECIFICATION Spec
SYMMETRY Clients
CONSTRAINT TwoAtOnce
INVARIANTS
    Inv
    ClosedUntilStart
    ViewsAgree
PROPERTIES
    OutStaysOut
