CONSTANTS
    c1 = c1
    c2 = c2
    b1 = b1
    nobody = nobody
    Client = {c1, c2}
    Bot = {}
    MaxId = 1
    MaxPlace = 0
    MinDelta = 1
    FullPeriod = 4
    Ratio = 2
    NbMaxClients = 3
    DisableNetworkOptimization = FALSE
    Nobody = nobody
SPECIFICATION Spec
PROPERTIES
    LoginOfUnknown
