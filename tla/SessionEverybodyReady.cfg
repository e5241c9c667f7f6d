CONSTANTS
    c1 = c1
    c2 = c2
    b1 = b1
    b2 = b2
    b3 = b3
    Client = {c1, c2}
    AutoBot = {b1}
    ConsoleBot = {}
    Admin = {}
    NbWaitingClients = 1
    ForcedClientCount = 1
    NbMaxClients = 2
    Countdown = 1
    CheckDelay = 1
    LevelTimeout = 2
    RestartDelay = 0
    ReadyTimeout = 0
    MaxAfkSessionCount = 2
SPECIFICATION Spec
PROPERTIES
    EverybodyReadyMeansIt
