CONSTANTS
    c1 = c1
    c2 = c2
    b1 = b1
    b2 = b2
    b3 = b3
    Client = {c1}
    AutoBot = {b1, b2}
    ConsoleBot = {b3}
    Admin = {c1}
    NbWaitingClients = 1
    ForcedClientCount = 2
    NbMaxClients = 3
    Countdown = 1
    CheckDelay = 0
    LevelTimeout = 1
    RestartDelay = 0
    ReadyTimeout = 0
    MaxAfkSessionCount = 2
SPECIFICATION FairSpec
PROPERTIES
    ImplementsRound
    LoadingEnds
    GameEnds
    EmptyServerIdles
    GamesFollow
