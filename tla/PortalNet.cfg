SPECIFICATION FairSpec
CONSTANTS
    Fds = {1, 2, 3}
    NoFd = 0
    MaxErrors = 2
    MaxSessions = 3
    MaxClients = 2
    MaxJoins = 2
    HttpFixed = 1
    HttpMax = 2
INVARIANTS TypeOK FirstSessionListens OneSocketPerSession ClientsCounted
PROPERTY ListensAgain
