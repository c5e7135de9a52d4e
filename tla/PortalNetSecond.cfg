SPECIFICATION Spec
CONSTANTS
    Fds = {1, 2, 3}
    NoFd = 0
    MaxErrors = 0
    MaxSessions = 2
    MaxClients = 2
    MaxJoins = 1
    HttpFixed = 1
    HttpMax = 2
INVARIANT PortalResolves
