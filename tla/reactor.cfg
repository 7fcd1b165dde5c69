SPECIFICATION FairSpec
CONSTANTS
    Servers = {s}
    Clients = {k}
    Outer = {s}
    PollerThread = FALSE
    Contexts = {x1, x2, x3}
    Fds = {0, 1, 2, 3}
    MaxPeers = 2
    MaxConnects = 1
    None = None
    MaxFailures = 1
    MaxResults = 2
CHECK_DEADLOCK FALSE
INVARIANTS
    ResultsLive
    SocketsHeld
PROPERTIES
    AppsProgress
