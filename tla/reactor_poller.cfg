SPECIFICATION Spec
CONSTANTS
    Servers = {s}
    Clients = {}
    Outer = {s}
    PollerThread = TRUE
    Contexts = {x1, x2}
    Fds = {0, 1}
    MaxPeers = 2
    MaxConnects = 0
    None = None
    MaxFailures = 1
    MaxResults = 2
CHECK_DEADLOCK FALSE
INVARIANT
    PollerResultsLive
