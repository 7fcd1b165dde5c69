SPECIFICATION FairSpec
CONSTANTS
    SocketSpace = 1
    MessageSizes = {2}
    MaxBytes = 2
    MaxPeerMessages = 1
    MaxReady = 1
    OuterMultiplexer = FALSE
    EpollAddMayFail = FALSE
    ReadToggle = FALSE
    PeerMayReset = FALSE
CHECK_DEADLOCK FALSE
PROPERTIES
    ShutdownCloses
