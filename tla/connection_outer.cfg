SPECIFICATION FairSpec
CONSTANTS
    SocketSpace = 1
    MessageSizes = {1, 2}
    MaxBytes = 4
    MaxPeerMessages = 1
    MaxReady = 2
    OuterMultiplexer = TRUE
    EpollAddMayFail = FALSE
    ReadToggle = FALSE
    PeerMayReset = TRUE
CHECK_DEADLOCK FALSE
INVARIANTS
    EpollInSync
PROPERTIES
    NoCallbackAfterClose
    OutputDrains
    PeerEndCloses
