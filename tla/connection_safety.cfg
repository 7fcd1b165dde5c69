SPECIFICATION Spec
CONSTANTS
    SocketSpace = 2
    MessageSizes = {1, 3}
    MaxBytes = 6
    MaxPeerMessages = 1
    MaxReady = 1
    OuterMultiplexer = FALSE
    EpollAddMayFail = TRUE
    ReadToggle = TRUE
    PeerMayReset = TRUE
CHECK_DEADLOCK FALSE
INVARIANTS
    TypeOK
    CompletionExact
    BytesConserved
    ProviderCountsRequests
    WriteEventMeansOutput
    NoWriteAfterFin
