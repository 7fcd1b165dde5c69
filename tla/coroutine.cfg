SPECIFICATION FairSpec
CONSTANTS
    Coroutines = {c1, c2}
    Main = Main
    None = None
    RecycleLimit = 1
    ConnectRetries = 4
    Timeouts = {1}
    MaxCalls = 1
CHECK_DEADLOCK FALSE
INVARIANTS
    ContextExclusive
    WaitersRegistered
PROPERTIES
    CallsHonest
    CallsReturn
