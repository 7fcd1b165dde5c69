SPECIFICATION Spec
CONSTANTS
    Threads = {t1, t2}
    Nobody = Nobody
    Writer = Writer
    BufSize = 4
    Sizes = {1, 3}
    MaxMessages = 2
    FileMaxSize = 6
    FlagStores = {"first"}
CHECK_DEADLOCK FALSE
INVARIANT
    SwapFinished
