SPECIFICATION FairSpec
CONSTANTS
    Futures = {f1, f2, f3}
    Nobody = Nobody
    NoThen = NoThen
    Params = {"T&", "T"}
    Counts = {0, 2}
    UserGets = TRUE
CHECK_DEADLOCK FALSE
INVARIANTS
    TypeOK
    RunsOnce
    NothingForgotten
    NeverUnset
    CancelIfStops
PROPERTIES
    ThenStable
    EveryPostedRuns
    BoundedPollEnds
