SPECIFICATION Spec
CONSTANTS
    N = 3
    Values = {good, bad}
    Satisfying = {good, Moved}
    MayCancel = {2}
    Default = Default
    Moved = Moved
CHECK_DEADLOCK FALSE
INVARIANTS
    AskedOrFound
    ResultsComplete
PROPERTIES
    EnoughCompletes
