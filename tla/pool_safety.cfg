SPECIFICATION Spec
CONSTANTS
    Contexts = {c1, c2, c3, c4, c5}
    NoContext = NoContext
    Prefetch = 2
    GcThreshold = 2
    MaxGuards = 1
    MaxInUse = 5
SYMMETRY Symmetry
INVARIANTS
    WindowSafe
    SlotsHoldContexts
PROPERTIES
    NeverDestroysInUse
    StoreRefined
