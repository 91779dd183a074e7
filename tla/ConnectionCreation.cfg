CONSTANTS
    Creations = {k1, k2, k3, k4}
    None = None
SPECIFICATION FairSpec
CHECK_DEADLOCK FALSE
INVARIANTS
    NoOverlap
    ClosedOnce
    NoneForgotten
PROPERTIES
    ImplementsSlot
    SlotIsFreed
