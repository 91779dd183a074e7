CONSTANTS
    Adapters = {a1, a2}
    Home = a1
    None = None
    MaxLookups = 2
    MaxPlugs = 1
    Resolvers = {1}
    MaxRecoveries = 1
    InOrder = TRUE
SPECIFICATION FairSpec
CHECK_DEADLOCK FALSE
INVARIANTS
    WakesAreKept
    RoutesAreFresh
    SuccessMeansCycled
    RadioRestored
PROPERTIES
    ImplementsRadioCycle
    RecoveryEnds
