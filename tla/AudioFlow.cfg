CONSTANTS
    MaxSessions = 3
    MaxTasks = 3
    MaxTick = 3
SPECIFICATION Spec
CHECK_DEADLOCK FALSE
INVARIANTS
    ExitRestores
    CyclesSpareLinks
    LatestStandsForAll
    NoCircularWait
PROPERTIES
    SilenceProven
    ImplementsCloseChain
