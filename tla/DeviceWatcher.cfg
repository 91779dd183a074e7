CONSTANTS
    Devices = {d1}
    Remembered = {d1}
    MaxChanges = 2
    MaxWatchers = 3
    MaxRecoveries = 1
    MaxPosted = 2
    Faults = {"create", "start", "enumerate"}
    LateSnapshots = TRUE
SPECIFICATION FairSpec
CHECK_DEADLOCK FALSE
INVARIANTS
    BusyRowStands
PROPERTIES
    PresentIsListed
    WatcherComesBack
