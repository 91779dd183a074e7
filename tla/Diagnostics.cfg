CONSTANTS
    MaxEntries = 2
    MaxBytes = 3
    Sizes = {1, 2}
    MaxQueue = 1
    MaxRecords = 3
    MaxSnapshots = 1
    MaxCallbacks = 1
SPECIFICATION FairSpec
CHECK_DEADLOCK FALSE
INVARIANTS
    LogAccounted
    JournalIsWhole
PROPERTIES
    LogKeepsUp
    ShutdownQuits
