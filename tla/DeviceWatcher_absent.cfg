CONSTANTS
    Devices = {d1}
    Remembered = {}
    MaxChanges = 1
    MaxWatchers = 1
    MaxRecoveries = 0
    MaxPosted = 2
    Faults = {}
    LateSnapshots = FALSE
SPECIFICATION Spec
CHECK_DEADLOCK FALSE
PROPERTIES
    ReconciliationRemovesAbsent
