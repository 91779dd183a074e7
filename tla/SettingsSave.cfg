CONSTANTS
    MaxChanges = 4
    MaxStarts = 3
    Faults = TRUE
SPECIFICATION FairSpec
CHECK_DEADLOCK FALSE
INVARIANTS
    SavedIsFound
    DrainReportIsTrue
PROPERTIES
    SnapshotsAreSaved
