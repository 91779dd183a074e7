CONSTANTS
    MaxChanges = 2
    MaxStarts = 1
    Faults = FALSE
SPECIFICATION Spec
CHECK_DEADLOCK FALSE
INVARIANTS
    DrainCommits
