CONSTANTS
    Key <- Keys
    None = None
    NumLevels = 3
    MaxMemCompactLevel = 1
    L0_CompactionTrigger = 2
    MaxEntriesForLevel <- EntriesForLevel
    MaxGrandParentOverlap = 1
    ExpandedCompactionLimit = 4
    Limits <- SnapshotLimits
SPECIFICATION Spec
CHECK_DEADLOCK FALSE
INVARIANT NewerIsAbove
