CONSTANTS
    Key <- Keys
    None = None
    NumLevels = 3
    MaxMemCompactLevel = 1
    L0_CompactionTrigger = 2
    MaxEntriesForLevel <- EntriesForLevel
    MaxGrandParentOverlap = 1
    ExpandedCompactionLimit = 4
    Limits <- SafeLimits
SPECIFICATION Spec
INVARIANT ReadsAreRight
INVARIANT TablesArePresent
 
CHECK_DEADLOCK FALSE
