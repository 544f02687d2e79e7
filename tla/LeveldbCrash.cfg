CONSTANTS
    Thread = {t1, t2}
    None = None
    WriteBufferSize = 0
    MaxGroup = 2
    L0_CompactionTrigger = 1
    L0_SlowdownWritesTrigger = 1
    L0_StopWritesTrigger = 2
    MaxWrite = 3
    MaxCompact = 0
    MaxFail = 1
    MaxCrash = 2
SPECIFICATION Spec
SYMMETRY Symmetry
 
INVARIANT SequencesAreUnique
CHECK_DEADLOCK FALSE
