CONSTANTS
    Thread = {t1, t2}
    None = None
    WriteBufferSize = 0
    MaxGroup = 2
    L0_CompactionTrigger = 1
    L0_SlowdownWritesTrigger = 1
    L0_StopWritesTrigger = 2
    MaxWrite = 2
    MaxCompact = 1
    MaxFail = 1
    MaxCrash = 0
SPECIFICATION FairSpec
CHECK_DEADLOCK FALSE
PROPERTY CallsReturn
PROPERTY MemTablesAreWritten
