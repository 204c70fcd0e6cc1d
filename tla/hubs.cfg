\* One name through deletion and creation, two event loops.
CONSTANTS
    t1 = t1
    t2 = t2
    Task <- TwoTasks
    MaxStreams = 2
    MaxHubs = 2
    MaxLoops = 2
    MaxRecords = 1
    MaxReady = 0
SPECIFICATION FairSpec
INVARIANTS
    NoForeignRecords
    NoLostWakeup
    OneLoop
PROPERTY ClosedEnds
CHECK_DEADLOCK FALSE
