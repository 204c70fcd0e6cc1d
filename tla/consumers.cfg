\* Two blocking subscribers and a worker that crashes.
CONSTANTS
    s1 = s1
    s2 = s2
    w1 = w1
    Sub <- TwoSubs
    Writer <- OneWriter
    Nobody = Nobody
    Offset <- Offsets
    Chunk = 2
    MaxRecords = 2
    MaxBatch = 2
    MaxFailures = 1
    MaxCrashes = 1
SPECIFICATION FairSpec
INVARIANTS
    NoneSkipped
    NoSleeper
    EndedDrained
    CheckpointProcessed
    ReworkBounded
PROPERTIES
    CloseEndsAll
    AllProcessed
CHECK_DEADLOCK FALSE
