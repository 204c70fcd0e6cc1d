\* Two writer threads, one subscriber.
CONSTANTS
    w1 = w1
    w2 = w2
    s1 = s1
    s2 = s2
    c1 = c1
    Writer <- TwoWriters
    Sub <- OneSub
    Waiter <- None
    Nobody = Nobody
    MaxRecords = 3
    MaxBatch = 2
    MaxReady = 0
    LagLimit = 1
SPECIFICATION Spec
SYMMETRY Symmetric
CHECK_DEADLOCK FALSE
INVARIANTS
    TypeOK
    InOrderOnce
    NoHole
    LagBounded
    EndedDrained
    NoLostWakeup
