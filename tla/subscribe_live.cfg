\* One writer thread, a subscriber and a waiter, with fairness.
CONSTANTS
    w1 = w1
    w2 = w2
    s1 = s1
    s2 = s2
    c1 = c1
    Writer <- OneWriter
    Sub <- OneSub
    Waiter <- OneWaiter
    Nobody = Nobody
    MaxRecords = 2
    MaxBatch = 2
    MaxReady = 0
    LagLimit = 1
SPECIFICATION FairSpec
CHECK_DEADLOCK FALSE
PROPERTIES
    AllDelivered
    CloseEndsAll
