\* Two timers and two callers that flush, close and are cancelled.
CONSTANTS
    t1 = t1
    t2 = t2
    c1 = c1
    c2 = c2
    Timer <- TwoTimers
    Caller <- TwoCallers
    NoTimer = NoTimer
    MaxRecords = 2
SPECIFICATION FairSpec
INVARIANTS
    TypeOK
    OrderKept
    OneAppend
    DurableOnReturn
PROPERTY AllFlushed
