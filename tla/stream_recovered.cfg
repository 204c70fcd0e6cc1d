\* A process is killed between its write and its fsync; another one reopens the log.
CONSTANTS
    h1 = h1
    h2 = h2
    a = a
    b = b
    Handle <- TwoHandles
    Payload <- TwoPayloads
    NoHandle = NoHandle
    Torn = Torn
    MaxCells = 3
    MaxBatch = 2
    CleanLost = FALSE
    DirtyExit = TRUE
SPECIFICATION Spec
SYMMETRY Symmetric
INVARIANT VisibleIsDurable
