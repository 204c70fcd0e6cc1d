\* One process at a time, and a disk that forgets what it failed to write.
CONSTANTS
    h1 = h1
    h2 = h2
    a = a
    b = b
    Handle <- OneHandle
    Payload <- TwoPayloads
    NoHandle = NoHandle
    Torn = Torn
    MaxCells = 3
    MaxBatch = 2
    CleanLost = TRUE
    DirtyExit = FALSE
SPECIFICATION Spec
SYMMETRY Symmetric
PROPERTIES
    ClosedIsFinal
    ImplementsLog
