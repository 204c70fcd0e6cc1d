\* KeyboardInterrupt reaches an append between its write and its publish.
CONSTANTS
    h1 = h1
    h2 = h2
    a = a
    b = b
    Handle <- TwoHandles
    Payload <- TwoPayloads
    NoHandle = NoHandle
    Torn = Torn
    MaxCells = 3
    MaxBatch = 2
    CleanLost = FALSE
    DirtyExit = TRUE
SPECIFICATION InterruptedSpec
SYMMETRY Symmetric
INVARIANT ReadsAcked
