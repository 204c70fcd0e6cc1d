\* Two processes, failed writes, torn tails, crashes and power losses.
CONSTANTS
    h1 = h1
    h2 = h2
    a = a
    b = b
    Handle <- TwoHandles
    Payload <- TwoPayloads
    NoHandle = NoHandle
    Torn = Torn
    MaxCells = 3
    MaxBatch = 2
    CleanLost = FALSE
    DirtyExit = TRUE
SPECIFICATION Spec
SYMMETRY Symmetric
INVARIANTS
    TypeOK
    AckedDurable
    WriterFileExact
    ReadsAcked
PROPERTY AckedAppendOnly
