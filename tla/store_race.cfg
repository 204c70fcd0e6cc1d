\* A create and another operation of two processes overlap.
CONSTANTS
    p1 = p1
    p2 = p2
    Proc <- TwoProcs
    NoProc = NoProc
    MaxFiles = 3
    MaxRecords = 2
    Overlap = TRUE
SPECIFICATION Spec
SYMMETRY Symmetric
INVARIANT
    WriterAtPath
