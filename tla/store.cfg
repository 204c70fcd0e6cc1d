\* Two processes whose operations do not overlap, with crashes and power losses.
CONSTANTS
    p1 = p1
    p2 = p2
    Proc <- TwoProcs
    NoProc = NoProc
    MaxFiles = 3
    MaxRecords = 2
    Overlap = FALSE
SPECIFICATION Spec
SYMMETRY Symmetric
INVARIANTS
    TypeOK
    AckedKept
    NoResurrection
    WriterAtPath
