\* A writer and a second handle over frames of unequal size.
CONSTANTS
    h1 = h1
    h2 = h2
    Handle <- TwoHandles
    NoHandle = NoHandle
    Payload <- Payloads
    MaxPayload = 2
    MaxBytes = 9
    MaxBatch = 2
    MaxFaults = 2
SPECIFICATION Spec
SYMMETRY Symmetric
INVARIANTS
    ScanIsReference
    OwnerIndexExact
    SnapshotReadable
    NothingInvented
PROPERTY ImplementsLog
