SPECIFICATION Spec
CONSTANTS
    r1 = r1
    r2 = r2
    p1 = p1
    p2 = p2
    Runner = {r1, r2}
    Partition = {p1, p2}
    None = None
    MaxSequence = 3
    MaxItems = 2
    Concurrency = 2
    PageLimit = 2
    MaxBatches = 2
    MaxFaults = 1
SYMMETRY Symmetric
CHECK_DEADLOCK FALSE
INVARIANTS
    TypeOK
    NothingSkipped
    PartitionOrder
    OneManifest
PROPERTIES
    CheckpointForward
