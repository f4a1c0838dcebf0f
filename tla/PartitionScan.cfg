CONSTANTS
    NumPages = 3
    TuplesPerPage = 2
    Stub = {1, 2, 3}
    MaxTuples <- PartitionedOnly
    QueueSize = 2
    NumRows = 1
    Key = {1, 2}
    Hash <- Hashes
    numBitsPerLayer = 2
    Threshold <- OneSixth
SPECIFICATION Spec
INVARIANTS PartitionScans
CHECK_DEADLOCK FALSE
