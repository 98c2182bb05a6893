SPECIFICATION Spec
CONSTANTS
    Batches <- SmallBatches
    Threshold = 1
    MaxFileBytes = 12
    MaxBatchBytes = 15
    MaxInMemory = 6
    MaxTextBytes = 2
    MaxChunks = 4
    MaxFileCount = 3
    ChunkSize = 3
    P2pMaxPlaintext = 2
INVARIANTS
    LimitsAgree
CHECK_DEADLOCK FALSE
