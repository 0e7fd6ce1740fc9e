SPECIFICATION FairSpec
CONSTANTS
    Base = 2
    MaxContent = 3
    MaxChunks = 3
INVARIANTS
    ChunksInOrder
PROPERTIES
    ChunksArrive
    CloseReported
CHECK_DEADLOCK FALSE
