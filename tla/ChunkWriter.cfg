SPECIFICATION Spec
CONSTANTS
    MACBYTES = 1
    CONTENT_LENGTH_MAX = 4
    MaxChunkSize = 3
    FlipShare = 2
    Options <- AnyOptions
    MaxLen = 4
    MaxNonce = 2
INVARIANTS
    PayloadPreserved
    ChunksFit
    ChunksWhole
CHECK_DEADLOCK FALSE
