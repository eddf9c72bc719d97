SPECIFICATION ChunkSpec
CONSTANTS
    MaxTick = 4
    MaxChunkCount = 3
INVARIANTS
    AppliedAgainByOtherCount
PROPERTIES
    ImplementsStream
