SPECIFICATION Spec
CONSTANTS
    Chunks <- MCChunks
    FlatParts <- MCFlatParts
    DeepParts <- MCDeepParts
    MaxFails = 1
    MaxEncodeFails = 1
INVARIANTS
    MemorySound
    ChunkDelivered
    ChunkStored
PROPERTY
    ApplicationKept
