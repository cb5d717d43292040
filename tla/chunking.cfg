SPECIFICATION Spec
CONSTANTS
    ChunkSize = 4
    Overlap = 2
    MaxPages = 2
    MaxTokens = 7
INVARIANTS TokensKept ChunksAdvance
