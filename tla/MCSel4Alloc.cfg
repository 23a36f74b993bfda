CONSTANTS
  CHUNK <- MCChunk
  Base <- MCBase
  NChunks <- MCNChunks
  Sizes <- WellFormedSizes
SPECIFICATION Spec
INVARIANTS
  TypeOK
  FreeListWellFormed
  NoDoubleAllocation
  NoChunkLost
PROPERTIES
  Sel4ImplementsPool
