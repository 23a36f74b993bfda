CONSTANTS
  CHUNK <- MCChunk
  Base <- MCBase
  NChunks <- MCNChunks
  Sizes <- WellFormedSizes
SPECIFICATION Spec
PROPERTY
  AllocFailsOnlyWhenExhausted
