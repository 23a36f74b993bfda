CONSTANTS
  W <- MCW
  Batch <- MCBatch
  Starts <- NonZeroStarts
  Ends <- AllEnds
SPECIFICATION Spec
INVARIANTS
  FewestPages
PROPERTIES
  FlushExact
