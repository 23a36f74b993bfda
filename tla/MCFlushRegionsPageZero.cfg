CONSTANTS
  W <- MCW
  Batch <- MCBatch
  Starts <- AllStarts
  Ends <- AllEnds
SPECIFICATION Spec
PROPERTY
  FlushExact
