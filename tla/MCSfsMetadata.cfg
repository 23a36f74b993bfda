CONSTANTS
  PtrBits <- MCPtrBits
  HeapStart <- MCHeapStart
  HeapEnd <- MCHeapEnd
  ObjSizes <- SmallObjects
  ArrayReqs <- SmallArrays
  StrLens <- SmallStrings
  SfsRequests <- MCSfsRequests
  SFS_MAGIC <- MCMagic
  PAGE_SIZE <- MCPageSize
  sfs_calculate_hmac <- MCHmac
SPECIFICATION RuntimeSpec
CHECK_DEADLOCK FALSE
INVARIANTS
  ObjectsInHeap
  ObjectFitsAllocation
PROPERTIES
  SfsImplementsContract
