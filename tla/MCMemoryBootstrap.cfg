CONSTANTS
  Msgs <- MCWellFormedMsgs
  AttachAddrs <- MCAttachAddrs
SPECIFICATION Spec
INVARIANTS
  SharedLayoutInsideBuffer
  HeapClearOfStack
CHECK_DEADLOCK FALSE
