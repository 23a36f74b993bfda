CONSTANTS
  t1 = t1
  t2 = t2
  t3 = t3
  t4 = t4
  NSlots <- MCNSlots
  SlabBase <- MCSlabBase
  TLS_MIN <- MCTlsMin
  Threads <- MCThreadsOver
  Reqs <- MCReqs
  Idxs <- MCIdxs
  MaxRefusals = 1
SYMMETRY ThreadSymmetryOver
SPECIFICATION Spec
INVARIANT
  TableInSlab
