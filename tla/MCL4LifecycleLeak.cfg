CONSTANTS
  c1 = c1
  c2 = c2
  c3 = c3
  c4 = c4
  c5 = c5
  InvalidCap = InvalidCap
  Caps <- MCCaps
  Priorities <- MCPriorities
SPECIFICATION Spec
SYMMETRY CapSymmetry
INVARIANT
  NoLiveObjectInFreeSlot
