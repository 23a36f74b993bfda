CONSTANTS
  Bases <- MCBases
  Limits <- MCLimits
SPECIFICATION Spec
INVARIANTS
  EncodeDecodeRoundTrip
