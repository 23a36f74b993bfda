CONSTANTS
  CON_BUF_SIZE <- MCBufSize
  Chars <- MCChars
  MaxPut <- MCMaxPut
SPECIFICATION Spec
INVARIANTS
  StoresInBounds
  NoCharLost
