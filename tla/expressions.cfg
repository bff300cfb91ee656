SPECIFICATION Spec
CONSTANTS
  CHAR_BIT = 2
  SHORT_SIZE = 2
  INT_SIZE = 4
  LONG_SIZE = 8
  PTR_SIZE = 8
  ObjectBase = 16
  ObjectStride = 16
  Families <- MCFamilies
INVARIANTS
  ComputesC
  NoPanic
  ValidAccepted
  InvalidRejected
  FoldingPreserves
  InitialBytes
CHECK_DEADLOCK FALSE
