CONSTANTS
  SEQ_MOD = 8
  REORDER_MAX = 3
  OUT_MAX = 4
  ISN = 6
  MaxSent = 11
  NULL = NULL
SPECIFICATION Spec
INVARIANTS
  InOrderOnce
  EofIsLast
  BufferConsistent
  WindowInv
