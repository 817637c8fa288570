CONSTANTS
  NULL = NULL
  SEQ_MOD = 16
  INITIAL_SIZE = 2
  SPAN = 6
  SACK_MAX = 4
  Packets = {p1, p2}
SPECIFICATION RingSpec
CHECK_DEADLOCK FALSE
INVARIANTS
  RingCounts
  SackBitmapExact
PROPERTIES
  RefinesMap
