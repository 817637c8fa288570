CONSTANTS
  NULL = NULL
  SEQ_MOD = 7
  MIN_MTU = 4
  UDP_MTU = 7
  DONE_GAP = 1
  HEADER = 1
  OVERHEAD = 1
  PATH = 5
  NextHopMtu = FALSE
  OUT_MAX = 3
  DUP_ACKS = 1
  WriteSizes = {1, 6}
SPECIFICATION MtuSpec
INVARIANTS
  SearchInterval
  ProbeInRange
PROPERTIES
  IntervalNarrows
