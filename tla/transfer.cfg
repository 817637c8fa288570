CONSTANTS
  NULL = NULL
  SEQ_MOD = 16
  REORDER_MAX = 4
  OUT_MAX = 4
  DUP_ACKS = 1
  SACK_BITS = 6
  PACKET_SIZE = 2
  MIN_WINDOW = 1
  SNDBUF = 8
  RCVBUF = 8
  RETRANSMIT_LIMIT = 1
  SYN_RETRANSMIT_LIMIT = 0
  RST_INFO_LIMIT = 0
  IsnA = 6
  IsnB = 14
  MaxA = 7
  MaxB = 0
  ISN <- MCISN
  MaxWrite <- MCMaxWrite
  WINDOWS = {6}
  WriteSizes = {5}
  MayClose = {}
  MayShutdown = {}
  MayHold = {}
  Timers <- TransferTimers
  Icmp = {}
  MaxLosses = 0
  MaxDups = 1
  MaxNet = 3
SPECIFICATION Spec
CHECK_DEADLOCK FALSE
INVARIANTS
  InFlightAccounting
  WindowHead
  
  NoDataLost
PROPERTIES
  ImplementsStream
