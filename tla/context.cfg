CONSTANTS
  NULL = NULL
  Objects = {o1, o2, o3}
  Addrs = {a1}
  ID_MOD = 4
  ConnIds = {1, 2}
  Seeds = {1}
  SeqNrs = {0}
  RST_INFO_LIMIT = 1
  RST_INFO_TIMEOUT = 1
  TIMEOUT_CHECK_INTERVAL = 1
  SOCKET_LIMIT = 0
SPECIFICATION Spec
SYMMETRY ObjectSymmetry
CHECK_DEADLOCK FALSE
INVARIANTS
  AckIndexed
  AckOwed
  NoDangling
  RegistryExact
  PeerReachable
  EchoFound
PROPERTIES
  RstOnce
