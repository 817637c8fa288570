CONSTANTS
  NULL = NULL
  c1 = c1
  c2 = c2
  l1 = l1
  l2 = l2
  Clients = {c1, c2}
  ConnIds <- MCConnIds
  HEADER = 1
  MAX_BODY = 2
  PREFIX = 1
  Joined = {l1}
  SNDBUF = 2
  RCVBUF = 1
  Typed <- MCTyped
  MayQuit = {c1, "server"}
  MayFail <- MCMayFail
  MaxEvents = 1
SPECIFICATION Spec
CHECK_DEADLOCK FALSE
INVARIANTS
  FramesInOrder
  BackpressureExact
  
  NoLostWakeup
  ServerBufferBounded
PROPERTIES
  AllDelivered
  
