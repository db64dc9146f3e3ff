SPECIFICATION FairSpec
CONSTANTS
  Call = {p1, p2, p3}
  Conn = {c1, c2, c3}
  MaxConn = 1
  p1 = p1
  p2 = p2
  p3 = p3
  None = None
  Setup <- Holds
CHECK_DEADLOCK FALSE
INVARIANTS  ShutdownWaits BusyAnswered NoConnLost
PROPERTIES ShutdownEnds CallsReturn
