SPECIFICATION FairSpecKey
CONSTANTS
  Call = {p1, p2, p3}
  Node = {n1, n2}
  Name = {d1, d2, d3}
  n1 = n1
  n2 = n2
  p1 = p1
  p2 = p2
  p3 = p3
  None = None
  Setup <- Holds
CHECK_DEADLOCK FALSE
INVARIANTS OneHolderPerName
PROPERTIES UncontendedLockExpires UpdatesExact EveryCallReturns
