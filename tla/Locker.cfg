SPECIFICATION FairSpec
CONSTANTS
  Call = {p1, p2, p3, p4}
  Name = {x, y}
  None = None
CHECK_DEADLOCK FALSE
INVARIANTS NoLeftover
PROPERTIES EveryLockReturns ImplementsNamedLock
