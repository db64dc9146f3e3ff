SPECIFICATION FairSpec
CONSTANTS
  k1 = k1
  k2 = k2
  DKey = {"primary", "backup"}
  Name = {n1}
  HKey = {k1, k2}
  Val = {v1}
  None = None
  User = {u1}
  Setup <- Holds
CHECK_DEADLOCK FALSE
INVARIANTS NothingForgotten ListHasValues ShutdownSaves LoggedIsRegistered
PROPERTIES MarksGo
