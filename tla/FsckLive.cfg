SPECIFICATION FairFsckSpec
CONSTANTS
  n1 = n1
  n2 = n2
  n3 = n3
  t1 = t1
  t2 = t2
  t3 = t3
  Node = {n1, n2, n3}
  Thread = {t1, t2, t3}
  None = None
  Old = Old
  Setup <- Small
  MaxGen = 3
CHECK_DEADLOCK FALSE
INVARIANTS BackupsMoved
PROPERTIES Returns FsckEnds EvictionDeletes AsyncBackups
