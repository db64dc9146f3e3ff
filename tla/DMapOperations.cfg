SPECIFICATION Spec
CONSTANTS
  n1 = n1
  n2 = n2
  n3 = n3
  t1 = t1
  t2 = t2
  t3 = t3
  t4 = t4
  Node = {n1, n2, n3}
  Thread = {t1, t2, t3, t4}
  None = None
  Old = Old
  Setup <- Operations
  MaxGen = 2
CHECK_DEADLOCK FALSE
INVARIANTS UpToDate CopiesAgree AckedBackedUp OldVersionsPurged CountExact PrimaryHasLatest ExpiredHidden DestroyFlushes
