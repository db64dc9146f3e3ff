SPECIFICATION Spec
CONSTANTS
  k1 = k1
  k2 = k2
  k3 = k3
  v1 = v1
  v2 = v2
  big = big
  HKey = {k1, k2}
  Val = {v1, v2}
  NoVal = NoVal
  Size <- MCSize
  minimumSize = 5
  chunkLimit = 0
  MaxTables = 4
  MaxOps = 4
CHECK_DEADLOCK FALSE
INVARIANTS GetReturnsLastPut
