SPECIFICATION FairSpec
CONSTANTS
  k1 = k1
  k2 = k2
  k3 = k3
  v1 = v1
  v2 = v2
  big = big
  HKey = {k1, k2}
  Val = {v1, big}
  NoVal = NoVal
  Size <- MCSize
  minimumSize = 6
  chunkLimit = 1
  MaxTables = 4
  MaxOps = 5
CHECK_DEADLOCK FALSE
INVARIANTS Accounting NoKeyLost NewTableHasRoom
PROPERTIES MergeKeepsUniqueKeys MergeEnds
