SPECIFICATION HSpec
CONSTANTS
  w1 = w1
  w2 = w2
  r1 = r1
  Inserters = {w1, w2}
  Finders = {}
  Hash <- TwoKeys
  HashesOf <- OwnKey
  ARR_SZ = 2
  MAX_LVL = 2
  MAX_LVL_ARR_SZ = 2
  MAX_FAIL_CNT = 8
  FAIL_CNT_MOD = 256
  Addr = {1, 2, 3, 4, 5, 6, 7, 8, 9, 10, 11, 12}
  ArrId = {0, 1, 2}
  HeadArr = 0
  MaxOps = 12
  Recycle = FALSE
INVARIANTS
  ContentExplained
CHECK_DEADLOCK FALSE
