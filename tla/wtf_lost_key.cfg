SPECIFICATION HSpec
CONSTANTS
  w1 = w1
  w2 = w2
  r1 = r1
  Inserters = {w1, w2}
  Finders = {}
  Hash <- TwoKeys
  HashesOf <- EveryoneAll
  ARR_SZ = 2
  MAX_LVL = 2
  MAX_LVL_ARR_SZ = 2
  MAX_FAIL_CNT = 8
  FAIL_CNT_MOD = 256
  Addr = {1, 2, 3}
  ArrId = {0, 1, 2, 3}
  HeadArr = 0
  MaxOps = 3
  Recycle = FALSE
INVARIANTS
  InsertAdds
CHECK_DEADLOCK FALSE
