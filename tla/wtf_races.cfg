SPECIFICATION Spec
CONSTANTS
  w1 = w1
  w2 = w2
  r1 = r1
  Inserters = {w1, w2}
  Finders = {}
  Hash <- ThreeKeys
  HashesOf <- EveryoneAll
  ARR_SZ = 2
  MAX_LVL = 2
  MAX_LVL_ARR_SZ = 2
  MAX_FAIL_CNT = 0
  FAIL_CNT_MOD = 3
  Addr = {1, 2, 3}
  ArrId = {0, 1, 2, 3}
  HeadArr = 0
  MaxOps = 3
  Recycle = FALSE
INVARIANTS
  OneOwner
  ArraysOwned
  NoNullDereference
PROPERTIES
  SlotsMoveForward
CHECK_DEADLOCK FALSE
