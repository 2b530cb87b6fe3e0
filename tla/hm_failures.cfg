SPECIFICATION Spec
CHECK_DEADLOCK FALSE
CONSTANTS
  kA = kA
  kB = kB
  kC = kC
  kD = kD
  kE = kE
  NoKey = NoKey
  Key <- FiveWords
  Hash <- ThreeSlotsOf28
  InitCapacity = 7
  MaxWords = 6
  MallocMayFail = TRUE
INVARIANTS
  RehashFits
  NoneCountedTwice
