SPECIFICATION FairSpec
CONSTANTS
  kA = kA
  kB = kB
  kC = kC
  kD = kD
  kE = kE
  NoKey = NoKey
  Key <- FourWords
  Hash <- Colliding
  InitCapacity = 4
  MaxWords = 6
  MallocMayFail = FALSE
INVARIANTS
  TypeOK
  Findable
  RehashCopies
  EveryWordAccounted
PROPERTIES
  CountsWords
  CallsReturn
