SPECIFICATION FairSpec
CONSTANTS
  kA = kA
  kB = kB
  kC = kC
  kD = kD
  kE = kE
  NoKey = NoKey
  Key <- FourWords
  Hash <- ThreeSlots
  InitCapacity = 16
  MaxWords = 4
  MallocMayFail = FALSE
PROPERTIES
  CallsReturn
