SPECIFICATION PoliteSpec
CHECK_DEADLOCK FALSE
CONSTANTS
  cA = cA
  cB = cB
  cC = cC
  fA = fA
  fB = fB
  NoFile = NoFile
  Listener = Listener
  Client = {cA, cB, cC}
  File = {fA, fB}
  Size <- Sizes
  Segments <- ThreeMixed
  MaxSend = 3
INVARIANTS
  NoStaleEvent
  FilesIntact
PROPERTIES
  HungUpIsClosed
