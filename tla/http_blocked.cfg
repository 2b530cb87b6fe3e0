SPECIFICATION FairSpec
CHECK_DEADLOCK FALSE
CONSTANTS
  cA = cA
  cB = cB
  cC = cC
  fA = fA
  fB = fB
  NoFile = NoFile
  Listener = Listener
  Client = {cA, cB}
  File = {fA, fB}
  Size <- Sizes
  Segments <- OneEach
  MaxSend = 3
PROPERTIES
  EveryRequestAnswered
