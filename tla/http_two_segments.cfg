SPECIFICATION Spec
CHECK_DEADLOCK FALSE
CONSTANTS
  cA = cA
  cB = cB
  cC = cC
  fA = fA
  fB = fB
  NoFile = NoFile
  Listener = Listener
  Client = {cA}
  File = {fA, fB}
  Size <- Sizes
  Segments <- Split
  MaxSend = 3
INVARIANTS
  NotFoundIsTrue
