SPECIFICATION Spec
CHECK_DEADLOCK FALSE
CONSTANTS
  nA = nA
  nB = nB
  nD = nD
  l1 = l1
  l2 = l2
  l3 = l3
  fA = fA
  Console = Console
  None = None
  Address = {a1, a2, a3, a4, a5}
  Null = Null
  Off = Off
  Programs = {"logger"}
  JpegFiles <- ZipFiles
  Contents <- Bytes
  Texts <- LettersAndLines
  Sessions <- NoPrompts
  Dest <- TwoConsoles
  Data <- Values
  Responses <- SomeResponses
INVARIANT ErrorsSurvive
