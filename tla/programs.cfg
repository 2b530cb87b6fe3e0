SPECIFICATION Spec
CHECK_DEADLOCK FALSE
CONSTANTS
  nA = nA
  nB = nB
  nD = nD
  l1 = l1
  l2 = l2
  l3 = l3
  fA = fA
  Console = Console
  None = None
  Address = {a1, a2, a3, a4, a5}
  Null = Null
  Off = Off
  Programs = {"jpeg_zip", "crc32", "to_utf8", "telehack_clt", "logger", "asm", "weather"}
  JpegFiles <- ZipFiles
  Contents <- Bytes
  Texts <- LettersAndLines
  Sessions <- NoPrompts
  Dest <- OneConsole
  Data <- Values
  Responses <- SomeResponses
INVARIANTS
  ListsArchive
  SumsFile
  SameText
  PrintsText
  LinesInOrder
  ErrorsSurvive
  ListsIntact
  ShowsWeather
PROPERTIES
  ProgramsEnd
