SPECIFICATION Spec
CHECK_DEADLOCK FALSE
CONSTANTS
  p1 = p1
  p2 = p2
  s1 = s1
  FileToken = FileToken
  SockToken = SockToken
  Malformed = Malformed
  None = None
  Stale = Stale
  d1 = d1
  c1 = c1
  Daemon = {d1}
  Client = {c1}
  Path = {p1, p2}
  Sock = {s1}
  Config <- TwoConfigs
  FirstConfig <- First
  Missing = {p1}
  Backlog = 1
  MaxStarts = 1
  MaxSignals = 0
  MaxEdits = 0
  MaxKills = 0
  MaxLeaves = 0
INVARIANTS
  AnswersAreSizes
