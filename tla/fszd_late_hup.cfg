SPECIFICATION Spec
CHECK_DEADLOCK FALSE
CONSTANTS
  p1 = p1
  p2 = p2
  s1 = s1
  FileToken = FileToken
  SockToken = SockToken
  Malformed = Malformed
  None = None
  Stale = Stale
  d1 = d1
  c1 = c1
  c2 = c2
  Daemon = {d1}
  Client = {c1, c2}
  Path = {p1, p2}
  Sock = {s1}
  Config <- TwoConfigs
  FirstConfig <- First
  Missing = {}
  Backlog = 1
  MaxStarts = 1
  MaxSignals = 1
  MaxEdits = 1
  MaxKills = 0
  MaxLeaves = 0
INVARIANTS
  HupReread
