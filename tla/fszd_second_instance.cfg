SPECIFICATION Spec
CHECK_DEADLOCK FALSE
CONSTANTS
  p1 = p1
  p2 = p2
  s1 = s1
  FileToken = FileToken
  SockToken = SockToken
  Malformed = Malformed
  None = None
  Stale = Stale
  d1 = d1
  d2 = d2
  c1 = c1
  Daemon = {d1, d2}
  Client = {c1}
  Path = {p1, p2}
  Sock = {s1}
  Config <- TwoConfigs
  FirstConfig <- First
  Missing = {}
  Backlog = 1
  MaxStarts = 2
  MaxSignals = 0
  MaxEdits = 0
  MaxKills = 0
  MaxLeaves = 0
INVARIANTS
  AwaitsOnSocket
