SPECIFICATION FairSpec
CHECK_DEADLOCK FALSE
CONSTANTS
  p1 = p1
  p2 = p2
  s1 = s1
  FileToken = FileToken
  SockToken = SockToken
  Malformed = Malformed
  None = None
  Stale = Stale
  d1 = d1
  c1 = c1
  c2 = c2
  c3 = c3
  Daemon = {d1}
  Client = {c1, c2, c3}
  Path = {p1, p2}
  Sock = {s1}
  Config <- BadConfig
  FirstConfig <- First
  Missing = {p2}
  Backlog = 1
  MaxStarts = 3
  MaxSignals = 2
  MaxEdits = 2
  MaxKills = 1
  MaxLeaves = 1
INVARIANTS
  HupLateByOneClient
  AwaitsOnSocket
  StopRemovesSocket
  SecondStartBinds
PROPERTIES
  StopsUnlessLooping
