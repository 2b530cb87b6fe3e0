SPECIFICATION FairSpec
CHECK_DEADLOCK FALSE
CONSTANTS
  f1 = f1
  f2 = f2
  f3 = f3
  dir = dir
  u1 = u1
  u2 = u2
  r1 = r1
  r2 = r2
  Blank = Blank
  Dash = Dash
  Null = Null
  Garbage = Garbage
  File <- ThreeFiles
  Other = {dir}
  Lines <- Logs
  Unreadable = {f2}
  Url = {u1, u2}
  Ref = {r1, r2}
  ListInitSz = 1
  NumThreads = 4
INVARIANTS
  TypeOK
  OneWorkerPerFile
  ReportIsSequential
PROPERTIES
  Terminates
