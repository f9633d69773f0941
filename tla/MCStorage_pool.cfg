SPECIFICATION FairPoolSpec
CONSTANTS
  u1 = u1
  u2 = u2
  f1 = f1
  f2 = f2
  f3 = f3
  r1 = r1
  r2 = r2
  a = a
  b = b
  c1 = c1
  c2 = c2
  q1 = q1
  q2 = q2
  Top = Top
  None = None
  Blank = Blank
  Users = {u1, u2}
  Folders = {r1, r2, a}
  Files = {f1, f2}
  Contents = {c1, c2}
  SizeOf <- MCSizeOf
  RootOf <- MCRootOf
  Volumes = {1}
  InitialVolume = 3
  Reqs = {q1, q2}
  PerUser = 2
  MaxRequests = 3
  Foreign = FALSE
  Failures = TRUE
  PoolSize = 2
  Ops = {"upload", "deletefile", "createfolder", "deletefolder", "sharesave", "movefile", "setvolume", "admindelete"}
CHECK_DEADLOCK FALSE
INVARIANTS
  DrainedByNesting
PROPERTIES
  UsesPool
  RequestsEnd
