SPECIFICATION Spec
CONSTANTS
  u1 = u1
  u2 = u2
  f1 = f1
  f2 = f2
  f3 = f3
  r1 = r1
  r2 = r2
  a = a
  b = b
  c1 = c1
  c2 = c2
  q1 = q1
  q2 = q2
  Top = Top
  None = None
  Blank = Blank
  Users = {u1, u2}
  Folders = {r1, r2, a}
  Files = {f1, f2}
  Contents = {c1, c2}
  SizeOf <- MCSizeOf
  RootOf <- MCRootOf
  Volumes = {1, 3}
  InitialVolume = 2
  Reqs = {q1, q2}
  PerUser = 2
  MaxRequests = 3
  Foreign = TRUE
  Failures = TRUE
  Ops = {"upload", "deletefile", "movefile", "createfolder", "movefolder", "deletefolder", "sharesave", "setvolume", "admindelete"}
CHECK_DEADLOCK FALSE
SYMMETRY Slots
INVARIANTS
  TypeOK
  QuotaRow
PROPERTIES
  AccountsIsolated
