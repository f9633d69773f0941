SPECIFICATION Spec
CONSTANTS
  u1 = u1
  u2 = u2
  f1 = f1
  f2 = f2
  f3 = f3
  r1 = r1
  r2 = r2
  a = a
  b = b
  c1 = c1
  c2 = c2
  q1 = q1
  q2 = q2
  Top = Top
  None = None
  Blank = Blank
  Users = {u1}
  Folders = {r1, a, b}
  Files = {f1, f2}
  Contents = {c1, c2}
  SizeOf <- MCSizeOf
  RootOf <- MCRootOf
  Volumes = {1}
  InitialVolume = 3
  Reqs = {q1}
  PerUser = 1
  MaxRequests = 7
  Foreign = FALSE
  Failures = FALSE
  Ops = {"upload", "deletefile", "movefile", "createfolder", "movefolder", "deletefolder"}
CHECK_DEADLOCK FALSE
INVARIANTS
  StoreExact
  FolderExact
  HierarchyAcyclic
PROPERTIES
  NoResurrection
