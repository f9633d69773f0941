SPECIFICATION Spec
CONSTANTS
  s1 = s1
  u1 = u1
  c0 = c0
  c1 = c1
  c2 = c2
  q1 = q1
  q2 = q2
  None = None
  Sessions = {s1}
  Users = {u1}
  Contents = {c2}
  SizeOf <- MCSizeOf
  ChunkSize = 2
  MaxChunks = 3
  MaxSize = 8
  Reqs = {q1, q2}
  PerSession = 2
  Duplicates = FALSE
  Failures = FALSE
CHECK_DEADLOCK FALSE
INVARIANTS
  MergedIsComplete
