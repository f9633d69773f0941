SPECIFICATION Spec
CONSTANTS
  u1 = u1
  u2 = u2
  n1 = n1
  n2 = n2
  c1 = c1
  q1 = q1
  q2 = q2
  jpg = jpg
  i1 = i1
  Png = Png
  NoExt = NoExt
  Torn = Torn
  None = None
  Users = {u1, u2}
  Names = {n1, n2}
  UploadIds = {i1}
  Contents = {c1}
  Exts = {Png, jpg, NoExt}
  ExtOf <- MCExtOf
  Reqs = {q1, q2}
  MaxRequests = 3
  Failures = TRUE
  Misread <- MCMisread
CHECK_DEADLOCK FALSE
SYMMETRY Slots
INVARIANTS
  TypeOK
  NamedByContent
  DownloadsFound
PROPERTIES
  ObjectsStay
