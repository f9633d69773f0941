SPECIFICATION Spec
CONSTANTS
  e1 = e1
  n1 = n1
  n2 = n2
  c1 = c1
  t1 = t1
  t2 = t2
  None = None
  Emails = {e1}
  Nicks = {n1, n2}
  Codes = {c1}
  UserIds = {1, 2, 3}
  NewStatuses = {"common_admin", "suspend"}
  Threads = {t1, t2}
  MaxRequests = 4
  MaxFaults = 1
SYMMETRY Slots
CHECK_DEADLOCK FALSE
INVARIANTS
  TypeOK
  UsersComplete
  NamesBounded
  AdminsGranted
