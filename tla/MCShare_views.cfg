SPECIFICATION Spec
CONSTANTS
  s1 = s1
  t1 = t1
  t2 = t2
  t3 = t3
  None = None
  Shares = {s1}
  EmptyAfter = 0
  SaveAfter = 1
  Threads = {t1, t2, t3}
  MaxRequests = 6
  Errors = TRUE
SYMMETRY Slots
CHECK_DEADLOCK FALSE
INVARIANTS
  TypeOK
  EmptyIsGone
  
  DeletedNotCached
  SettledIsWhole
