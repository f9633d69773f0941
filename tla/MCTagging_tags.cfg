SPECIFICATION FairSpec
CONSTANTS
  f1 = f1
  f2 = f2
  f3 = f3
  n1 = n1
  n2 = n2
  k1 = k1
  k2 = k2
  None = None
  Files = {f1, f2, f3}
  Names = {n1, n2}
  Labels <- MCLabels
  Images = {f1, f2}
  Consumers = {k1, k2}
  MaxMessages = 3
  MaxDeletes = 1
  MaxFaults = 1
CHECK_DEADLOCK FALSE
INVARIANTS
  TypeOK
  AllOrNone
  DuplicatesBounded
PROPERTIES
  RequestsTagged
