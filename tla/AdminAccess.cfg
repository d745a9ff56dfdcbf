SPECIFICATION Spec
CONSTANTS
  w1 = w1
  w2 = w2
  root = root
  ann = ann
  s1 = s1
  s2 = s2
  NoAdmin = NoAdmin
  NoSession = NoSession
  Workers = {w1, w2}
  Admins = {root, ann}
  Supers = {root, ann}
  Sids = {s1}
  MaxAttempts = 2
  MaxVersion = 1
INVARIANTS
  TypeOK
  BumpsHold
  SuperLeft
PROPERTIES
  LockHolds
SYMMETRY Symmetry
CHECK_DEADLOCK FALSE
