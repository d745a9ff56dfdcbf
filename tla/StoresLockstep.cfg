SPECIFICATION Spec
CONSTANTS
  w1 = w1
  w2 = w2
  s1 = s1
  s2 = s2
  s3 = s3
  Never = Never
  Workers = {w1}
  Serials = {s1, s2}
  Ttl = 1
  QrAge = 0
  MaxTime = 3
INVARIANTS
  Lockstep
SYMMETRY Symmetry
CHECK_DEADLOCK FALSE
