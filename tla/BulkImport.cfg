SPECIFICATION Spec
CONSTANTS
  w1 = w1
  w2 = w2
  ann = ann
  bob = bob
  laptop = laptop
  phone = phone
  staff = staff
  gear = gear
  both = both
  renew = renew
  Free = Free
  Workers = {w1, w2}
  Emps = {ann, bob}
  Types = {laptop}
  Staff = {staff}
  Gear = {gear}
  Renewals = {renew}
  Rows <- MCRows
  Display <- MCDisplay
  Singles <- MCSingles
  Leavers = {ann}
SYMMETRY Symmetry
INVARIANTS
  TypeOK
  RowsOnce
  ResultIsTrue
PROPERTIES
  NameOnce
CHECK_DEADLOCK FALSE
