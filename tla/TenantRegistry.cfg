SPECIFICATION Spec
CONSTANTS
  w1 = w1
  w2 = w2
  root = root
  tom = tom
  ann = ann
  sA = sA
  sB = sB
  dA = dA
  rA = rA
  qA = qA
  rB = rB
  eA = eA
  lap = lap
  None = None
  Workers = {w1, w2}
  Roots = {root}
  Tenants = {tom}
  Clerks = {ann}
  ScopeOf <- OneScope
  Subs = {sA, sB}
  Depts = {dA}
  Roles = {rA, qA, rB}
  Emps = {eA}
  Devs = {lap}
  SubOf <- TwoTenants
  MaxCerts = 1
INVARIANTS
  TypeOK
  ReferencesHold
  TenantsApart
SYMMETRY Symmetry
CHECK_DEADLOCK FALSE
