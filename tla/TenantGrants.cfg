SPECIFICATION Spec
CONSTANTS
  w1 = w1
  w2 = w2
  root = root
  tom = tom
  ann = ann
  sA = sA
  sB = sB
  dA = dA
  rA = rA
  qA = qA
  rB = rB
  eA = eA
  lap = lap
  None = None
  Workers = {w1}
  Roots = {root}
  Tenants = {}
  Clerks = {ann}
  ScopeOf <- OneScope
  Subs = {sA}
  Depts = {dA}
  Roles = {rA, qA}
  Emps = {eA}
  Devs = {lap}
  SubOf <- TwoTenants
  MaxCerts = 0
PROPERTIES
  BothRolesGranted
CHECK_DEADLOCK FALSE
