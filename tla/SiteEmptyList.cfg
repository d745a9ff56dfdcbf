SPECIFICATION AccessSpec
CONSTANTS
  root = root
  ann = ann
  tom = tom
  sA = sA
  sB = sB
  rA = rA
  Admins = {root, ann}
  Subs = {sA, sB}
  Everything = Everything
  ScopeOf <- TwoScopes
  Roles = {rA}
  SubOf <- OneRole
  MaxVlan = 2
  NoVlan = NoVlan
  NoBinding = NoBinding
  Stranger = Stranger
INVARIANTS
  EmptyListWithdraws
CHECK_DEADLOCK FALSE
