CONSTANTS
  r1 = r1
  r2 = r2
  f1 = f1
  f2 = f2
  n1 = n1
  e1 = e1
  Requests = {r1, r2}
  Boot = Boot
  Nobody = Nobody
  Forms = {f1, f2}
  Names = {n1}
  Employees = {e1}
  NoOne = NoOne
  NoForm = NoForm
  NoRow = NoRow
  NoFile = NoFile
  Torn = Torn
  NameOf <- MCNameOf
  OwnerOf <- MCOwnerOf
  MaxCerts = 2
  MaxDeaths = 0
SPECIFICATION Spec
PROPERTY RevokedStaysListed
CHECK_DEADLOCK FALSE
