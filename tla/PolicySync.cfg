SPECIFICATION Spec
CONSTANTS
  SiteRow = SiteRow
  Bindings = {b}
  Admins = {alice}
  Timer = Timer
  Pull = Pull
  Lease = 2
  Threshold = 1
  NoFile = NoFile
  Torn = Torn
  MaxTime = 3
  MaxEdits = 1
  MaxRevision = 3
  MaxFaults = 1
INVARIANTS
  TypeOK
  LeaseBoundsStaleness
  NotModifiedIsIntact
  InstalledStatusIsTrue
  OkPassAgrees
  BindingsNeverRegress
PROPERTIES
  KeepsTheView
CHECK_DEADLOCK FALSE
