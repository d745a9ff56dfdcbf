SPECIFICATION Spec
CONSTANTS
  SiteRow = SiteRow
  Bindings = {b}
  Admins = {alice}
  Timer = Timer
  Pull = Pull
  Lease = 2
  Threshold = 1
  NoFile = NoFile
  Torn = Torn
  MaxTime = 3
  MaxEdits = 1
  MaxRevision = 2
  MaxFaults = 2
INVARIANTS
  EditsArePublished
CHECK_DEADLOCK FALSE
