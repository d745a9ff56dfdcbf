SPECIFICATION FairSpec
CONSTANTS
  SiteRow = SiteRow
  Bindings = {b}
  Admins = {}
  Timer = Timer
  Pull = Pull
  Lease = 2
  Threshold = 1
  NoFile = NoFile
  Torn = Torn
  MaxTime = 3
  MaxEdits = 1
  MaxRevision = 8
  MaxFaults = 2
PROPERTIES
  CatchesUp
CHECK_DEADLOCK FALSE
