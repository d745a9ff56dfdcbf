SPECIFICATION FairSpec
CONSTANTS
  Torn = Torn
  MaxTries = 7
  MaxFaults = 3
  MaxDeaths = 2
INVARIANTS
  TypeOK
  ServesDisk
  MismatchHeals
  SignedOnce
PROPERTIES
  RenewalCompletes
CHECK_DEADLOCK FALSE
