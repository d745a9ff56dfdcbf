SPECIFICATION Spec
CONSTANTS
  Certs = {c1}
  Requests = {web}
  Cron = cron
  Nobody = nobody
  NoFile = absent
  Torn = torn
  Stamps = {1, 2, 3, 4, 5, 6}
  Pulling = FALSE
  Attempts = 2
  MaxFailures = 1
  MaxTimeouts = 0
  MaxDeaths = 1
INVARIANTS
  TypeOK
  RegistryCovered
  DeliveredOrLoud
