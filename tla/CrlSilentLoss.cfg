SPECIFICATION Spec
CONSTANTS
  Certs = {c1}
  Requests = {web}
  Cron = cron
  Nobody = nobody
  NoFile = absent
  Torn = torn
  Stamps = {1, 2, 3, 4, 5, 6}
  Pulling = FALSE
  Attempts = 2
  MaxFailures = 0
  MaxTimeouts = 1
  MaxDeaths = 0
INVARIANT NoSilentLoss
