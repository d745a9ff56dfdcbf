SPECIFICATION FairSpec
CONSTANTS
  Certs = {c1}
  Requests = {}
  Cron = cron
  Nobody = nobody
  NoFile = absent
  Torn = torn
  Stamps = {1, 2, 3, 4, 5, 6, 7, 8}
  Pulling = TRUE
  Attempts = 2
  MaxFailures = 1
  MaxTimeouts = 1
  MaxDeaths = 1
PROPERTY PullRepairs
