SPECIFICATION FairSpec
CHECK_DEADLOCK FALSE
CONSTANTS
  MaxStops = 1
  Logs <- MCLogs
  ExitCodes = {0, 3}
  Ttls = {1}
  MaxOutputBytes = 2
  PendingTTL = 2
  MaxNow = 3
  MaxFaults = 2
  Tabs = {t1, t2}
  Headers <- MCHeaders
  MaxLoads = 2
  Timeouts <- MCTimeouts
  TokenReviews <- MCTokenReviews
  AccessReviews <- MCAccessReviews
INVARIANTS OutputAccounted OutputKept FormsWork CallerToldTruth
PROPERTIES ServiceResumes ClientReturns
