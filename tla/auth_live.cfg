SPECIFICATION LiveCleanupSpec
CONSTANTS
  Tokens = {t1, t2}
  Users = {u1}
  Managed = {u1}
  NULL = NULL
  Requests = {r1}
  AccessTTL = 1
  RefreshTTL = 2
  MaxTime = 3
  DBOutcomes = {"ok", "refused", "lostAck"}
  Crashes = TRUE
  FirstDelay = 1
  Interval = 2
  SweepTimeout = 1
INVARIANT CleanupTypeOK
PROPERTIES RequestsFinish ExpiredEventuallyPurged
