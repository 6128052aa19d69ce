SPECIFICATION Spec
CONSTANTS
  Tokens = {t1, t2, t3}
  Users = {u1}
  Managed = {}
  NULL = NULL
  Requests = {r1, r2}
  AccessTTL = 1
  RefreshTTL = 2
  MaxTime = 1
  DBOutcomes = {"ok"}
  Crashes = FALSE
PROPERTY RevokedNeverAccepted
