SPECIFICATION Spec
CONSTANTS
  Tokens = {t1, t2}
  Users = {u1}
  Managed = {}
  NULL = NULL
  Requests = {r1}
  AccessTTL = 1
  RefreshTTL = 2
  MaxTime = 1
  DBOutcomes = {"ok", "refused"}
  Crashes = FALSE
INVARIANT LogoutRevokes
