SPECIFICATION PatientSpec
CONSTANTS
  Tokens = {t1, t2, t3}
  Users = {u1, u2}
  Managed = {u1}
  NULL = NULL
  Requests = {r1, r2}
  AccessTTL = 1
  RefreshTTL = 2
  MaxTime = 3
  DBOutcomes = {"ok"}
  Crashes = TRUE
SYMMETRY Symmetry
INVARIANTS RotationLinks LogoutRevokes DisabledUserLosesAccess
PROPERTY RevokedNeverAccepted
