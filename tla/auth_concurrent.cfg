SPECIFICATION Spec
CONSTANTS
  Tokens = {t1, t2, t3}
  Users = {u1}
  Managed = {}
  NULL = NULL
  Requests = {r1, r2}
  AccessTTL = 1
  RefreshTTL = 2
  MaxTime = 3
  DBOutcomes = {"ok", "refused", "lostAck"}
  Crashes = TRUE
SYMMETRY Symmetry
INVARIANTS TypeOK ReplacedByIntact IssuedBacked
PROPERTY RefinesLedger
