SPECIFICATION SessionSpec
CONSTANTS
  Tokens = {t1, t2, t3}
  Users = {u1}
  Managed = {}
  NULL = NULL
  Requests = {r1, r2}
  Browsers = {b1, b2}
  AccessTTL = 1
  RefreshTTL = 2
  MaxTime = 2
  DBOutcomes = {"ok", "refused", "lostAck"}
  Crashes = TRUE
SYMMETRY Symmetry
VIEW View
INVARIANTS SessionTypeOK CookieStaysGood OneLiveToken
PROPERTY StaysLoggedIn
