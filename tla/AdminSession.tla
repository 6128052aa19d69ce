---------------------------- MODULE AdminSession ----------------------------
(***************************************************************************)
(* The administrators' browsers in front of AuthService: handleLogin,      *)
(* handleRefresh and handleLogout with the refresh cookie they set and     *)
(* clear.                                                                  *)
(*                                                                         *)
(* A browser keeps one refresh cookie, and sends its requests one at a     *)
(* time: the page has one promise for all who want a refresh (README, "use *)
(* a singleton Promise").  It may go away in the middle of a request (a    *)
(* reload, a dropped connection); the handler goes on without it.  Every   *)
(* step is a step of AuthService, or leaves the server alone.              *)
(*                                                                         *)
(* trail, smooth and lossless are history.                                 *)
(***************************************************************************)
EXTENDS AuthService

CONSTANT Browsers

ASSUME BrowserAssumption == NULL \notin Browsers

VARIABLES
  cookie,    \* cookie[b]: the refresh token in the browser's cookie
  caller,    \* caller[r]: the browser that waits for the answer of slot r
  trail,     \* trail[b]: the tokens issued to b since it last sent a login
  smooth,    \* smooth[b]: since then every statement for b has worked, and
             \* every answer has arrived
  lossless   \* no answer has ever failed to reach its browser

browserVars == <<cookie, caller, trail, smooth, lossless>>

sessionVars == <<vars, browserVars>>

Busy(b) == \E r \in Requests : caller[r] = b

SessionInit ==
  /\ Init
  /\ cookie = [b \in Browsers |-> NULL]
  /\ caller = [r \in Requests |-> NULL]
  /\ trail = [b \in Browsers |-> {}]
  /\ smooth = [b \in Browsers |-> TRUE]
  /\ lossless = TRUE

-----------------------------------------------------------------------------
(* What a browser sends.  A 429 from the rate limiter is answered before   *)
(* the handler and leaves everything as it was, the cookie included.       *)

(* A login does not ask for a cookie: after a refresh that was answered    *)
(* 429, say, the page goes to the login with the old one still set.  The   *)
(* row of that one is left as it is, and the session starts anew.          *)
SendLogin(b, r, u) ==
  /\ ~Busy(b)
  /\ LoginFindByEmail(r, u)
  /\ caller' = [caller EXCEPT ![r] = b]
  /\ trail' = [trail EXCEPT ![b] = {}]
  /\ smooth' = [smooth EXCEPT ![b] = TRUE]
  /\ UNCHANGED <<cookie, lossless>>

SendRefresh(b, r) ==
  /\ ~Busy(b)
  /\ cookie[b] # NULL
  /\ RefreshFindByHash(r, cookie[b])
  /\ caller' = [caller EXCEPT ![r] = b]
  /\ UNCHANGED <<cookie, trail, smooth, lossless>>

(* The row is not there, or could not be read: 401 at once.                *)
RefreshNotFound(b) ==
  /\ ~Busy(b)
  /\ cookie[b] # NULL
  /\ cookie[b] \in DOMAIN table => ReadMayFail
  /\ cookie' = [cookie EXCEPT ![b] = NULL]
  /\ smooth' = [smooth EXCEPT ![b] = @ /\ cookie[b] \notin DOMAIN table]
  /\ UNCHANGED <<vars, caller, trail, lossless>>

SendLogout(b, r, o) ==
  /\ ~Busy(b)
  /\ cookie[b] # NULL
  /\ LogoutFindByHash(r, cookie[b], o)
  /\ caller' = [caller EXCEPT ![r] = b]
  /\ smooth' = [smooth EXCEPT ![b] = @ /\ Succeeded(o)]
  /\ UNCHANGED <<cookie, trail, lossless>>

-----------------------------------------------------------------------------
(* What the handlers answer.                                               *)

(* Seeded fault: a logout leaves the cookie to the page.                   *)
LogoutKeepsCookie(q, c) ==
  CASE q.pc = "reply" -> q.new
    [] q.pc = "bye" -> c
    [] OTHER -> IF q.tok = NULL THEN c ELSE NULL

(* Seeded fault: a refresh sets no cookie, only a login does.              *)
LoginSetsCookie(q, c) ==
  CASE q.pc = "reply" -> IF q.tok = NULL THEN q.new ELSE c
    [] q.pc = "bye" -> NULL
    [] OTHER -> IF q.tok = NULL THEN c ELSE NULL

(* Seeded fault: the cookie is cleared with Max-Age 0, which leaves an     *)
(* empty one.                                                              *)
BlankCookie(q, c) ==
  CASE q.pc = "reply" -> q.new
    [] q.pc = "bye" -> ""
    [] OTHER -> IF q.tok = NULL THEN c ELSE NULL

(* The cookie after the answer to a request that ends: the new token; none *)
(* after a logout, whatever came of it, and after any refresh that failed; *)
(* a login that failed does not touch it.                                  *)
CookieAfter(q, c) ==
  CASE q.pc = "reply" -> q.new
    [] q.pc = "bye" -> NULL
    [] OTHER -> IF q.tok = NULL THEN c ELSE NULL

(* The handler in slot r goes on; when it ends, it answers whoever is      *)
(* still waiting.  (Reply may lose the answer; here that is GoAway.)       *)
Handle(r, o) ==
  LET q == req[r]
      b == caller[r]
      ends == req'[r].pc = "idle"
  IN /\ ServeWith(r, o)
     /\ q.pc = "reply" => issued'[q.new].delivered = (b # NULL)
     /\ caller' = IF ends THEN [caller EXCEPT ![r] = NULL] ELSE caller
     /\ IF b = NULL
          THEN UNCHANGED <<cookie, trail, smooth>>
          ELSE /\ cookie' = IF ends THEN [cookie EXCEPT ![b] = CookieAfter(q, @)] ELSE cookie
               /\ trail' = [trail EXCEPT ![b] = @ \cup (DOMAIN issued' \ DOMAIN issued)]
               /\ smooth' = [smooth EXCEPT ![b] = @ /\ Succeeded(o)]
     /\ UNCHANGED lossless

-----------------------------------------------------------------------------
(* What happens to browsers.                                               *)

(* The browser does not wait for the answer any longer.                    *)
GoAway(r) ==
  /\ caller[r] # NULL
  /\ caller' = [caller EXCEPT ![r] = NULL]
  /\ smooth' = [smooth EXCEPT ![caller[r]] = FALSE]
  /\ lossless' = FALSE
  /\ UNCHANGED <<vars, cookie, trail>>

(* Max-Age has passed: the cookie goes when its row is dead, to the second *)
(* (Max-Age is what is left of the row's life in whole seconds).           *)
CookieExpires(b) ==
  /\ cookie[b] # NULL
  /\ issued[cookie[b]].at + RefreshTTL <= clock
  /\ ~Busy(b)
  /\ cookie' = [cookie EXCEPT ![b] = NULL]
  /\ UNCHANGED <<vars, caller, trail, smooth, lossless>>

(* The server stops in the middle of all it does: no answer arrives.       *)
ServerCrash ==
  /\ Crash
  /\ caller' = [r \in Requests |-> NULL]
  /\ smooth' = [b \in Browsers |-> smooth[b] /\ ~Busy(b)]
  /\ lossless' = (lossless /\ \A b \in Browsers : ~Busy(b))
  /\ UNCHANGED <<cookie, trail>>

(* The janitor and time.  No account is disabled here: AuthService has     *)
(* that, and a browser has nothing to do with it.                          *)
Elsewhere ==
  /\ \/ \E o \in DBOutcomes, before \in 0..clock : CleanupExpiredRefreshTokens(o, before)
     \/ Tick
  /\ UNCHANGED browserVars

SessionNext ==
  \/ \E b \in Browsers, r \in Requests :
       \/ \E u \in Users : SendLogin(b, r, u)
       \/ SendRefresh(b, r)
       \/ \E o \in DBOutcomes : SendLogout(b, r, o)
  \/ \E b \in Browsers : RefreshNotFound(b) \/ CookieExpires(b)
  \/ \E r \in Requests : (\E o \in DBOutcomes : Handle(r, o)) \/ GoAway(r)
  \/ Elsewhere
  \/ ServerCrash

SessionSpec == SessionInit /\ [][SessionNext]_sessionVars

-----------------------------------------------------------------------------
(* Properties.                                                             *)

(* The types of the browsers' state.                                       *)
SessionTypeOK ==
  /\ cookie \in [Browsers -> Tokens \cup {NULL}]
  /\ caller \in [Requests -> Browsers \cup {NULL}]
  /\ trail \in [Browsers -> SUBSET Tokens]
  /\ smooth \in [Browsers -> BOOLEAN]
  /\ lossless \in BOOLEAN

(* As long as every answer has arrived, a browser at rest never holds a    *)
(* token the server would take for a replay: not after statements that     *)
(* failed half-way through a rotation, not after another browser of the    *)
(* same account has logged out ("single-point revocation").                *)
CookieStaysGood ==
  lossless =>
    \A b \in Browsers :
      ~Busy(b) /\ cookie[b] \in DOMAIN table => ~IsRevoked(table[cookie[b]])

(* The cookie of a browser at rest is the one token of its session that is *)
(* still good, and after a logout none is: nothing of what was rotated     *)
(* away lives on, as long as the statements for that very session worked   *)
(* and its answers arrived, whatever became of everybody else's.           *)
OneLiveToken ==
  \A b \in Browsers :
    smooth[b] /\ ~Busy(b) =>
      \A t \in trail[b] \cap DOMAIN table : IsActive(table[t], clock) => t = cookie[b]

(* A browser loses its session by logging out, by letting it expire, or    *)
(* because a statement of its own failed: nobody else's request ends it.   *)
StaysLoggedIn ==
  [][\A b \in Browsers :
       lossless /\ cookie[b] # NULL /\ cookie'[b] = NULL =>
         \/ \E r \in Requests : caller[r] = b /\ req[r].pc = "bye"
         \/ issued[cookie[b]].at + RefreshTTL <= clock
         \/ ~smooth'[b]]_sessionVars
=============================================================================
