------------------------- MODULE AdminSessionProofs -------------------------
(***************************************************************************)
(* Proofs about AdminSession, for any number of browsers, requests and     *)
(* accounts, any lifetimes, statement outcomes and crashes.                *)
(*                                                                         *)
(* A browser's one cookie is what its request presented (Presents), and    *)
(* that decides everything: what a rotation or a logout revokes is the     *)
(* cookie of the browser that waits for it, and no one else's.  SInv holds *)
(* whatever happens; Lossless is what can be said besides while no answer  *)
(* has been lost.  Both rest on IInv, which AdminSession inherits because  *)
(* each of its steps is one of AuthService.                                *)
(***************************************************************************)
EXTENDS AdminSession, AuthServiceProofs

(* A browser waits for one request, and only for one that is under way.    *)
Waiting ==
  /\ \A r \in Requests : req[r].pc = "idle" => caller[r] = NULL
  /\ \A r, s \in Requests : caller[r] # NULL /\ caller[r] = caller[s] => r = s

(* The cookie does not change under the request that presented it; a login *)
(* presents none.                                                          *)
Presents ==
  /\ \A b \in Browsers : cookie[b] # NULL => cookie[b] \in DOMAIN issued
  /\ \A r \in Requests :
       caller[r] # NULL /\ req[r].tok # NULL => req[r].tok = cookie[caller[r]]

Dead(t) == t \in DOMAIN table => IsRevoked(table[t])

(* The row a refresh has read is that of the token it presented, and if it *)
(* was revoked it still is.                                                *)
ReadsRow(q) ==
  /\ q.pc # "disabled"
  /\ q.pc = "check" => /\ q.row.expires = issued[q.tok].at + RefreshTTL
                       /\ IsRevoked(q.row) => Dead(q.tok)
  /\ q.pc = "replay" => Dead(q.tok)

(* Which tokens of its browser's session may be good while a request is at *)
(* a given step.                                                           *)
Keeps(q) ==
  CASE q.pc = "rotate" -> {q.tok, q.new}
    [] q.pc = "reply"  -> {q.new}
    [] q.pc = "bye"    -> {}
    [] OTHER           -> {q.tok}

Sessions ==
  \A b \in Browsers :
    /\ trail[b] \subseteq DOMAIN issued
    /\ smooth[b] =>
         \A t \in trail[b] \cap DOMAIN table :
           IsActive(table[t], clock) =>
             /\ \A r \in Requests : caller[r] = b => t \in Keeps(req[r])
             /\ ~Busy(b) => t = cookie[b]

SInv ==
  /\ SessionTypeOK
  /\ \A u \in Users : users[u].active
  /\ Waiting
  /\ Presents
  /\ \A r \in Requests : ReadsRow(req[r])
  /\ Sessions

HasNew(q) == q.pc \in {"rotate", "reply"}

(* No replay is under way, and none can come of a row that was read.       *)
NoReplay(q) == q.pc # "replay" /\ (q.pc = "check" => ~IsRevoked(q.row))

(* A new token is good, and is nobody else's.                              *)
NewIsGood ==
  \A r \in Requests : HasNew(req[r]) =>
    /\ req[r].new \in DOMAIN table => ~IsRevoked(table[req[r].new])
    /\ \A b \in Browsers : cookie[b] # req[r].new
    /\ \A s \in Requests : s # r /\ HasNew(req[s]) => req[s].new # req[r].new

(* A cookie that is revoked is about to be replaced or cleared.            *)
CookieIsGood ==
  \A b \in Browsers :
    cookie[b] \in DOMAIN table /\ IsRevoked(table[cookie[b]]) =>
      \E r \in Requests : caller[r] = b /\ req[r].pc \in {"reply", "bye"}

Lossless ==
  lossless =>
    /\ \A r \in Requests : req[r].pc # "idle" => caller[r] # NULL
    /\ \A r \in Requests : NoReplay(req[r])
    /\ \A a, b \in Browsers : cookie[a] # NULL /\ cookie[a] = cookie[b] => a = b
    /\ NewIsGood
    /\ CookieIsGood

-----------------------------------------------------------------------------
(* Every step is a step of AuthService.                                    *)

(* What a browser adds changes nothing of the server.                      *)
LEMMA StepsOfAuth ==
  ASSUME IInv, [SessionNext]_sessionVars
  PROVE  [Next]_vars
<1>1. ASSUME NEW b \in Browsers, NEW r \in Requests, NEW u \in Users, SendLogin(b, r, u)
      PROVE  Next
  BY <1>1 DEF SendLogin, Next, Accept
<1>2. DOMAIN issued \subseteq Tokens
  BY DEF IInv, TypeOK, IsHistory
<1>3. ASSUME NEW b \in Browsers, NEW r \in Requests, SendRefresh(b, r)
      PROVE  Next
  <2>1. RefreshFindByHash(r, cookie[b]) /\ cookie[b] \in Tokens
    BY <1>2, <1>3 DEF SendRefresh, RefreshFindByHash, Held
  <2> QED
    BY <2>1 DEF Next, Accept
<1>4. ASSUME NEW b \in Browsers, NEW r \in Requests, NEW o \in DBOutcomes, SendLogout(b, r, o)
      PROVE  Next
  <2>1. LogoutFindByHash(r, cookie[b], o) /\ cookie[b] \in Tokens
    BY <1>2, <1>4 DEF SendLogout, LogoutFindByHash, Held
  <2> QED
    BY <2>1 DEF Next, Accept
<1>5. ASSUME NEW r \in Requests, NEW o \in DBOutcomes, Handle(r, o)
      PROVE  Next
  <2>1. Serve(r)
    BY <1>5 DEF Handle, Serve
  <2> QED
    BY <2>1 DEF Next, Accept
<1>6. ASSUME NEW r \in Requests, GoAway(r) PROVE UNCHANGED vars
  BY <1>6 DEF GoAway
<1>7. ASSUME NEW b \in Browsers, RefreshNotFound(b) \/ CookieExpires(b) PROVE UNCHANGED vars
  BY <1>7 DEF RefreshNotFound, CookieExpires
<1>8. CASE Elsewhere
  BY <1>8 DEF Elsewhere, Next, Accept
<1>9. CASE ServerCrash
  BY <1>9 DEF ServerCrash, Next, Accept
<1>10. CASE UNCHANGED sessionVars
  BY <1>10 DEF sessionVars
<1> QED
  BY <1>1, <1>3, <1>4, <1>5, <1>6, <1>7, <1>8, <1>9, <1>10 DEF SessionNext

LEMMA SessionIInv == SessionSpec => []IInv
<1>1. SessionInit => IInv
  BY InitInv DEF SessionInit
<1>2. IInv /\ [SessionNext]_sessionVars => IInv'
  BY StepsOfAuth, NextInv
<1> QED
  BY <1>1, <1>2, PTL DEF SessionSpec

(* Browsers with cookies are one of the ways the service may be used: what *)
(* is proved of AuthService holds of the sessions.                         *)
THEOREM SessionsUseAuth == SessionSpec => Spec
<1>1. SessionInit => Init
  BY DEF SessionInit
<1>2. IInv /\ [SessionNext]_sessionVars => [Next]_vars
  BY StepsOfAuth
<1> QED
  BY <1>1, <1>2, SessionIInv, PTL DEF SessionSpec, Spec

-----------------------------------------------------------------------------
(* What no step can undo.                                                  *)

(* A token that is dead stays so, one that is not good does not become so, *)
(* and its row never moves in time.                                        *)
Fades ==
  /\ DOMAIN issued \subseteq DOMAIN issued'
  /\ \A t \in DOMAIN issued :
       /\ issued'[t].at = issued[t].at
       /\ Dead(t) => Dead(t)'
       /\ t \in DOMAIN table' =>
            /\ t \in DOMAIN table
            /\ table'[t].expires = table[t].expires
            /\ IsActive(table'[t], clock') => IsActive(table[t], clock)

(* The statements on the table, one by one.                                *)
LEMMA TableFades ==
  ASSUME IInv, clock' = clock,
         DOMAIN issued \subseteq DOMAIN issued',
         \A t \in DOMAIN issued : issued'[t].at = issued[t].at,
         \A t \in DOMAIN issued \cap DOMAIN table' :
           /\ t \in DOMAIN table
           /\ table'[t].expires = table[t].expires
           /\ table[t].revoked => table'[t].revoked
  PROVE  Fades
  BY DEF Fades, Dead, IsActive, IsRevoked, IsExpired

LEMMA RevokeFades ==
  ASSUME IInv, NEW t, NEW s, table' \in {table, Revoke(table, t, s)}, UNCHANGED <<issued, clock>>
  PROVE  Fades
<1>1. \A x \in DOMAIN table : table[x] \in Row
  BY DEF IInv, TypeOK, IsTable
<1>2. CASE table' = table
  BY <1>2, TableFades DEF IInv
<1>3. CASE table' = Revoke(table, t, s)
  BY <1>1, <1>3, TableFades DEF Revoke, Row, IsRevoked
<1> QED
  BY <1>2, <1>3

(* An insert touches no row that was issued before.                        *)
LEMMA IssueFades ==
  ASSUME IInv, NEW r \in Requests, NEW o \in DBOutcomes, IssueTokens(r, o)
  PROVE  Fades
<1>1. PICK t \in Unissued :
        IF Applied(o)
          THEN /\ table' = Create(table, t, NewRow(req[r].user, IssuedAt(req[r]) + RefreshTTL))
               /\ issued' = Grow(t, req[r])
          ELSE UNCHANGED <<table, issued>>
  BY DEF IssueTokens
<1>2. clock' = clock /\ t \notin DOMAIN issued
  BY DEF IssueTokens, Unissued
<1>3. CASE ~Applied(o)
  BY <1>1, <1>2, <1>3, TableFades DEF IInv
<1>4. CASE Applied(o)
  <2>1. /\ DOMAIN issued' = DOMAIN issued \cup {t}
        /\ \A x \in DOMAIN issued : issued'[x] = issued[x]
    BY <1>1, <1>2, <1>4 DEF Grow
  <2>2. /\ DOMAIN table' = DOMAIN table \cup {t}
        /\ \A x \in DOMAIN table : x # t => table'[x] = table[x]
    BY <1>1, <1>4 DEF Create
  <2> QED
    BY <1>2, <2>1, <2>2, TableFades
<1> QED
  BY <1>3, <1>4

(* No step of a handler brings a token back.                               *)
LEMMA HandlerFades ==
  ASSUME IInv, NEW r \in Requests, NEW o \in DBOutcomes, ServeWith(r, o)
  PROVE  Fades
<1>1. CASE LoginVerify(r) \/ RefreshCheck(r) \/ LoginStamp(r, o) \/ RefreshFindByID(r, o)
  BY <1>1, RevokeFades DEF LoginVerify, RefreshCheck, LoginStamp, RefreshFindByID
<1>2. CASE Reply(r)
  <2>1. /\ UNCHANGED <<table, clock>>
        /\ DOMAIN issued' = DOMAIN issued
        /\ \A t \in DOMAIN issued : issued'[t].at = issued[t].at
    BY <1>2 DEF Reply, IInv, TypeOK, IsHistory, Grant
  <2> QED
    BY <2>1, TableFades
<1>3. CASE IssueTokens(r, o)
  BY <1>3, IssueFades
<1>4. CASE RefreshRevokeAll(r, o)
  <2>1. \A t \in DOMAIN table : table[t] \in Row
    BY DEF IInv, TypeOK, IsTable
  <2>2. UNCHANGED <<issued, clock>>
    BY <1>4 DEF RefreshRevokeAll
  <2>3. CASE table' = table
    BY <2>2, <2>3, RevokeFades
  <2>4. CASE table' = RevokeAllForUser(table, req[r].user)
    BY <2>1, <2>2, <2>4, TableFades DEF RevokeAllForUser, Row, IsRevoked
  <2> QED
    BY <1>4, <2>3, <2>4 DEF RefreshRevokeAll
<1>5. CASE RefreshRotate(r, o)
  BY <1>5, RevokeFades DEF RefreshRotate, Successor
<1>6. CASE LogoutRevoke(r, o)
  BY <1>6, RevokeFades DEF LogoutRevoke
<1> QED
  BY <1>1, <1>2, <1>3, <1>4, <1>5, <1>6 DEF ServeWith

(* Nor does the janitor, or time.                                          *)
LEMMA ElsewhereFades ==
  ASSUME IInv, Elsewhere
  PROVE  Fades
<1>1. ASSUME NEW o \in DBOutcomes, NEW before \in 0..clock,
             CleanupExpiredRefreshTokens(o, before)
      PROVE  Fades
  <2>1. UNCHANGED <<issued, clock>>
    BY <1>1 DEF CleanupExpiredRefreshTokens
  <2>2. \A t \in DOMAIN table' : t \in DOMAIN table /\ table'[t] = table[t]
    BY <1>1 DEF CleanupExpiredRefreshTokens, DeleteExpired
  <2> QED
    BY <2>1, <2>2, TableFades
<1>2. CASE Tick
  <2>1. UNCHANGED <<table, issued>> /\ clock' = clock + 1 /\ clock \in Nat
    BY <1>2 DEF Tick, IInv, TypeOK
  <2>2. \A t \in DOMAIN table : table[t].expires \in Nat
    BY DEF IInv, TypeOK, IsTable, Row
  <2>3. DOMAIN table \subseteq DOMAIN issued
    BY DEF IInv, TableInv, RowsIssued
  <2> QED
    BY <2>1, <2>2, <2>3 DEF Fades, Dead, IsActive, IsRevoked, IsExpired
<1> QED
  BY <1>1, <1>2 DEF Elsewhere

-----------------------------------------------------------------------------
(* The steps of a handler.  Local is what such a step does to its own      *)
(* request, and what it leaves of everything else.                         *)

Local(r, o) ==
  LET q == req[r]
      p == req'[r]
  IN /\ q.pc # "idle"
     /\ \A s \in Requests : s # r => req'[s] = req[s]
     /\ UNCHANGED clock
     /\ \A u \in Users : users'[u].active
     /\ p.pc # "idle" => p.tok = q.tok
     /\ ReadsRow(req[r])'
     /\ Succeeded(o) =>
          \A t \in DOMAIN table' :
            IsActive(table'[t], clock) /\ (t \in DOMAIN issued => t \in Keeps(q)) =>
              t \in IF p.pc = "idle" THEN {CookieAfter(q, q.tok)} ELSE Keeps(p)
     /\ lossless =>
          /\ NoReplay(p)
          /\ HasNew(p) =>
               /\ p.new \in DOMAIN table' => ~IsRevoked(table'[p.new])
               /\ p.new \notin DOMAIN issued \/ (HasNew(q) /\ p.new = q.new)
          /\ \A t \in DOMAIN issued \cap DOMAIN table' :
               IsRevoked(table'[t]) =>
                 \/ IsRevoked(table[t])
                 \/ t = q.tok /\ p.pc \in {"reply", "bye"}

(* What is known of a request and of the table before any of its steps.    *)
LEMMA RequestFacts ==
  ASSUME IInv, SInv, Lossless, NEW r \in Requests
  PROVE  /\ req \in [Requests -> Request]
         /\ Knows(req[r]) /\ ReadsRow(req[r])
         /\ NULL \notin DOMAIN table /\ NULL \notin DOMAIN issued
         /\ DOMAIN table \subseteq DOMAIN issued
         /\ \A t \in DOMAIN table :
              table[t] \in Row /\ table[t].expires = issued[t].at + RefreshTTL
         /\ \A u \in Users : users[u].active
         /\ lossless =>
              /\ NoReplay(req[r])
              /\ HasNew(req[r]) /\ req[r].new \in DOMAIN table =>
                   ~IsRevoked(table[req[r].new])
  BY NullAssumption
  DEF IInv, TypeOK, IsTable, IsHistory, RequestsKnow, TableInv, RowsIssued, SInv, Lossless,
      NewIsGood

(* A step that changes nothing but the request itself.                     *)
LEMMA QuietLocal ==
  ASSUME IInv, SInv, Lossless, NEW r \in Requests, NEW o \in DBOutcomes, NEW p \in Request,
         req' = [req EXCEPT ![r] = p],
         UNCHANGED <<table, issued, clock>>,
         \A u \in Users : users'[u].active = users[u].active,
         req[r].pc # "idle",
         p.pc # "idle" => p.tok = req[r].tok,
         ReadsRow(p), NoReplay(req[r]) => NoReplay(p), ~HasNew(p),
         Succeeded(o) =>
           \A t \in DOMAIN table :
             IsActive(table[t], clock) /\ t \in Keeps(req[r]) =>
               t \in IF p.pc = "idle" THEN {CookieAfter(req[r], req[r].tok)} ELSE Keeps(p)
  PROVE  Local(r, o)
<1>1. req' = [s \in Requests |-> IF s = r THEN p ELSE req[s]]
  BY RequestFacts
<1>2. ReadsRow(req[r])'
  BY <1>1 DEF ReadsRow, Dead
<1> QED
  BY <1>1, <1>2, RequestFacts DEF Local

(* Login: nothing of a session is good yet.                                *)
LEMMA LoginVerifyLocal ==
  ASSUME IInv, SInv, Lossless, NEW r \in Requests, NEW o \in DBOutcomes, LoginVerify(r)
  PROVE  Local(r, o)
<1>1. /\ req[r] \in Request /\ req[r].pc = "verify" /\ req[r].tok = NULL
      /\ NULL \notin DOMAIN table /\ clock \in Nat
      /\ UNCHANGED <<table, issued, clock, users>>
  BY RequestFacts DEF LoginVerify, Knows, IInv, TypeOK
<1>2. PICK p \in {Idle, [req[r] EXCEPT !.pc = "stamp", !.now = clock]} :
        req' = [req EXCEPT ![r] = p]
  BY DEF LoginVerify
<1>3. p \in Request /\ p.pc \in {"idle", "stamp"} /\ (p.pc # "idle" => p.tok = NULL)
  BY <1>1, <1>2, IdleKnows DEF Request, PCs
<1> QED
  BY <1>1, <1>2, <1>3, QuietLocal DEF ReadsRow, NoReplay, HasNew, Keeps

LEMMA LoginStampLocal ==
  ASSUME IInv, SInv, Lossless, NEW r \in Requests, NEW o \in DBOutcomes, LoginStamp(r, o)
  PROVE  Local(r, o)
<1>1. /\ req[r] \in Request /\ req[r].pc = "stamp" /\ req[r].tok = NULL
      /\ req[r].user \in Users /\ users \in [Users -> Account]
      /\ NULL \notin DOMAIN table
      /\ UNCHANGED <<table, issued, clock>>
  BY RequestFacts DEF LoginStamp, Knows, IInv, TypeOK
<1>2. \A u \in Users : users'[u].active = users[u].active
  BY <1>1 DEF LoginStamp, Account
<1>3. PICK p \in {Idle, [req[r] EXCEPT !.pc = "issue"]} : req' = [req EXCEPT ![r] = p]
  BY DEF LoginStamp
<1>4. p \in Request /\ p.pc \in {"idle", "issue"} /\ (p.pc # "idle" => p.tok = NULL)
  BY <1>1, <1>3, IdleKnows DEF Request, PCs
<1> QED
  BY <1>1, <1>2, <1>3, <1>4, QuietLocal DEF ReadsRow, NoReplay, HasNew, Keeps

(* Refresh: an expired token is not good, a revoked one leads to a replay. *)
LEMMA RefreshCheckLocal ==
  ASSUME IInv, SInv, Lossless, NEW r \in Requests, NEW o \in DBOutcomes, RefreshCheck(r)
  PROVE  Local(r, o)
<1>1. /\ req[r] \in Request /\ req[r].pc = "check" /\ clock \in Nat
      /\ Knows(req[r]) /\ ReadsRow(req[r]) /\ req[r].row \in Row
      /\ UNCHANGED <<table, issued, clock, users>>
  BY RequestFacts DEF RefreshCheck, Knows, IInv, TypeOK
<1>2. CASE IsRevoked(req[r].row)
  <2> DEFINE p == [req[r] EXCEPT !.pc = "replay", !.now = clock, !.row = NULL]
  <2>1. req' = [req EXCEPT ![r] = p]
    BY <1>1, <1>2, RequestFacts DEF RefreshCheck, IsActive
  <2>2. p \in Request /\ p.pc = "replay" /\ p.tok = req[r].tok
    BY <1>1 DEF Request, PCs
  <2> HIDE DEF p
  <2> QED
    BY <1>1, <1>2, <2>1, <2>2, QuietLocal DEF ReadsRow, NoReplay, HasNew, Keeps
<1>3. CASE ~IsRevoked(req[r].row) /\ IsExpired(req[r].row, clock)
  <2>1. req' = [req EXCEPT ![r] = Idle]
    BY <1>3 DEF RefreshCheck, IsActive
  <2>2. \A t \in DOMAIN table : t \in Keeps(req[r]) => ~IsActive(table[t], clock)
    BY <1>1, <1>3, RequestFacts DEF Keeps, ReadsRow, IsActive, IsExpired
  <2> QED
    BY <1>1, <2>1, <2>2, IdleKnows, QuietLocal DEF ReadsRow, NoReplay, HasNew
<1>4. CASE IsActive(req[r].row, clock)
  <2> DEFINE p == [req[r] EXCEPT !.pc = "owner", !.now = clock, !.row = NULL]
  <2>1. req' = [req EXCEPT ![r] = p]
    BY <1>1, <1>4, RequestFacts DEF RefreshCheck, IsActive
  <2>2. p \in Request /\ p.pc = "owner" /\ p.tok = req[r].tok
    BY <1>1 DEF Request, PCs
  <2> HIDE DEF p
  <2> QED
    BY <1>1, <2>1, <2>2, QuietLocal DEF ReadsRow, NoReplay, HasNew, Keeps
<1> QED
  BY <1>2, <1>3, <1>4 DEF IsActive

(* Refresh: the account is never found disabled.                           *)
LEMMA RefreshFindByIDLocal ==
  ASSUME IInv, SInv, Lossless, NEW r \in Requests, NEW o \in DBOutcomes, RefreshFindByID(r, o)
  PROVE  Local(r, o)
<1>1. /\ req[r] \in Request /\ req[r].pc = "owner" /\ req[r].user \in Users
      /\ users[req[r].user].active
      /\ UNCHANGED <<table, issued, clock, users>>
  BY RequestFacts DEF RefreshFindByID, Knows
<1>2. CASE Succeeded(o)
  <2> DEFINE p == [req[r] EXCEPT !.pc = "issue"]
  <2>1. req' = [req EXCEPT ![r] = p]
    BY <1>1, <1>2, RequestFacts DEF RefreshFindByID
  <2>2. p \in Request /\ p.pc = "issue" /\ p.tok = req[r].tok
    BY <1>1 DEF Request, PCs
  <2> HIDE DEF p
  <2> QED
    BY <1>1, <2>1, <2>2, QuietLocal DEF ReadsRow, NoReplay, HasNew, Keeps
<1>3. CASE ~Succeeded(o)
  BY <1>1, <1>3, IdleKnows, QuietLocal DEF RefreshFindByID, ReadsRow, NoReplay, HasNew
<1> QED
  BY <1>2, <1>3

(* The answer: the new token is what the cookie becomes.                   *)
LEMMA ReplyLocal ==
  ASSUME IInv, SInv, Lossless, NEW r \in Requests, NEW o \in DBOutcomes, Reply(r)
  PROVE  Local(r, o)
<1>1. /\ req[r].pc \in {"reply", "bye"}
      /\ req' = [s \in Requests |-> IF s = r THEN Idle ELSE req[s]]
      /\ UNCHANGED <<table, clock, users>>
  BY RequestFacts DEF Reply
<1>2. req'[r] = Idle /\ Idle.pc = "idle"
  BY <1>1 DEF Idle
<1>3. ReadsRow(req[r])'
  BY <1>2 DEF ReadsRow
<1>4. \A t \in DOMAIN table : t \in DOMAIN issued
  BY RequestFacts
<1>5. \A t : t \in Keeps(req[r]) => t \in {CookieAfter(req[r], req[r].tok)}
  BY <1>1 DEF Keeps, CookieAfter
<1>6. /\ \A s \in Requests : s # r => req'[s] = req[s]
      /\ \A u \in Users : users'[u].active
      /\ req[r].pc # "idle"
  BY <1>1, RequestFacts
<1>7. NoReplay(req'[r]) /\ ~HasNew(req'[r])
  BY <1>2 DEF NoReplay, HasNew
<1> QED
  BY <1>1, <1>2, <1>3, <1>4, <1>5, <1>6, <1>7 DEF Local

(* A replay revokes all, the token presented among them.                   *)
LEMMA RefreshRevokeAllLocal ==
  ASSUME IInv, SInv, Lossless, NEW r \in Requests, NEW o \in DBOutcomes, RefreshRevokeAll(r, o)
  PROVE  Local(r, o)
<1>1. /\ req[r].pc = "replay" /\ ~lossless /\ Dead(req[r].tok)
      /\ req' = [s \in Requests |-> IF s = r THEN Idle ELSE req[s]]
      /\ UNCHANGED <<issued, clock, users>>
  BY RequestFacts DEF RefreshRevokeAll, ReadsRow, NoReplay
<1>2. req'[r] = Idle /\ Idle.pc = "idle"
  BY <1>1 DEF Idle
<1>3. ReadsRow(req[r])'
  BY <1>2 DEF ReadsRow
<1>4. DOMAIN table' = DOMAIN table /\ \A t \in DOMAIN table : table[t].revoked => table'[t].revoked
  <2>1. CASE table' = table
    BY <2>1
  <2>2. CASE table' = RevokeAllForUser(table, req[r].user)
    <3>1. IsTable(table)
      BY DEF IInv, TypeOK
    <3> QED
      BY <2>2, <3>1, RevokeAllTable
  <2> QED
    BY <2>1, <2>2 DEF RefreshRevokeAll
<1>5. \A t \in DOMAIN table' : t \in DOMAIN issued /\ (t \in Keeps(req[r]) => ~IsActive(table'[t], clock))
  BY <1>1, <1>4, RequestFacts DEF Keeps, Dead, IsActive, IsRevoked
<1>6. /\ \A s \in Requests : s # r => req'[s] = req[s]
      /\ \A u \in Users : users'[u].active
  BY <1>1, RequestFacts
<1> QED
  BY <1>1, <1>2, <1>3, <1>5, <1>6 DEF Local

(* A statement that revokes the token presented, and nothing else.         *)
LEMMA RevokeOwn ==
  ASSUME IInv, SInv, Lossless, NEW r \in Requests, NEW o \in DBOutcomes,
         NEW s \in Tokens \cup {NULL},
         table' = IF Applied(o) THEN Revoke(table, req[r].tok, s) ELSE table
  PROVE  /\ DOMAIN table' = DOMAIN table
         /\ \A t \in DOMAIN table :
              t # req[r].tok => table'[t].revoked = table[t].revoked
         /\ Succeeded(o) => \A t \in DOMAIN table' :
                              IsActive(table'[t], clock) => t # req[r].tok
<1>1. IsTable(table)
  BY DEF IInv, TypeOK
<1>2. CASE Applied(o)
  BY <1>1, <1>2, RevokeTable DEF IsActive, IsRevoked
<1>3. CASE ~Applied(o)
  BY <1>3 DEF Applied, Succeeded
<1> QED
  BY <1>2, <1>3

(* Refresh: the old token goes, the new one stays.                         *)
LEMMA RefreshRotateLocal ==
  ASSUME IInv, SInv, Lossless, NEW r \in Requests, NEW o \in DBOutcomes, RefreshRotate(r, o)
  PROVE  Local(r, o)
<1> DEFINE p == [req[r] EXCEPT !.pc = "reply"]
<1>1. /\ req[r] \in Request /\ req[r].pc = "rotate"
      /\ req' = [req EXCEPT ![r] = p]
      /\ UNCHANGED <<issued, clock, users>>
      /\ Knows(req[r])
  BY RequestFacts DEF RefreshRotate, AfterRotate
<1>2. req' = [s \in Requests |-> IF s = r THEN p ELSE req[s]]
  BY <1>1, RequestFacts
<1>3. p.pc = "reply" /\ p.tok = req[r].tok /\ p.new = req[r].new
  BY <1>1 DEF Request
<1>4. /\ req[r].new \in DOMAIN issued /\ req[r].new \in Tokens
      /\ req[r].tok # NULL /\ req[r].new # req[r].tok
  BY <1>1 DEF Knows, IInv, TypeOK, IsHistory, TableInv, GrantsOrdered
<1>5. /\ DOMAIN table' = DOMAIN table
      /\ \A t \in DOMAIN table :
           t # req[r].tok => table'[t].revoked = table[t].revoked
      /\ Succeeded(o) => \A t \in DOMAIN table' :
                           IsActive(table'[t], clock) => t # req[r].tok
  BY <1>4, RevokeOwn DEF RefreshRotate, Successor
<1> HIDE DEF p
<1>6. req'[r] = p /\ ReadsRow(req[r])'
  BY <1>2, <1>3 DEF ReadsRow
<1>7. /\ \A t \in DOMAIN table' : t \in DOMAIN issued
      /\ \A t : t \in Keeps(req[r]) /\ t # req[r].tok => t \in Keeps(p)
  BY <1>1, <1>3, <1>5, RequestFacts DEF Keeps
<1>8. /\ \A s \in Requests : s # r => req'[s] = req[s]
      /\ \A u \in Users : users'[u].active
      /\ NoReplay(p) /\ HasNew(p) /\ HasNew(req[r])
  BY <1>1, <1>2, <1>3, RequestFacts DEF NoReplay, HasNew
<1>9. lossless =>
        /\ p.new \in DOMAIN table' => ~IsRevoked(table'[p.new])
        /\ \A t \in DOMAIN issued \cap DOMAIN table' :
             IsRevoked(table'[t]) => IsRevoked(table[t]) \/ t = req[r].tok
  BY <1>3, <1>4, <1>5, <1>8, RequestFacts DEF IsRevoked
<1> QED
  BY <1>1, <1>3, <1>5, <1>6, <1>7, <1>8, <1>9 DEF Local

(* Logout: nothing is left.                                                *)
LEMMA LogoutRevokeLocal ==
  ASSUME IInv, SInv, Lossless, NEW r \in Requests, NEW o \in DBOutcomes, LogoutRevoke(r, o)
  PROVE  Local(r, o)
<1> DEFINE p == [req[r] EXCEPT !.pc = "bye"]
<1>1. /\ req[r] \in Request /\ req[r].pc = "logout"
      /\ req' = [req EXCEPT ![r] = p]
      /\ UNCHANGED <<issued, clock, users>>
  BY RequestFacts DEF LogoutRevoke
<1>2. req' = [s \in Requests |-> IF s = r THEN p ELSE req[s]]
  BY <1>1, RequestFacts
<1>3. p.pc = "bye" /\ p.tok = req[r].tok
  BY <1>1 DEF Request
<1>4. /\ DOMAIN table' = DOMAIN table
      /\ \A t \in DOMAIN table :
           t # req[r].tok => table'[t].revoked = table[t].revoked
      /\ Succeeded(o) => \A t \in DOMAIN table' :
                           IsActive(table'[t], clock) => t # req[r].tok
  BY RevokeOwn DEF LogoutRevoke
<1> HIDE DEF p
<1>5. req'[r] = p /\ ReadsRow(req[r])'
  BY <1>2, <1>3 DEF ReadsRow
<1>6. /\ \A t \in DOMAIN table' : t \in DOMAIN issued
      /\ \A t : t \in Keeps(req[r]) => t = req[r].tok
  BY <1>1, <1>4, RequestFacts DEF Keeps
<1>7. /\ \A s \in Requests : s # r => req'[s] = req[s]
      /\ \A u \in Users : users'[u].active
      /\ NoReplay(p) /\ ~HasNew(p)
  BY <1>1, <1>2, <1>3, RequestFacts DEF NoReplay, HasNew
<1> QED
  BY <1>1, <1>3, <1>4, <1>5, <1>6, <1>7 DEF Local, IsRevoked

(* The insert: the new token is good, and nobody has it yet.               *)
LEMMA IssueTokensLocal ==
  ASSUME IInv, SInv, Lossless, NEW r \in Requests, NEW o \in DBOutcomes, IssueTokens(r, o)
  PROVE  Local(r, o)
<1>1. PICK t \in Unissued :
        /\ IF Applied(o)
             THEN /\ table' = Create(table, t, NewRow(req[r].user, IssuedAt(req[r]) + RefreshTTL))
                  /\ issued' = Grow(t, req[r])
             ELSE UNCHANGED <<table, issued>>
        /\ req' = IF Succeeded(o)
                    THEN [req EXCEPT ![r].new = t,
                                     ![r].pc = IF req[r].tok = NULL THEN "reply" ELSE "rotate"]
                    ELSE [req EXCEPT ![r] = Idle]
  BY DEF IssueTokens
<1>2. /\ req[r] \in Request /\ req[r].pc = "issue" /\ UNCHANGED <<clock, users>>
      /\ t \notin DOMAIN issued
  BY <1>1, RequestFacts DEF IssueTokens, Unissued
<1>3. /\ DOMAIN table' \subseteq DOMAIN table \cup {t}
      /\ \A x \in DOMAIN table : table'[x] = table[x]
      /\ t \in DOMAIN table' => ~IsRevoked(table'[t])
  <2>1. t \notin DOMAIN table
    BY <1>2, RequestFacts
  <2>2. CASE ~Applied(o)
    BY <1>1, <2>1, <2>2
  <2>3. CASE Applied(o)
    BY <1>1, <2>1, <2>3 DEF Create, NewRow, IsRevoked
  <2> QED
    BY <2>2, <2>3
<1>4. /\ \A s \in Requests : s # r => req'[s] = req[s]
      /\ \A u \in Users : users'[u].active
  BY <1>1, <1>2, RequestFacts
<1>5. CASE ~Succeeded(o)
  <2>1. req'[r] = Idle /\ Idle.pc = "idle"
    BY <1>1, <1>5, RequestFacts DEF Idle
  <2>2. ReadsRow(req[r])' /\ NoReplay(req'[r]) /\ ~HasNew(req'[r])
    BY <2>1 DEF ReadsRow, NoReplay, HasNew
  <2> QED
    BY <1>2, <1>3, <1>4, <1>5, <2>1, <2>2, RequestFacts DEF Local
<1>6. CASE Succeeded(o)
  <2> DEFINE p == [req[r] EXCEPT !.new = t, !.pc = IF req[r].tok = NULL THEN "reply" ELSE "rotate"]
  <2>1. req'[r] = p
    BY <1>1, <1>6, RequestFacts
  <2>2. p.pc \in {"reply", "rotate"} /\ p.tok = req[r].tok /\ p.new = t
        /\ (p.pc = "reply" => req[r].tok = NULL)
    BY <1>2 DEF Request
  <2> HIDE DEF p
  <2>3. ReadsRow(req[r])' /\ NoReplay(p)
    BY <2>1, <2>2 DEF ReadsRow, NoReplay
  <2>4. \A x \in DOMAIN table' : (x \in DOMAIN issued => x \in Keeps(req[r])) => x \in Keeps(p)
    BY <1>2, <1>3, <2>2, RequestFacts DEF Keeps
  <2> QED
    BY <1>2, <1>3, <1>4, <2>1, <2>2, <2>3, <2>4, RequestFacts DEF Local
<1> QED
  BY <1>5, <1>6

LEMMA AnyLocal ==
  ASSUME IInv, SInv, Lossless, NEW r \in Requests, NEW o \in DBOutcomes, ServeWith(r, o)
  PROVE  Local(r, o)
  BY LoginVerifyLocal, LoginStampLocal, IssueTokensLocal, RefreshCheckLocal,
     RefreshFindByIDLocal, RefreshRotateLocal, RefreshRevokeAllLocal, LogoutRevokeLocal,
     ReplyLocal DEF ServeWith

-----------------------------------------------------------------------------
(* What a step of a handler does to the browsers.                          *)

(* Nobody else is touched.                                                 *)
LEMMA HandleShape ==
  ASSUME SInv, NEW r \in Requests, NEW o \in DBOutcomes, Handle(r, o)
  PROVE  /\ lossless' = lossless
         /\ \A s \in Requests :
              caller'[s] = IF s = r /\ req'[r].pc = "idle" THEN NULL ELSE caller[s]
         /\ \A x \in Browsers :
              IF x = caller[r]
                THEN /\ cookie'[x] = IF req'[r].pc = "idle" THEN CookieAfter(req[r], cookie[x])
                                                            ELSE cookie[x]
                     /\ trail'[x] = trail[x] \cup (DOMAIN issued' \ DOMAIN issued)
                     /\ smooth'[x] = (smooth[x] /\ Succeeded(o))
                ELSE UNCHANGED <<cookie[x], trail[x], smooth[x]>>
<1>1. /\ cookie \in [Browsers -> Tokens \cup {NULL}]
      /\ caller \in [Requests -> Browsers \cup {NULL}]
      /\ trail \in [Browsers -> SUBSET Tokens]
      /\ smooth \in [Browsers -> BOOLEAN]
  BY DEF SInv, SessionTypeOK
<1>2. CASE caller[r] = NULL
  BY <1>1, <1>2, BrowserAssumption DEF Handle
<1>3. CASE caller[r] # NULL
  BY <1>1, <1>3 DEF Handle
<1> QED
  BY <1>2, <1>3

(* What a request has read stays true while others go on.                  *)
LEMMA ReadsRowStays ==
  ASSUME IInv, IInv', SInv, Fades, NEW s \in Requests, req'[s] = req[s]
  PROVE  ReadsRow(req[s])'
<1>1. Knows(req[s]) /\ ReadsRow(req[s])
  BY DEF IInv, RequestsKnow, SInv
<1>2. req[s].pc \in {"check", "replay"} /\ req[s].tok \in DOMAIN issued =>
        /\ issued'[req[s].tok].at = issued[req[s].tok].at
        /\ Dead(req[s].tok) => Dead(req[s].tok)'
  BY DEF Fades
<1>3. CASE req[s].pc = "check"
  <2>1. req[s].tok \in DOMAIN issued
    BY <1>1, <1>3 DEF Knows
  <2> QED
    BY <1>1, <1>2, <1>3, <2>1 DEF ReadsRow, Dead
<1>4. CASE req[s].pc = "replay"
  <2>1. Dead(req[s].tok)
    BY <1>1, <1>4 DEF ReadsRow
  <2>2. req[s].tok \in DOMAIN table' => req[s].tok \in DOMAIN issued
    BY <1>1, <1>4, <1>2, NullAssumption DEF Knows, IInv, TypeOK, IsTable
  <2> QED
    BY <1>1, <1>2, <1>4, <2>1, <2>2 DEF ReadsRow, Dead
<1>5. CASE req[s].pc \notin {"check", "replay"}
  BY <1>1, <1>5 DEF ReadsRow
<1> QED
  BY <1>3, <1>4, <1>5

LEMMA HandleTypes ==
  ASSUME IInv, IInv', SInv, Lossless, NEW r \in Requests, NEW o \in DBOutcomes, Handle(r, o)
  PROVE  SessionTypeOK'
<1>1. /\ cookie \in [Browsers -> Tokens \cup {NULL}]
      /\ caller \in [Requests -> Browsers \cup {NULL}]
      /\ trail \in [Browsers -> SUBSET Tokens]
      /\ smooth \in [Browsers -> BOOLEAN]
      /\ lossless \in BOOLEAN
  BY DEF SInv, SessionTypeOK
<1>2. DOMAIN issued' \subseteq Tokens /\ DOMAIN issued \subseteq Tokens
  BY DEF IInv, TypeOK, IsHistory
<1>3. \A c \in Tokens \cup {NULL} : CookieAfter(req[r], c) \in Tokens \cup {NULL}
  BY <1>2, RequestFacts DEF CookieAfter, Knows
<1>4. cookie' \in [Browsers -> Tokens \cup {NULL}]
  BY <1>1, <1>3 DEF Handle
<1>5. caller' \in [Requests -> Browsers \cup {NULL}]
  BY <1>1 DEF Handle
<1>6. trail' \in [Browsers -> SUBSET Tokens]
  BY <1>1, <1>2 DEF Handle
<1>7. smooth' \in [Browsers -> BOOLEAN] /\ lossless' \in BOOLEAN
  BY <1>1 DEF Handle, Succeeded
<1> QED
  BY <1>4, <1>5, <1>6, <1>7 DEF SessionTypeOK

LEMMA HandleSInv ==
  ASSUME IInv, IInv', SInv, Lossless, NEW r \in Requests, NEW o \in DBOutcomes, Handle(r, o)
  PROVE  SInv'
<1>1. Local(r, o)
  BY AnyLocal DEF Handle
<1>2. Fades
  BY HandlerFades DEF Handle
<1>3. /\ \A s \in Requests :
           caller'[s] = IF s = r /\ req'[r].pc = "idle" THEN NULL ELSE caller[s]
      /\ \A x \in Browsers :
           IF x = caller[r]
             THEN /\ cookie'[x] = IF req'[r].pc = "idle" THEN CookieAfter(req[r], cookie[x])
                                                         ELSE cookie[x]
                  /\ trail'[x] = trail[x] \cup (DOMAIN issued' \ DOMAIN issued)
                  /\ smooth'[x] = (smooth[x] /\ Succeeded(o))
             ELSE UNCHANGED <<cookie[x], trail[x], smooth[x]>>
  BY HandleShape
<1>4. \A s \in Requests : caller[s] \in Browsers \cup {NULL}
  BY DEF SInv, SessionTypeOK
<1>5. \A s \in Requests : s # r => req'[s] = req[s]
  BY <1>1 DEF Local
<1>6. Waiting'
  <2>1. \A s \in Requests : req'[s].pc = "idle" => caller'[s] = NULL
    BY <1>3, <1>5 DEF SInv, Waiting
  <2>2. \A s, x \in Requests : caller'[s] # NULL /\ caller'[s] = caller'[x] => s = x
    BY <1>3 DEF SInv, Waiting
  <2> QED
    BY <2>1, <2>2 DEF Waiting
<1>7. Presents'
  <2>1. \A b \in Browsers : cookie'[b] # NULL => cookie'[b] \in DOMAIN issued'
    <3>1. req[r].pc = "reply" => req[r].new \in DOMAIN issued
      BY RequestFacts DEF Knows
    <3>2. \A c : CookieAfter(req[r], c) \in {NULL, c} \/ CookieAfter(req[r], c) \in DOMAIN issued
      BY <3>1 DEF CookieAfter
    <3> QED
      BY <1>2, <1>3, <3>2 DEF SInv, Presents, Fades
  <2>2. \A s \in Requests :
          caller'[s] # NULL /\ req'[s].tok # NULL => req'[s].tok = cookie'[caller'[s]]
    <3> SUFFICES ASSUME NEW s \in Requests, caller'[s] # NULL, req'[s].tok # NULL
                 PROVE  req'[s].tok = cookie'[caller'[s]]
      OBVIOUS
    <3>1. /\ caller'[s] = caller[s] /\ caller[s] # NULL /\ caller[s] \in Browsers
          /\ req[s].tok # NULL => req[s].tok = cookie[caller[s]]
      BY <1>3, <1>4 DEF SInv, Presents
    <3>2. CASE s = r
      <4>1. req'[r].pc # "idle"
        BY <1>3, <3>2
      <4> QED
        BY <1>1, <1>3, <3>1, <3>2, <4>1 DEF Local
    <3>3. CASE s # r
      <4>1. caller[s] # caller[r]
        BY <3>1, <3>3, BrowserAssumption DEF SInv, Waiting
      <4> QED
        BY <1>3, <1>5, <3>1, <3>3, <4>1
    <3> QED
      BY <3>2, <3>3
  <2> QED
    BY <2>1, <2>2 DEF Presents
<1>8. \A s \in Requests : ReadsRow(req[s])'
  <2> SUFFICES ASSUME NEW s \in Requests PROVE ReadsRow(req[s])'
    OBVIOUS
  <2>1. CASE s = r
    BY <1>1, <2>1 DEF Local
  <2>2. CASE s # r
    BY <1>2, <1>5, <2>2, ReadsRowStays
  <2> QED
    BY <2>1, <2>2
<1>9. Sessions'
  <2> SUFFICES ASSUME NEW b \in Browsers
               PROVE  /\ trail'[b] \subseteq DOMAIN issued'
                      /\ smooth'[b] =>
                           \A t \in trail'[b] \cap DOMAIN table' :
                             IsActive(table'[t], clock') =>
                               /\ \A s \in Requests : caller'[s] = b => t \in Keeps(req'[s])
                               /\ ~Busy(b)' => t = cookie'[b]
    BY DEF Sessions, Keeps
  <2>1. trail[b] \subseteq DOMAIN issued
    BY DEF SInv, Sessions
  <2>2. trail'[b] \subseteq DOMAIN issued'
    BY <1>2, <1>3, <2>1 DEF Fades
  <2>3. ASSUME smooth'[b], NEW t \in trail'[b] \cap DOMAIN table', IsActive(table'[t], clock')
        PROVE  /\ \A s \in Requests : caller'[s] = b => t \in Keeps(req'[s])
               /\ ~Busy(b)' => t = cookie'[b]
    <3>1. smooth[b]
      BY <1>3, <2>3
    <3>2. t \in DOMAIN issued /\ t \in trail[b] =>
            /\ \A s \in Requests : caller[s] = b => t \in Keeps(req[s])
            /\ ~Busy(b) => t = cookie[b]
      BY <1>2, <2>3, <3>1 DEF SInv, Sessions, Fades
    <3>3. CASE caller[r] # b
      <4>1. t \in trail[b] /\ t \in DOMAIN issued /\ cookie'[b] = cookie[b]
        BY <1>3, <2>1, <2>3, <3>3
      <4>2. \A s \in Requests : caller'[s] = b <=> caller[s] = b
        BY <1>3, <3>3, BrowserAssumption
      <4>3. Busy(b)' <=> Busy(b)
        BY <4>2 DEF Busy
      <4>4. \A s \in Requests : caller'[s] = b => req'[s] = req[s]
        BY <1>5, <3>3, <4>2
      <4> QED
        BY <3>2, <4>1, <4>2, <4>3, <4>4
    <3>4. CASE caller[r] = b
      <4>1. Succeeded(o) /\ clock' = clock
        BY <1>1, <1>3, <2>3, <3>4 DEF Local
      <4>2. t \in DOMAIN issued => t \in Keeps(req[r])
        <5>1. t \in DOMAIN issued => t \in trail[b]
          BY <1>3, <2>3, <3>4
        <5> QED
          BY <3>2, <3>4, <5>1
      <4>3. t \in IF req'[r].pc = "idle" THEN {CookieAfter(req[r], req[r].tok)}
                                         ELSE Keeps(req'[r])
        BY <1>1, <2>3, <4>1, <4>2 DEF Local
      <4>4. req[r].tok # NULL => req[r].tok = cookie[b]
        BY <3>4, BrowserAssumption DEF SInv, Presents
      <4>5. \A s \in Requests : caller'[s] = b => s = r /\ req'[r].pc # "idle"
        BY <1>3, <3>4, BrowserAssumption DEF SInv, Waiting
      <4>6. CASE req'[r].pc = "idle"
        <5>1. t = CookieAfter(req[r], req[r].tok) /\ t # NULL
          BY <2>3, <4>3, <4>6, NullAssumption DEF IInv, TypeOK, IsTable
        <5>2. req[r].tok = NULL => req[r].pc = "reply"
          BY <5>1 DEF CookieAfter
        <5>3. t = CookieAfter(req[r], cookie[b])
          BY <4>4, <5>1, <5>2 DEF CookieAfter
        <5> QED
          BY <1>3, <3>4, <4>5, <4>6, <5>3
      <4>7. CASE req'[r].pc # "idle"
        <5>1. caller'[r] = b
          BY <1>3, <3>4, <4>7
        <5>2. Busy(b)'
          BY <5>1 DEF Busy
        <5> QED
          BY <4>3, <4>5, <4>7, <5>2
      <4> QED
        BY <4>6, <4>7
    <3> QED
      BY <3>3, <3>4
  <2> QED
    BY <2>2, <2>3
<1>10. \A u \in Users : users'[u].active
  BY <1>1 DEF Local
<1> QED
  BY <1>6, <1>7, <1>8, <1>9, <1>10, HandleTypes DEF SInv

(* A handler that has its answer ready gives it and ends.                  *)
LEMMA AnswerEnds ==
  ASSUME IInv, NEW r \in Requests, NEW o \in DBOutcomes, ServeWith(r, o),
         req[r].pc \in {"reply", "bye"}
  PROVE  req'[r].pc = "idle"
<1>1. Reply(r)
  BY DEF ServeWith, LoginVerify, RefreshCheck, LoginStamp, IssueTokens, RefreshRevokeAll,
         RefreshFindByID, RefreshRotate, LogoutRevoke
<1> QED
  BY <1>1 DEF Reply, Idle, IInv, TypeOK

LEMMA HandleLossless ==
  ASSUME IInv, IInv', SInv, Lossless, NEW r \in Requests, NEW o \in DBOutcomes, Handle(r, o)
  PROVE  Lossless'
<1> SUFFICES ASSUME lossless, lossless'
             PROVE  /\ \A s \in Requests : req'[s].pc # "idle" => caller'[s] # NULL
                    /\ \A s \in Requests : NoReplay(req'[s])
                    /\ \A a, b \in Browsers :
                         cookie'[a] # NULL /\ cookie'[a] = cookie'[b] => a = b
                    /\ NewIsGood'
                    /\ CookieIsGood'
  BY HandleShape DEF Lossless, NoReplay
<1> DEFINE q == req[r]
<1> DEFINE me == caller[r]
<1>1. Local(r, o)
  BY AnyLocal DEF Handle
<1>2. Fades
  BY HandlerFades DEF Handle
<1>3. /\ \A s \in Requests :
           caller'[s] = IF s = r /\ req'[r].pc = "idle" THEN NULL ELSE caller[s]
      /\ \A x \in Browsers :
           cookie'[x] = IF x = me /\ req'[r].pc = "idle" THEN CookieAfter(q, cookie[x])
                                                         ELSE cookie[x]
  BY HandleShape
<1>4. /\ q.pc # "idle"
      /\ \A s \in Requests : s # r => req'[s] = req[s]
      /\ NoReplay(req'[r])
      /\ HasNew(req'[r]) =>
           /\ req'[r].new \in DOMAIN table' => ~IsRevoked(table'[req'[r].new])
           /\ req'[r].new \notin DOMAIN issued \/ (HasNew(q) /\ req'[r].new = q.new)
      /\ \A t \in DOMAIN issued \cap DOMAIN table' :
           IsRevoked(table'[t]) =>
             \/ IsRevoked(table[t])
             \/ t = q.tok /\ req'[r].pc \in {"reply", "bye"}
  BY <1>1 DEF Local
<1>5. /\ \A s \in Requests : req[s].pc # "idle" => caller[s] # NULL
      /\ \A s \in Requests : NoReplay(req[s])
      /\ \A a, b \in Browsers : cookie[a] # NULL /\ cookie[a] = cookie[b] => a = b
      /\ NewIsGood
      /\ CookieIsGood
  BY DEF Lossless
<1>6. me \in Browsers /\ me # NULL /\ (q.tok # NULL => q.tok = cookie[me])
  BY <1>4, <1>5 DEF SInv, SessionTypeOK, Presents
<1>7. /\ NULL \notin DOMAIN table' /\ NULL \notin DOMAIN issued'
      /\ NULL \notin DOMAIN issued
  BY NullAssumption DEF IInv, TypeOK, IsTable, IsHistory
<1>8. /\ \A s \in Requests : HasNew(req[s]) => req[s].new \in DOMAIN issued
      /\ HasNew(req'[r]) => req'[r].new \in DOMAIN issued'
  BY DEF IInv, RequestsKnow, Knows, HasNew
<1>9. \/ CookieAfter(q, cookie[me]) = q.new /\ q.pc = "reply"
      \/ CookieAfter(q, cookie[me]) = NULL
      \/ CookieAfter(q, cookie[me]) = cookie[me] /\ q.tok = NULL /\ q.pc \notin {"reply", "bye"}
  BY DEF CookieAfter
<1>10. \A b \in Browsers : cookie[b] # NULL => cookie[b] \in DOMAIN issued
  BY DEF SInv, Presents
<1>11. \A t \in DOMAIN issued \cap DOMAIN table' : t \in DOMAIN table
  BY <1>2 DEF Fades
<1>12. q.pc \in {"reply", "bye"} => req'[r].pc = "idle"
  BY AnswerEnds DEF Handle
<1>13. \A s, x \in Requests : caller[s] # NULL /\ caller[s] = caller[x] => s = x
  BY DEF SInv, Waiting
<1> HIDE DEF q, me
<1>14. /\ \A s \in Requests : HasNew(req[s]) =>
            /\ req[s].new \in DOMAIN table => ~IsRevoked(table[req[s].new])
            /\ \A b \in Browsers : cookie[b] # req[s].new
            /\ \A x \in Requests : x # s /\ HasNew(req[x]) => req[x].new # req[s].new
  BY <1>5 DEF NewIsGood
<1>15. q = req[r] /\ me = caller[r]
  BY DEF q, me
<1>16. q.pc = "reply" => HasNew(req[r])
  BY <1>15 DEF HasNew
<1>17. \A s \in Requests : req'[s].pc # "idle" => caller'[s] # NULL
  BY <1>3, <1>4, <1>5, <1>15, <1>6
<1>18. \A s \in Requests : NoReplay(req'[s])
  BY <1>4, <1>5
<1>19. \A a, b \in Browsers : cookie'[a] # NULL /\ cookie'[a] = cookie'[b] => a = b
  <2>1. \A b \in Browsers : q.pc = "reply" => cookie[b] # q.new
    BY <1>14, <1>15, <1>16
  <2> QED
    BY <1>3, <1>5, <1>6, <1>9, <2>1
<1>20. NewIsGood'
  <2> SUFFICES ASSUME NEW s \in Requests, HasNew(req'[s])
               PROVE  /\ req'[s].new \in DOMAIN table' => ~IsRevoked(table'[req'[s].new])
                      /\ \A b \in Browsers : cookie'[b] # req'[s].new
                      /\ \A x \in Requests : x # s /\ HasNew(req'[x]) =>
                                               req'[x].new # req'[s].new
    BY DEF NewIsGood, HasNew, IsRevoked
  <2>1. CASE s = r
    <3>1. req'[r].pc # "idle" /\ req'[r].new # NULL
      BY <1>7, <1>8, <2>1 DEF HasNew
    <3>2. \A b \in Browsers : cookie'[b] # req'[s].new
      BY <1>3, <1>4, <1>10, <1>14, <1>15, <2>1, <3>1
    <3>3. \A x \in Requests : x # s /\ HasNew(req'[x]) => req'[x].new # req'[s].new
      BY <1>4, <1>8, <1>14, <1>15, <2>1
    <3> QED
      BY <1>4, <2>1, <3>2, <3>3
  <2>2. CASE s # r
    <3>1. req'[s] = req[s] /\ HasNew(req[s]) /\ req[s].new \in DOMAIN issued
      BY <1>4, <1>8, <2>2
    <3>2. req[s].new \in DOMAIN table' => ~IsRevoked(table'[req[s].new])
      <4>1. req[s].new # q.tok
        BY <1>6, <1>7, <1>14, <3>1
      <4> QED
        BY <1>4, <1>11, <1>14, <3>1, <4>1
    <3>3. \A b \in Browsers : cookie'[b] # req[s].new
      <4>1. q.pc = "reply" => q.new # req[s].new
        BY <1>14, <1>15, <1>16, <2>2, <3>1
      <4> QED
        BY <1>3, <1>7, <1>9, <1>14, <3>1, <4>1
    <3>4. \A x \in Requests : x # s /\ HasNew(req'[x]) => req'[x].new # req[s].new
      BY <1>4, <1>14, <1>15, <2>2, <3>1
    <3> QED
      BY <3>1, <3>2, <3>3, <3>4
  <2> QED
    BY <2>1, <2>2
<1>21. CookieIsGood'
  <2> SUFFICES ASSUME NEW b \in Browsers,
                      cookie'[b] \in DOMAIN table', IsRevoked(table'[cookie'[b]])
               PROVE  \E s \in Requests : caller'[s] = b /\ req'[s].pc \in {"reply", "bye"}
    BY DEF CookieIsGood, IsRevoked
  <2>1. cookie'[b] # NULL
    BY <1>7
  <2>2. CASE b # me
    <3>1. cookie'[b] = cookie[b] /\ cookie[b] \in DOMAIN issued /\ cookie[b] # q.tok
      <4>1. cookie'[b] = cookie[b] /\ cookie[b] # NULL
        BY <1>3, <2>1, <2>2
      <4>2. cookie[b] # cookie[me]
        BY <1>5, <1>6, <2>2, <4>1
      <4> QED
        BY <1>6, <1>10, <4>1, <4>2
    <3>2. cookie[b] \in DOMAIN table /\ IsRevoked(table[cookie[b]])
      BY <1>4, <1>11, <3>1
    <3>3. PICK s \in Requests : caller[s] = b /\ req[s].pc \in {"reply", "bye"}
      BY <1>5, <3>2 DEF CookieIsGood
    <3> QED
      BY <1>3, <1>4, <1>15, <2>2, <3>3
  <2>3. CASE b = me /\ req'[r].pc = "idle"
    <3>1. CASE cookie'[b] = q.new /\ q.pc = "reply"
      <4>1. q.new \in DOMAIN issued /\ (q.new \in DOMAIN table => ~IsRevoked(table[q.new]))
        BY <1>8, <1>14, <1>15, <1>16, <3>1
      <4> QED
        BY <1>4, <1>11, <2>3, <3>1, <4>1
    <3>2. CASE cookie'[b] = cookie[b] /\ q.tok = NULL /\ q.pc \notin {"reply", "bye"}
      <4>1. cookie[b] \in DOMAIN table /\ IsRevoked(table[cookie[b]])
        BY <1>4, <1>10, <1>11, <2>1, <2>3, <3>2
      <4>2. PICK s \in Requests : caller[s] = b /\ req[s].pc \in {"reply", "bye"}
        BY <1>5, <4>1 DEF CookieIsGood
      <4>3. s = r
        BY <1>6, <1>13, <1>15, <2>3, <4>2
      <4> QED
        BY <1>15, <3>2, <4>2, <4>3
    <3> QED
      BY <1>3, <1>9, <2>1, <2>3, <3>1, <3>2
  <2>4. CASE b = me /\ req'[r].pc # "idle"
    <3>1. cookie'[b] = cookie[b] /\ cookie[b] \in DOMAIN issued /\ caller'[r] = b
      BY <1>3, <1>10, <1>15, <2>1, <2>4
    <3>2. ~IsRevoked(table[cookie[b]]) \/ cookie[b] \notin DOMAIN table
      <4> SUFFICES ASSUME IsRevoked(table[cookie[b]]), cookie[b] \in DOMAIN table PROVE FALSE
        OBVIOUS
      <4>1. PICK s \in Requests : caller[s] = b /\ req[s].pc \in {"reply", "bye"}
        BY <1>5 DEF CookieIsGood
      <4>2. s = r
        BY <1>6, <1>13, <1>15, <2>4, <4>1
      <4> QED
        BY <1>12, <1>15, <2>4, <4>1, <4>2
    <3>3. req'[r].pc \in {"reply", "bye"}
      BY <1>4, <1>11, <3>1, <3>2
    <3> QED
      BY <3>1, <3>3
  <2> QED
    BY <2>2, <2>3, <2>4
<1> QED
  BY <1>17, <1>18, <1>19, <1>20, <1>21

-----------------------------------------------------------------------------
(* The steps of the browsers.                                              *)

(* A request is sent: it presents the cookie, or none, and so far has done *)
(* nothing.                                                                *)
LEMMA Sent ==
  ASSUME IInv, SInv, Lossless,
         NEW b \in Browsers, NEW r \in Requests, NEW p \in Request, NEW z \in BOOLEAN,
         ~Busy(b), req[r].pc = "idle", p.pc # "idle", p.tok \in {cookie[b], NULL},
         ReadsRow(p), ~HasNew(p), lossless => NoReplay(p),
         req' = [req EXCEPT ![r] = p],
         caller' = [caller EXCEPT ![r] = b],
         smooth' = [smooth EXCEPT ![b] = z],
         UNCHANGED <<table, users, issued, clock, cookie, lossless>>,
         \/ trail' = [trail EXCEPT ![b] = {}]
         \/ /\ trail' = trail
            /\ z => smooth[b] /\ \A t \in DOMAIN table :
                      IsActive(table[t], clock) /\ t = cookie[b] => t \in Keeps(p)
  PROVE  SInv' /\ Lossless'
<1>1. req' = [s \in Requests |-> IF s = r THEN p ELSE req[s]]
  BY RequestFacts
<1>2. /\ cookie \in [Browsers -> Tokens \cup {NULL}]
      /\ caller \in [Requests -> Browsers \cup {NULL}]
      /\ trail \in [Browsers -> SUBSET Tokens]
      /\ smooth \in [Browsers -> BOOLEAN]
      /\ lossless \in BOOLEAN
  BY DEF SInv, SessionTypeOK
<1>3. /\ \A s \in Requests : caller'[s] = IF s = r THEN b ELSE caller[s]
      /\ \A x \in Browsers : x # b => smooth'[x] = smooth[x] /\ trail'[x] = trail[x]
      /\ caller[r] = NULL
      /\ \A s \in Requests : caller[s] # b
      /\ b # NULL
  BY <1>2, BrowserAssumption DEF SInv, Waiting, Busy
<1>4. SessionTypeOK'
  BY <1>2 DEF SessionTypeOK
<1>5. Waiting'
  BY <1>1, <1>3 DEF SInv, Waiting
<1>6. Presents'
  BY <1>1, <1>3 DEF SInv, Presents
<1>7. \A s \in Requests : ReadsRow(req[s])'
  BY <1>1 DEF SInv, ReadsRow, Dead
<1>8. Sessions'
  <2> SUFFICES ASSUME NEW x \in Browsers
               PROVE  /\ trail'[x] \subseteq DOMAIN issued
                      /\ smooth'[x] =>
                           \A t \in trail'[x] \cap DOMAIN table :
                             IsActive(table[t], clock) =>
                               /\ \A s \in Requests : caller'[s] = x => t \in Keeps(req'[s])
                               /\ ~Busy(x)' => t = cookie[x]
    BY DEF Sessions, Keeps
  <2>1. CASE x # b
    <3>1. \A s \in Requests : caller'[s] = x <=> caller[s] = x
      BY <1>3, <2>1, BrowserAssumption
    <3>2. \A s \in Requests : caller'[s] = x => req'[s] = req[s]
      BY <1>1, <1>3, <2>1
    <3>3. Busy(x)' <=> Busy(x)
      BY <3>1 DEF Busy
    <3> QED
      BY <1>3, <2>1, <3>1, <3>2, <3>3 DEF SInv, Sessions
  <2>2. CASE x = b
    <3>1. Busy(b)' /\ \A s \in Requests : caller'[s] = b => req'[s] = p
      BY <1>1, <1>3 DEF Busy
    <3>2. CASE trail' = [trail EXCEPT ![b] = {}]
      BY <1>2, <2>2, <3>2
    <3>3. CASE trail' = trail /\ (z => smooth[b] /\ \A t \in DOMAIN table :
                      IsActive(table[t], clock) /\ t = cookie[b] => t \in Keeps(p))
      <4>1. trail[b] \subseteq DOMAIN issued
        BY DEF SInv, Sessions
      <4>2. smooth'[b] = z
        BY <1>2
      <4>3. ASSUME z, NEW t \in trail[b] \cap DOMAIN table, IsActive(table[t], clock)
            PROVE  t \in Keeps(p)
        BY <3>3, <4>3 DEF SInv, Sessions
      <4> QED
        BY <2>2, <3>1, <3>3, <4>1, <4>2, <4>3
    <3> QED
      BY <3>2, <3>3
  <2> QED
    BY <2>1, <2>2
<1>9. ASSUME lossless
      PROVE  /\ \A s \in Requests : req'[s].pc # "idle" => caller'[s] # NULL
             /\ \A s \in Requests : NoReplay(req'[s])
             /\ \A x, y \in Browsers : cookie[x] # NULL /\ cookie[x] = cookie[y] => x = y
             /\ NewIsGood'
             /\ CookieIsGood'
  <2>1. /\ \A s \in Requests : req[s].pc # "idle" => caller[s] # NULL
        /\ \A s \in Requests : NoReplay(req[s])
        /\ \A x, y \in Browsers : cookie[x] # NULL /\ cookie[x] = cookie[y] => x = y
        /\ NewIsGood
        /\ CookieIsGood
    BY <1>9 DEF Lossless
  <2>2. NewIsGood'
    BY <1>1, <2>1 DEF NewIsGood, HasNew, IsRevoked
  <2>3. CookieIsGood'
    <3> SUFFICES ASSUME NEW x \in Browsers, cookie[x] \in DOMAIN table, IsRevoked(table[cookie[x]])
                 PROVE  \E s \in Requests : caller'[s] = x /\ req'[s].pc \in {"reply", "bye"}
      BY DEF CookieIsGood, IsRevoked
    <3>1. PICK s \in Requests : caller[s] = x /\ req[s].pc \in {"reply", "bye"}
      BY <2>1 DEF CookieIsGood
    <3> QED
      BY <1>1, <1>3, <3>1
  <2> QED
    BY <1>1, <1>3, <1>9, <2>1, <2>2, <2>3
<1>10. \A u \in Users : users'[u].active
  BY DEF SInv
<1>11. SInv'
  BY <1>4, <1>5, <1>6, <1>7, <1>8, <1>10 DEF SInv
<1> QED
  BY <1>9, <1>11 DEF Lossless, NoReplay

(* A browser at rest loses its cookie, which is as good as dead.           *)
LEMMA Cleared ==
  ASSUME IInv, SInv, Lossless, NEW b \in Browsers, NEW z \in BOOLEAN, ~Busy(b),
         cookie' = [cookie EXCEPT ![b] = NULL],
         smooth' = [smooth EXCEPT ![b] = z],
         UNCHANGED <<vars, caller, trail, lossless>>,
         z => smooth[b] /\ (cookie[b] \in DOMAIN table => ~IsActive(table[cookie[b]], clock))
  PROVE  SInv' /\ Lossless'
<1>1. UNCHANGED <<table, users, issued, req, clock>>
  BY DEF vars
<1>2. /\ cookie \in [Browsers -> Tokens \cup {NULL}]
      /\ smooth \in [Browsers -> BOOLEAN]
      /\ caller \in [Requests -> Browsers \cup {NULL}]
      /\ \A s \in Requests : caller[s] # b
  BY DEF SInv, SessionTypeOK, Busy
<1>3. /\ cookie'[b] = NULL /\ smooth'[b] = z
      /\ \A x \in Browsers : x # b => cookie'[x] = cookie[x] /\ smooth'[x] = smooth[x]
      /\ \A x \in Browsers : Busy(x)' <=> Busy(x)
  BY <1>2 DEF Busy
<1>4. SessionTypeOK' /\ Waiting' /\ \A s \in Requests : ReadsRow(req[s])'
  BY <1>1, <1>2 DEF SInv, SessionTypeOK, Waiting, ReadsRow, Dead
<1>5. Presents'
  BY <1>1, <1>2, <1>3 DEF SInv, Presents
<1>6. Sessions'
  <2> SUFFICES ASSUME NEW x \in Browsers
               PROVE  /\ trail[x] \subseteq DOMAIN issued
                      /\ smooth'[x] =>
                           \A t \in trail[x] \cap DOMAIN table :
                             IsActive(table[t], clock) =>
                               /\ \A s \in Requests : caller[s] = x => t \in Keeps(req[s])
                               /\ ~Busy(x)' => t = cookie'[x]
    BY <1>1 DEF Sessions, Keeps
  <2>1. CASE x # b
    BY <1>3, <2>1 DEF SInv, Sessions
  <2>2. CASE x = b
    BY <1>3, <2>2 DEF SInv, Sessions
  <2> QED
    BY <2>1, <2>2
<1>7. SInv'
  BY <1>1, <1>4, <1>5, <1>6 DEF SInv
<1>8. NULL \notin DOMAIN table
  BY RequestFacts, NullAssumption DEF IInv, TypeOK, IsTable
<1>9. ASSUME lossless
      PROVE  NewIsGood' /\ CookieIsGood'
  <2>1. \A s \in Requests : HasNew(req[s]) => req[s].new # NULL
    BY NullAssumption DEF IInv, RequestsKnow, Knows, HasNew, TypeOK, IsHistory
  <2>2. NewIsGood'
    BY <1>1, <1>3, <1>9, <2>1 DEF Lossless, NewIsGood, HasNew, IsRevoked
  <2>3. CookieIsGood'
    <3> SUFFICES ASSUME NEW x \in Browsers, cookie'[x] \in DOMAIN table,
                        IsRevoked(table[cookie'[x]])
                 PROVE  \E s \in Requests : caller[s] = x /\ req[s].pc \in {"reply", "bye"}
      BY <1>1 DEF CookieIsGood, IsRevoked
    <3>1. cookie'[x] = cookie[x]
      BY <1>3, <1>8
    <3> QED
      BY <1>9, <3>1 DEF Lossless, CookieIsGood
  <2> QED
    BY <2>2, <2>3
<1> QED
  BY <1>1, <1>3, <1>7, <1>9 DEF Lossless, NoReplay

LEMMA SendLoginKeeps ==
  ASSUME IInv, SInv, Lossless, NEW b \in Browsers, NEW r \in Requests, NEW u \in Users,
         SendLogin(b, r, u)
  PROVE  SInv' /\ Lossless'
<1> DEFINE p == [req[r] EXCEPT !.pc = "verify", !.user = u]
<1>1. /\ req[r] \in Request /\ req[r].pc = "idle" /\ req[r].tok = NULL
      /\ ~Busy(b)
      /\ UNCHANGED <<table, users, issued, clock, cookie, lossless>>
      /\ req' = [req EXCEPT ![r] = p]
  BY RequestFacts DEF SendLogin, LoginFindByEmail, Knows
<1>2. p \in Request /\ p.pc = "verify" /\ p.tok = NULL
  BY <1>1 DEF Request, PCs
<1> HIDE DEF p
<1>3. ReadsRow(p) /\ ~HasNew(p) /\ NoReplay(p)
  BY <1>2 DEF ReadsRow, HasNew, NoReplay
<1>4. /\ caller' = [caller EXCEPT ![r] = b]
      /\ trail' = [trail EXCEPT ![b] = {}]
      /\ smooth' = [smooth EXCEPT ![b] = TRUE]
  BY DEF SendLogin
<1> QED
  BY <1>1, <1>2, <1>3, <1>4, Sent

(* While no answer was lost the cookie of a browser at rest is good.       *)
LEMMA RestingCookie ==
  ASSUME Lossless, lossless, NEW b \in Browsers, ~Busy(b), cookie[b] \in DOMAIN table
  PROVE  ~IsRevoked(table[cookie[b]])
  BY DEF Lossless, CookieIsGood, Busy

LEMMA SendRefreshKeeps ==
  ASSUME IInv, SInv, Lossless, NEW b \in Browsers, NEW r \in Requests, SendRefresh(b, r)
  PROVE  SInv' /\ Lossless'
<1> DEFINE t == cookie[b]
<1> DEFINE p == [req[r] EXCEPT !.pc = "check", !.tok = t,
                               !.user = table[t].user, !.row = table[t]]
<1>1. /\ req[r] \in Request /\ req[r].pc = "idle"
      /\ ~Busy(b) /\ t \in DOMAIN table
      /\ UNCHANGED <<table, users, issued, clock, cookie, lossless>>
      /\ req' = [req EXCEPT ![r] = p]
  BY RequestFacts DEF SendRefresh, RefreshFindByHash
<1>2. table[t] \in Row /\ table[t].expires = issued[t].at + RefreshTTL /\ t \in Tokens
  BY <1>1, RequestFacts DEF IInv, TypeOK, IsTable
<1>3. p \in Request /\ p.pc = "check" /\ p.tok = t /\ p.row = table[t]
  BY <1>1, <1>2 DEF Request, PCs, Row
<1>4. lossless => ~IsRevoked(table[t])
  BY <1>1, RestingCookie
<1>5. /\ caller' = [caller EXCEPT ![r] = b]
      /\ UNCHANGED <<trail, smooth>>
      /\ smooth \in [Browsers -> BOOLEAN]
  BY DEF SendRefresh, SInv, SessionTypeOK
<1> DEFINE z == smooth[b]
<1>6. z \in BOOLEAN /\ smooth' = [smooth EXCEPT ![b] = z]
  BY <1>5
<1> HIDE DEF p
<1>7. ReadsRow(p) /\ ~HasNew(p) /\ (lossless => NoReplay(p))
  BY <1>2, <1>3, <1>4 DEF ReadsRow, HasNew, NoReplay, Dead
<1>8. \A x : x = t => x \in Keeps(p)
  BY <1>3 DEF Keeps
<1> QED
  BY <1>1, <1>3, <1>5, <1>6, <1>7, <1>8, Sent

LEMMA SendLogoutKeeps ==
  ASSUME IInv, SInv, Lossless, NEW b \in Browsers, NEW r \in Requests, NEW o \in DBOutcomes,
         SendLogout(b, r, o)
  PROVE  SInv' /\ Lossless'
<1> DEFINE t == cookie[b]
<1> DEFINE p(pc) == [req[r] EXCEPT !.pc = pc, !.tok = t]
<1>1. /\ req[r] \in Request /\ req[r].pc = "idle" /\ ~Busy(b)
      /\ t \in DOMAIN issued
      /\ UNCHANGED <<table, users, issued, clock, cookie, lossless>>
  BY RequestFacts DEF SendLogout, LogoutFindByHash, Held
<1>2. PICK pc \in {"bye", "logout"} :
        /\ req' = [req EXCEPT ![r] = p(pc)]
        /\ pc = "bye" /\ Succeeded(o) => (t \in DOMAIN table => IsRevoked(table[t]))
  BY DEF SendLogout, LogoutFindByHash
<1>3. t \in Tokens
  BY <1>1 DEF IInv, TypeOK, IsHistory
<1>4. p(pc) \in Request /\ p(pc).pc = pc /\ p(pc).tok = t
  BY <1>1, <1>2, <1>3 DEF Request, PCs
<1> DEFINE z == smooth[b] /\ Succeeded(o)
<1>5. /\ caller' = [caller EXCEPT ![r] = b]
      /\ trail' = trail
      /\ smooth' = [smooth EXCEPT ![b] = z]
      /\ z \in BOOLEAN
  BY DEF SendLogout, SInv, SessionTypeOK, Succeeded
<1> HIDE DEF p
<1>6. ReadsRow(p(pc)) /\ ~HasNew(p(pc)) /\ NoReplay(p(pc))
  BY <1>2, <1>4 DEF ReadsRow, HasNew, NoReplay
<1>7. z => smooth[b] /\ \A x \in DOMAIN table :
             IsActive(table[x], clock) /\ x = t => x \in Keeps(p(pc))
  BY <1>2, <1>4 DEF Keeps, IsActive
<1> QED
  BY <1>1, <1>2, <1>4, <1>5, <1>6, <1>7, Sent

LEMMA RefreshNotFoundKeeps ==
  ASSUME IInv, SInv, Lossless, NEW b \in Browsers, RefreshNotFound(b)
  PROVE  SInv' /\ Lossless'
<1> DEFINE z == smooth[b] /\ cookie[b] \notin DOMAIN table
<1>1. z \in BOOLEAN
  BY DEF SInv, SessionTypeOK
<1>2. smooth' = [smooth EXCEPT ![b] = z]
  BY DEF RefreshNotFound
<1> QED
  BY <1>1, <1>2, Cleared DEF RefreshNotFound

LEMMA CookieExpiresKeeps ==
  ASSUME IInv, SInv, Lossless, NEW b \in Browsers, CookieExpires(b)
  PROVE  SInv' /\ Lossless'
<1> DEFINE z == smooth[b]
<1>1. z \in BOOLEAN /\ smooth' = [smooth EXCEPT ![b] = z]
  BY DEF SInv, SessionTypeOK, CookieExpires
<1>2. cookie[b] \in DOMAIN table => ~IsActive(table[cookie[b]], clock)
  <2>1. \A t \in DOMAIN table : table[t].expires = issued[t].at + RefreshTTL
    BY DEF IInv, TableInv, RowsIssued
  <2> QED
    BY <2>1 DEF CookieExpires, IsActive, IsExpired
<1> QED
  BY <1>1, <1>2, Cleared DEF CookieExpires

(* A browser that goes away gives up what Sessions says of it.             *)
LEMMA GoAwayKeeps ==
  ASSUME IInv, SInv, Lossless, NEW r \in Requests, GoAway(r)
  PROVE  SInv' /\ Lossless'
<1>1. /\ UNCHANGED <<table, users, issued, req, clock, cookie, trail>>
      /\ ~lossless' /\ lossless' \in BOOLEAN
  BY DEF GoAway, vars
<1>2. /\ caller \in [Requests -> Browsers \cup {NULL}]
      /\ smooth \in [Browsers -> BOOLEAN]
      /\ caller[r] \in Browsers
  BY DEF GoAway, SInv, SessionTypeOK
<1>3. /\ \A s \in Requests : caller'[s] = IF s = r THEN NULL ELSE caller[s]
      /\ \A x \in Browsers : smooth'[x] = (smooth[x] /\ x # caller[r])
  BY <1>2 DEF GoAway
<1>4. SessionTypeOK'
  BY <1>1, <1>2 DEF SInv, SessionTypeOK, GoAway
<1>5. Waiting' /\ Presents' /\ \A s \in Requests : ReadsRow(req[s])'
  BY <1>1, <1>3 DEF SInv, Waiting, Presents, ReadsRow, Dead
<1>6. Sessions'
  <2> SUFFICES ASSUME NEW x \in Browsers
               PROVE  /\ trail[x] \subseteq DOMAIN issued
                      /\ smooth'[x] =>
                           \A t \in trail[x] \cap DOMAIN table :
                             IsActive(table[t], clock) =>
                               /\ \A s \in Requests : caller'[s] = x => t \in Keeps(req[s])
                               /\ ~Busy(x)' => t = cookie[x]
    BY <1>1 DEF Sessions, Keeps
  <2>1. x # caller[r] => (Busy(x)' <=> Busy(x))
    BY <1>3, BrowserAssumption DEF Busy
  <2> QED
    BY <1>3, <2>1, BrowserAssumption DEF SInv, Sessions
<1>7. SInv'
  BY <1>1, <1>4, <1>5, <1>6 DEF SInv
<1> QED
  BY <1>1, <1>7 DEF Lossless

(* After a crash no one waits.                                             *)
LEMMA ServerCrashKeeps ==
  ASSUME IInv, SInv, Lossless, ServerCrash
  PROVE  SInv' /\ Lossless'
<1>1. /\ UNCHANGED <<table, users, issued, clock, cookie, trail>>
      /\ \A s \in Requests : req'[s].pc = "idle" /\ caller'[s] = NULL
      /\ \A x \in Browsers : smooth'[x] = (smooth[x] /\ ~Busy(x))
      /\ lossless' = (lossless /\ \A x \in Browsers : ~Busy(x))
      /\ SessionTypeOK
  BY IdleKnows DEF ServerCrash, Crash, SInv
<1>2. SessionTypeOK'
  BY <1>1 DEF SessionTypeOK, ServerCrash
<1>3. Waiting' /\ Presents' /\ \A s \in Requests : ReadsRow(req[s])'
  BY <1>1 DEF SInv, Waiting, Presents, ReadsRow
<1>4. \A x \in Browsers, s \in Requests : caller'[s] # x
  BY <1>1, BrowserAssumption
<1>5. Sessions'
  BY <1>1, <1>4 DEF SInv, Sessions
<1>6. SInv'
  BY <1>1, <1>2, <1>3, <1>5 DEF SInv
<1>7. \A s \in Requests : NoReplay(req'[s]) /\ ~HasNew(req'[s])
  BY <1>1 DEF NoReplay, HasNew
<1>8. ASSUME lossless' PROVE CookieIsGood'
  <2>1. \A x \in Browsers : cookie[x] \in DOMAIN table => ~IsRevoked(table[cookie[x]])
    BY <1>1, <1>8, RestingCookie
  <2> QED
    BY <1>1, <2>1 DEF CookieIsGood, IsRevoked
<1>9. NewIsGood'
  BY <1>7 DEF NewIsGood, HasNew
<1> QED
  BY <1>1, <1>6, <1>7, <1>8, <1>9 DEF Lossless, NoReplay

(* The janitor and time leave no row that is better than it was.           *)
LEMMA ElsewhereKeeps ==
  ASSUME IInv, IInv', SInv, Lossless, Elsewhere
  PROVE  SInv' /\ Lossless'
<1>1. /\ UNCHANGED <<users, issued, req, cookie, caller, trail, smooth, lossless>>
      /\ \A t \in DOMAIN table' : t \in DOMAIN table /\ table'[t] = table[t]
  BY DEF Elsewhere, browserVars, CleanupExpiredRefreshTokens, DeleteExpired, Tick
<1>2. Fades
  BY ElsewhereFades
<1>3. SessionTypeOK' /\ Waiting' /\ Presents'
  BY <1>1 DEF SInv, SessionTypeOK, Waiting, Presents
<1>4. \A s \in Requests : ReadsRow(req[s])'
  BY <1>1, <1>2, ReadsRowStays
<1>5. Sessions'
  <2>1. \A x \in Browsers : Busy(x)' <=> Busy(x)
    BY <1>1 DEF Busy
  <2>2. \A x \in Browsers : trail[x] \subseteq DOMAIN issued
    BY DEF SInv, Sessions
  <2>3. \A t \in DOMAIN issued \cap DOMAIN table' :
          t \in DOMAIN table /\ (IsActive(table'[t], clock') => IsActive(table[t], clock))
    BY <1>2 DEF Fades
  <2> HIDE DEF Keeps, IsActive
  <2>4. \A x \in Browsers : smooth[x] =>
          \A t \in trail[x] \cap DOMAIN table' :
            IsActive(table'[t], clock') =>
              /\ \A s \in Requests : caller[s] = x => t \in Keeps(req[s])
              /\ ~Busy(x) => t = cookie[x]
    BY <2>2, <2>3 DEF SInv, Sessions
  <2> QED
    BY <1>1, <2>1, <2>2, <2>4 DEF Sessions, Keeps, IsActive
<1>6. SInv'
  BY <1>1, <1>3, <1>4, <1>5 DEF SInv
<1>7. ASSUME lossless PROVE NewIsGood' /\ CookieIsGood'
  BY <1>1, <1>7 DEF Lossless, NewIsGood, CookieIsGood, HasNew, IsRevoked
<1> QED
  BY <1>1, <1>6, <1>7 DEF Lossless, NoReplay

-----------------------------------------------------------------------------
(* The invariant, and what follows from it.                                *)

LEMMA SessionInitKeeps == SessionInit => SInv /\ Lossless
<1> SUFFICES ASSUME SessionInit PROVE SInv /\ Lossless
  OBVIOUS
<1>1. /\ \A r \in Requests : req[r].pc = "idle" /\ req[r].tok = NULL /\ caller[r] = NULL
      /\ \A b \in Browsers : cookie[b] = NULL /\ trail[b] = {} /\ smooth[b] = TRUE
      /\ DOMAIN table = {}
      /\ \A u \in Users : users[u].active
  BY DEF SessionInit, Init, Idle
<1>2. SessionTypeOK
  BY DEF SessionInit, SessionTypeOK
<1>3. Waiting /\ Presents /\ \A r \in Requests : ReadsRow(req[r])
  BY <1>1 DEF Waiting, Presents, ReadsRow
<1>4. Sessions
  BY <1>1 DEF Sessions
<1>5. \A r \in Requests : NoReplay(req[r]) /\ ~HasNew(req[r])
  BY <1>1 DEF NoReplay, HasNew
<1>6. NewIsGood /\ CookieIsGood
  BY <1>1, <1>5 DEF NewIsGood, CookieIsGood
<1> QED
  BY <1>1, <1>2, <1>3, <1>4, <1>5, <1>6 DEF SInv, Lossless

LEMMA SessionStepKeeps ==
  ASSUME IInv, IInv', SInv, Lossless, [SessionNext]_sessionVars
  PROVE  SInv' /\ Lossless'
<1>1. ASSUME NEW b \in Browsers, NEW r \in Requests, NEW u \in Users, SendLogin(b, r, u)
      PROVE  SInv' /\ Lossless'
  BY <1>1, SendLoginKeeps
<1>2. ASSUME NEW b \in Browsers, NEW r \in Requests, SendRefresh(b, r)
      PROVE  SInv' /\ Lossless'
  BY <1>2, SendRefreshKeeps
<1>3. ASSUME NEW b \in Browsers, NEW r \in Requests, NEW o \in DBOutcomes, SendLogout(b, r, o)
      PROVE  SInv' /\ Lossless'
  BY <1>3, SendLogoutKeeps
<1>4. ASSUME NEW b \in Browsers, RefreshNotFound(b) \/ CookieExpires(b)
      PROVE  SInv' /\ Lossless'
  BY <1>4, RefreshNotFoundKeeps, CookieExpiresKeeps
<1>5. ASSUME NEW r \in Requests, NEW o \in DBOutcomes, Handle(r, o)
      PROVE  SInv' /\ Lossless'
  BY <1>5, HandleSInv, HandleLossless
<1>6. ASSUME NEW r \in Requests, GoAway(r) PROVE SInv' /\ Lossless'
  BY <1>6, GoAwayKeeps
<1>7. CASE Elsewhere
  BY <1>7, ElsewhereKeeps
<1>8. CASE ServerCrash
  BY <1>8, ServerCrashKeeps
<1>9. CASE UNCHANGED sessionVars
  <2>1. UNCHANGED <<table, users, issued, req, clock, cookie, caller, trail, smooth, lossless>>
    BY <1>9 DEF sessionVars, vars, browserVars
  <2>2. SInv'
    BY <2>1 DEF SInv, SessionTypeOK, Waiting, Presents, ReadsRow, Dead, Sessions, Keeps, Busy,
                IsActive, IsRevoked, IsExpired
  <2> QED
    BY <2>1, <2>2 DEF Lossless, NoReplay, NewIsGood, HasNew, CookieIsGood, IsRevoked
<1> QED
  BY <1>1, <1>2, <1>3, <1>4, <1>5, <1>6, <1>7, <1>8, <1>9 DEF SessionNext

LEMMA SessionInvariant == SessionSpec => [](IInv /\ SInv /\ Lossless)
<1>1. SInv /\ Lossless /\ IInv /\ IInv' /\ [SessionNext]_sessionVars => SInv' /\ Lossless'
  BY SessionStepKeeps
<1> QED
  BY <1>1, SessionInitKeeps, SessionIInv, PTL DEF SessionSpec

(* The state of the browsers has the types given, for any number of them.  *)
THEOREM SessionTypesCorrect == SessionSpec => []SessionTypeOK
<1>1. SInv => SessionTypeOK
  BY DEF SInv
<1> QED
  BY <1>1, SessionInvariant, PTL

(* While no answer has been lost, no browser at rest holds a token that    *)
(* handleRefresh would answer with the revocation of the whole account.    *)
THEOREM CookiesStayGood == SessionSpec => []CookieStaysGood
<1>1. Lossless => CookieStaysGood
  BY RestingCookie DEF CookieStaysGood
<1> QED
  BY <1>1, SessionInvariant, PTL

(* Rotations and logouts leave nothing of a session alive but the cookie,  *)
(* whatever else the server does meanwhile.                                *)
THEOREM LiveTokenUnique == SessionSpec => []OneLiveToken
<1>1. SInv => OneLiveToken
  BY DEF SInv, Sessions, OneLiveToken
<1> QED
  BY <1>1, SessionInvariant, PTL

(* A handler clears the cookie after a logout, of an expired token, or     *)
(* after a statement that failed.                                          *)
LEMMA HandleClears ==
  ASSUME IInv, SInv, Lossless, lossless, NEW r \in Requests, NEW o \in DBOutcomes, Handle(r, o),
         NEW b \in Browsers, cookie[b] # NULL, cookie'[b] = NULL
  PROVE  \/ \E s \in Requests : caller[s] = b /\ req[s].pc = "bye"
         \/ issued[cookie[b]].at + RefreshTTL <= clock
         \/ ~smooth'[b]
<1>1. /\ b = caller[r] /\ req'[r].pc = "idle"
      /\ CookieAfter(req[r], cookie[b]) = NULL
      /\ smooth'[b] = (smooth[b] /\ Succeeded(o))
  BY HandleShape
<1>2. /\ req \in [Requests -> Request] /\ Knows(req[r]) /\ ReadsRow(req[r]) /\ NoReplay(req[r])
      /\ NULL \notin DOMAIN issued
      /\ \A u \in Users : users[u].active
  BY RequestFacts
<1>3. req[r].pc = "bye" \/ (req[r].tok # NULL /\ req[r].tok = cookie[b])
  <2>1. req[r].pc = "reply" => req[r].new # NULL
    BY <1>2 DEF Knows
  <2>2. req[r].pc = "bye" \/ req[r].tok # NULL
    BY <1>1, <2>1 DEF CookieAfter
  <2> QED
    BY <1>1, <2>2, BrowserAssumption DEF SInv, Presents
<1>4. req[r].pc \notin {"reply", "verify", "stamp", "replay", "disabled"}
  BY <1>1, <1>2, <1>3 DEF CookieAfter, Knows, ReadsRow, NoReplay
<1>5. SUFFICES ASSUME Succeeded(o), req[r].pc # "bye"
               PROVE  issued[cookie[b]].at + RefreshTTL <= clock
  BY <1>1
<1>6. RefreshCheck(r) \/ IssueTokens(r, o) \/ RefreshFindByID(r, o)
        \/ RefreshRotate(r, o) \/ LogoutRevoke(r, o)
  BY <1>4, <1>5 DEF Handle, ServeWith, LoginVerify, LoginStamp, RefreshRevokeAll, Reply
<1>7. CASE RefreshCheck(r)
  <2>1. req[r].pc = "check" /\ IsExpired(req[r].row, clock)
    BY <1>1, <1>2, <1>7 DEF RefreshCheck, NoReplay, Request
  <2> QED
    BY <1>2, <1>3, <2>1 DEF ReadsRow, IsExpired
<1>8. CASE IssueTokens(r, o) \/ RefreshFindByID(r, o) \/ RefreshRotate(r, o) \/ LogoutRevoke(r, o)
  <2>1. req[r].user \in Users \/ req[r].pc # "owner"
    BY <1>2 DEF Knows
  <2>2. CASE IssueTokens(r, o)
    BY <1>1, <1>2, <1>5, <2>2 DEF IssueTokens, Request
  <2>3. CASE RefreshFindByID(r, o)
    BY <1>1, <1>2, <1>5, <2>1, <2>3 DEF RefreshFindByID, Request
  <2>4. CASE RefreshRotate(r, o) \/ LogoutRevoke(r, o)
    BY <1>1, <1>2, <2>4 DEF RefreshRotate, AfterRotate, LogoutRevoke, Request
  <2> QED
    BY <1>8, <2>2, <2>3, <2>4
<1> QED
  BY <1>6, <1>7, <1>8

(* Nobody's session ends by what somebody else does.                       *)
THEOREM NobodyIsLoggedOut == SessionSpec => StaysLoggedIn
<1>1. IInv /\ SInv /\ Lossless /\ [SessionNext]_sessionVars =>
        [\A b \in Browsers :
           lossless /\ cookie[b] # NULL /\ cookie'[b] = NULL =>
             \/ \E r \in Requests : caller[r] = b /\ req[r].pc = "bye"
             \/ issued[cookie[b]].at + RefreshTTL <= clock
             \/ ~smooth'[b]]_sessionVars
  <2> SUFFICES ASSUME IInv, SInv, Lossless, SessionNext,
                      NEW b \in Browsers, lossless, cookie[b] # NULL, cookie'[b] = NULL
               PROVE  \/ \E r \in Requests : caller[r] = b /\ req[r].pc = "bye"
                      \/ issued[cookie[b]].at + RefreshTTL <= clock
                      \/ ~smooth'[b]
    OBVIOUS
  <2>1. /\ cookie \in [Browsers -> Tokens \cup {NULL}]
        /\ smooth \in [Browsers -> BOOLEAN]
    BY DEF SInv, SessionTypeOK
  <2>2. ASSUME NEW x \in Browsers, RefreshNotFound(x)
        PROVE  issued[cookie[b]].at + RefreshTTL <= clock \/ ~smooth'[b]
    <3>1. x = b
      BY <2>1, <2>2 DEF RefreshNotFound
    <3>2. CASE cookie[b] \in DOMAIN table
      BY <2>1, <2>2, <3>1, <3>2 DEF RefreshNotFound
    <3>3. CASE cookie[b] \notin DOMAIN table
      <4>1. cookie[b] \in DOMAIN issued
        BY DEF SInv, Presents
      <4>2. issued[cookie[b]].at \in Nat /\ clock \in Nat
        BY <4>1 DEF IInv, TypeOK, IsHistory, Grant
      <4>3. issued[cookie[b]].at + RefreshTTL < clock
        BY <3>3, <4>1 DEF IInv, TableInv, IssuedBacked
      <4> QED
        BY <4>2, <4>3, LifetimeAssumption
    <3> QED
      BY <3>2, <3>3
  <2>3. ASSUME NEW x \in Browsers, CookieExpires(x)
        PROVE  issued[cookie[b]].at + RefreshTTL <= clock
    BY <2>1, <2>3 DEF CookieExpires
  <2>4. ASSUME NEW r \in Requests, NEW o \in DBOutcomes, Handle(r, o)
        PROVE  \/ \E s \in Requests : caller[s] = b /\ req[s].pc = "bye"
               \/ issued[cookie[b]].at + RefreshTTL <= clock
               \/ ~smooth'[b]
    BY <2>4, HandleClears
  <2>5. \/ \E x \in Browsers : RefreshNotFound(x) \/ CookieExpires(x)
        \/ \E r \in Requests, o \in DBOutcomes : Handle(r, o)
    BY DEF SessionNext, SendLogin, SendRefresh, SendLogout, GoAway, Elsewhere, browserVars,
           ServerCrash
  <2> QED
    BY <2>2, <2>3, <2>4, <2>5
<1> QED
  BY <1>1, SessionInvariant, PTL DEF SessionSpec, StaysLoggedIn

-----------------------------------------------------------------------------
(* The clients AuthPatientProofs is about.                                 *)

(* No two browsers have requests of one account under way at a time.       *)
OwnAccounts ==
  \A r, s \in Requests :
    caller[r] # NULL /\ caller[s] # NULL /\ AccountOf(req[r]) = AccountOf(req[s])
      => caller[r] = caller[s]

(* Pages that wait for their answers are patient clients: while no answer  *)
(* is given up or lost, and no two browsers use an account at the same     *)
(* moment, an account has one request under way at a time, however the     *)
(* browsers' requests interleave.  What holds of PatientSpec (a revoked    *)
(* token is never accepted, rotations are linked) holds of them.           *)
THEOREM BrowsersArePatient ==
  SessionSpec /\ [](lossless /\ OwnAccounts) => PatientSpec
<1>1. SessionInit => Init
  BY DEF SessionInit
<1>2. SInv /\ Lossless /\ lossless /\ OwnAccounts => OneAtATime
  BY DEF SInv, Waiting, Lossless, OwnAccounts, OneAtATime
<1>3. IInv /\ [SessionNext]_sessionVars /\ OneAtATime' => [Next /\ OneAtATime']_vars
  BY StepsOfAuth
<1> QED
  BY <1>1, <1>2, <1>3, SessionInvariant, PTL DEF SessionSpec, PatientSpec
=============================================================================
