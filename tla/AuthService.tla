---------------------------- MODULE AuthService ----------------------------
(***************************************************************************)
(* service.AuthService over the refresh_tokens and users tables.           *)
(*                                                                         *)
(* Every HTTP request runs in a goroutine of its own, so a handler is a    *)
(* sequence of steps, one for each SQL statement it sends, and the steps   *)
(* of different requests interleave.  req[r] is the program counter and    *)
(* the local variables of the request that slot r is serving.  A statement *)
(* may take effect and be answered, fail, or take effect and have its      *)
(* answer lost (the connection drops, the request's context is cancelled). *)
(* The janitor goroutine of cmd/server and the server's crash are actions  *)
(* of the same system, and so are the operator's SQL that disables or      *)
(* enables an account, and time.                                           *)
(*                                                                         *)
(* issued is history: nothing in the code reads it.                        *)
(***************************************************************************)
EXTENDS RefreshTokenTable, FiniteSets

CONSTANTS
  Requests,    \* how many requests are in flight at most: one slot for each
  AccessTTL,   \* life of an access token (JWT)
  RefreshTTL,  \* life of a refresh token
  Managed,     \* the accounts an operator may disable and enable
  MaxTime,     \* bound: the clock stops here
  DBOutcomes,  \* what may become of a statement
  Crashes      \* whether the server may crash and start again

(* config.Load rejects lifetimes that are not positive, and a refresh      *)
(* lifetime that is not the longer one.                                    *)
ASSUME LifetimeAssumption ==
  AccessTTL \in Nat /\ RefreshTTL \in Nat /\ 0 < AccessTTL /\ AccessTTL < RefreshTTL

ASSUME BoundAssumption ==
  /\ MaxTime \in Nat
  /\ Managed \subseteq Users
  /\ "ok" \in DBOutcomes /\ DBOutcomes \subseteq {"ok", "refused", "lostAck"}
  /\ Crashes \in BOOLEAN

Applied(o) == o # "refused"
Succeeded(o) == o = "ok"

VARIABLES
  table,     \* refresh_tokens
  users,     \* users[u]: is_active (with the admin role), last_login_at, and
             \* since when the account has been disabled (history)
  issued,    \* issued[t]: the grant that inserted row t; kept when the row goes
  req,       \* req[r]: the request in slot r
  clock      \* time.Now()

vars == <<table, users, issued, req, clock>>

Account == [active    : BOOLEAN,
            lastLogin : Nat \cup {NULL},
            since     : Nat \cup {NULL}]

(* at is the "now" both lifetimes are counted from, parent the token that  *)
(* was traded in (NULL at a login), delivered whether the answer with the  *)
(* pair of tokens reached the client.                                      *)
Grant == [user      : Users,
          at        : Nat,
          parent    : Tokens \cup {NULL},
          delivered : BOOLEAN]

IsHistory(h) == DOMAIN h \subseteq Tokens /\ h \in [DOMAIN h -> Grant]

PCs == {"idle", "verify", "stamp", "issue", "check", "replay", "owner",
        "disabled", "rotate", "reply", "logout", "bye"}

Request == [pc   : PCs,
            user : Users \cup {NULL},   \* user.ID, or stored.UserID
            tok  : Tokens \cup {NULL},  \* the token presented: stored.ID
            row  : Row \cup {NULL},     \* stored, until it has been checked
            now  : Nat \cup {NULL},
            new  : Tokens \cup {NULL}]  \* issued.RefreshToken

Idle == [pc |-> "idle", user |-> NULL, tok |-> NULL, row |-> NULL,
         now |-> NULL, new |-> NULL]

Unissued == Tokens \ DOMAIN issued

(* The client can only send what was delivered to it.                      *)
Held == {t \in DOMAIN issued : issued[t].delivered}

(* A read that fails is answered like one that finds nothing.              *)
ReadMayFail == \E o \in DBOutcomes : ~Succeeded(o)

(* Bound: a request that may come to issue a token starts only while there *)
(* are more secrets left than requests that may still draw one.            *)
MayIssue(q) ==
  \/ q.pc \in {"verify", "stamp", "owner", "issue"}
  \/ q.pc = "check" /\ ~IsRevoked(q.row)

SecretsLeft ==
  Cardinality({r \in Requests : MayIssue(req[r])}) < Cardinality(Unissued)

Init ==
  /\ table = [t \in {} |-> NULL]
  /\ users = [u \in Users |-> [active |-> TRUE, lastLogin |-> NULL, since |-> NULL]]
  /\ issued = [t \in {} |-> NULL]
  /\ req = [r \in Requests |-> Idle]
  /\ clock = 0

-----------------------------------------------------------------------------
(* Login                                                                   *)

(* FindByEmail, then the is_active and role test.  A failed lookup or an   *)
(* account that does not pass ends the request with nothing changed.       *)
LoginFindByEmail(r, u) ==
  /\ req[r].pc = "idle"
  /\ SecretsLeft
  /\ users[u].active
  /\ req' = [req EXCEPT ![r].pc = "verify", ![r].user = u]
  /\ UNCHANGED <<table, users, issued, clock>>

(* The bcrypt comparison takes long by design; only then is the time read. *)
LoginVerify(r) ==
  /\ req[r].pc = "verify"
  /\ \/ req' = [req EXCEPT ![r] = Idle]
     \/ req' = [req EXCEPT ![r].pc = "stamp", ![r].now = clock]
  /\ UNCHANGED <<table, users, issued, clock>>

(* UpdateLastLoginAt; an error ends the login.                             *)
LoginStamp(r, o) ==
  /\ req[r].pc = "stamp"
  /\ users' = IF Applied(o)
                THEN [users EXCEPT ![req[r].user].lastLogin = req[r].now]
                ELSE users
  /\ req' = IF Succeeded(o) THEN [req EXCEPT ![r].pc = "issue"]
                            ELSE [req EXCEPT ![r] = Idle]
  /\ UNCHANGED <<table, issued, clock>>

-----------------------------------------------------------------------------
(* issueTokens: sign the JWT, draw a secret, insert its row.  A failure to *)
(* sign or to draw looks like a refused insert.                            *)

(* Seeded fault: the lifetimes are counted from the moment of the insert.  *)
IssuedAtInsert(q) == clock

(* Seeded fault: the lifetimes are backdated, for clocks out of step.      *)
IssuedAtSkewed(q) == q.now - 1

IssuedAt(q) == q.now

(* The grant of t: what its row and the claims of its JWT (subject, iat,   *)
(* exp) are made from.                                                     *)
Grow(t, q) ==
  [x \in DOMAIN issued \cup {t} |->
     IF x = t THEN [user |-> q.user, at |-> IssuedAt(q), parent |-> q.tok,
                    delivered |-> FALSE]
              ELSE issued[x]]

IssueTokens(r, o) ==
  /\ req[r].pc = "issue"
  /\ \E t \in Unissued :
       /\ IF Applied(o)
            THEN /\ table' = Create(table, t, NewRow(req[r].user, IssuedAt(req[r]) + RefreshTTL))
                 /\ issued' = Grow(t, req[r])
            ELSE UNCHANGED <<table, issued>>
       /\ req' = IF Succeeded(o)
                   THEN [req EXCEPT ![r].new = t,
                                    ![r].pc = IF req[r].tok = NULL THEN "reply" ELSE "rotate"]
                   ELSE [req EXCEPT ![r] = Idle]
  /\ UNCHANGED <<users, clock>>

-----------------------------------------------------------------------------
(* Refresh                                                                 *)

(* FindByHash.  A miss or a failed read is answered 401, nothing changed.  *)
RefreshFindByHash(r, t) ==
  /\ req[r].pc = "idle"
  /\ t \in Held \cap DOMAIN table
  /\ IsRevoked(table[t]) \/ SecretsLeft
  /\ req' = [req EXCEPT ![r].pc = "check", ![r].tok = t,
                        ![r].user = table[t].user, ![r].row = table[t]]
  /\ UNCHANGED <<table, users, issued, clock>>

(* Seeded fault: the row's expiry is looked at, its revoked_at is not.     *)
RefreshCheckExpiryOnly(r) ==
  /\ req[r].pc = "check"
  /\ req' = IF IsExpired(req[r].row, clock)
              THEN [req EXCEPT ![r] = Idle]
              ELSE [req EXCEPT ![r].pc = "owner", ![r].now = clock, ![r].row = NULL]
  /\ UNCHANGED <<table, users, issued, clock>>

(* The row as it was read is judged, at a "now" read after it.             *)
RefreshCheck(r) ==
  /\ req[r].pc = "check"
  /\ \/ /\ IsRevoked(req[r].row)
        /\ req' = [req EXCEPT ![r].pc = "replay", ![r].now = clock, ![r].row = NULL]
     \/ /\ ~IsRevoked(req[r].row)
        /\ IsExpired(req[r].row, clock)
        /\ req' = [req EXCEPT ![r] = Idle]
     \/ /\ IsActive(req[r].row, clock)
        /\ req' = [req EXCEPT ![r].pc = "owner", ![r].now = clock, ![r].row = NULL]
  /\ UNCHANGED <<table, users, issued, clock>>

(* A replay, or a disabled account: every token of the user is revoked,    *)
(* whether or not that works the answer is 401.                            *)
RefreshRevokeAll(r, o) ==
  /\ req[r].pc \in {"replay", "disabled"}
  /\ table' = IF Applied(o) THEN RevokeAllForUser(table, req[r].user) ELSE table
  /\ req' = [req EXCEPT ![r] = Idle]
  /\ UNCHANGED <<users, issued, clock>>

RefreshFindByID(r, o) ==
  /\ req[r].pc = "owner"
  /\ \/ /\ Succeeded(o)
        /\ users[req[r].user].active
        /\ req' = [req EXCEPT ![r].pc = "issue"]
     \/ /\ Succeeded(o)
        /\ ~users[req[r].user].active
        /\ req' = [req EXCEPT ![r].pc = "disabled"]
     \/ /\ ~Succeeded(o)
        /\ req' = [req EXCEPT ![r] = Idle]
  /\ UNCHANGED <<table, users, issued, clock>>

(* Seeded fault: the rotation starts over until the old token is revoked.  *)
AfterRotateRetry(o) == IF Succeeded(o) THEN "reply" ELSE "issue"

(* The revocation's error is logged and the answer goes out regardless.    *)
AfterRotate(o) == "reply"

(* Seeded fault: the rotation does not say what replaces the old token.    *)
NoSuccessor(q) == NULL

Successor(q) == q.new

RefreshRotate(r, o) ==
  /\ req[r].pc = "rotate"
  /\ table' = IF Applied(o) THEN Revoke(table, req[r].tok, Successor(req[r])) ELSE table
  /\ req' = [req EXCEPT ![r].pc = AfterRotate(o)]
  /\ UNCHANGED <<users, issued, clock>>

(* The handler writes or clears the cookies; the answer may be lost.       *)
Reply(r) ==
  /\ \/ /\ req[r].pc = "reply"
        /\ \E arrives \in BOOLEAN :
             issued' = [issued EXCEPT ![req[r].new].delivered = arrives]
     \/ /\ req[r].pc = "bye"
        /\ UNCHANGED issued
  /\ req' = [req EXCEPT ![r] = Idle]
  /\ UNCHANGED <<table, users, clock>>

-----------------------------------------------------------------------------
(* Logout.  Whatever the service returns, the handler clears the cookies   *)
(* and answers 204 ("bye").                                                *)

LogoutFindByHash(r, t, o) ==
  /\ req[r].pc = "idle"
  /\ t \in Held
  /\ \/ /\ Succeeded(o) => (t \in DOMAIN table => IsRevoked(table[t]))
        /\ req' = [req EXCEPT ![r].pc = "bye", ![r].tok = t]
     \/ /\ Succeeded(o)
        /\ t \in DOMAIN table
        /\ ~IsRevoked(table[t])
        /\ req' = [req EXCEPT ![r].pc = "logout", ![r].tok = t]
  /\ UNCHANGED <<table, users, issued, clock>>

(* Seeded fault: the whole account is logged out.                          *)
LogoutRevokeAll(r, o) ==
  /\ req[r].pc = "logout"
  /\ table' = IF Applied(o) /\ req[r].tok \in DOMAIN table
                THEN RevokeAllForUser(table, table[req[r].tok].user) ELSE table
  /\ req' = [req EXCEPT ![r].pc = "bye"]
  /\ UNCHANGED <<users, issued, clock>>

LogoutRevoke(r, o) ==
  /\ req[r].pc = "logout"
  /\ table' = IF Applied(o) THEN Revoke(table, req[r].tok, NULL) ELSE table
  /\ req' = [req EXCEPT ![r].pc = "bye"]
  /\ UNCHANGED <<users, issued, clock>>

-----------------------------------------------------------------------------
(* A sweep may come at any moment (RefreshTokenCleanup says when it does); *)
(* "before" was read some time ahead of its statement.                     *)
CleanupExpiredRefreshTokens(o, before) ==
  /\ table' = IF Applied(o) THEN DeleteExpired(table, before) ELSE table
  /\ UNCHANGED <<users, issued, req, clock>>

-----------------------------------------------------------------------------
(* VerifyAccessToken reads no table: whoever holds the JWT of a grant is   *)
(* let in until it expires.                                                *)
VerifyAccessToken(t) ==
  /\ t \in Held
  /\ clock < issued[t].at + AccessTTL

-----------------------------------------------------------------------------
(* The environment.                                                        *)

(* No code of the service changes is_active; an operator does, in SQL.     *)
DisableUser(u) ==
  /\ users[u].active
  /\ users' = [users EXCEPT ![u].active = FALSE, ![u].since = clock]
  /\ UNCHANGED <<table, issued, req, clock>>

EnableUser(u) ==
  /\ ~users[u].active
  /\ users' = [users EXCEPT ![u].active = TRUE, ![u].since = NULL]
  /\ UNCHANGED <<table, issued, req, clock>>

Tick ==
  /\ clock < MaxTime
  /\ clock' = clock + 1
  /\ UNCHANGED <<table, users, issued, req>>

(* Every goroutine is gone and the server starts again on the same tables. *)
Crash ==
  /\ Crashes
  /\ req' = [r \in Requests |-> Idle]
  /\ UNCHANGED <<table, users, issued, clock>>

(* What a request does once it has been accepted: its next statement, with *)
(* outcome o, or a step that needs no statement.                           *)
ServeWith(r, o) ==
  \/ Succeeded(o) /\ (LoginVerify(r) \/ RefreshCheck(r) \/ Reply(r))
  \/ LoginStamp(r, o) \/ IssueTokens(r, o)
  \/ RefreshRevokeAll(r, o) \/ RefreshFindByID(r, o) \/ RefreshRotate(r, o)
  \/ LogoutRevoke(r, o)

Serve(r) == \E o \in DBOutcomes : ServeWith(r, o)

Accept(r) ==
  \/ \E u \in Users : LoginFindByEmail(r, u)
  \/ \E t \in Tokens : RefreshFindByHash(r, t)
  \/ \E t \in Tokens, o \in DBOutcomes : LogoutFindByHash(r, t, o)

Next ==
  \/ \E r \in Requests : Accept(r) \/ Serve(r)
  \/ \E o \in DBOutcomes, before \in 0..clock : CleanupExpiredRefreshTokens(o, before)
  \/ \E u \in Managed : DisableUser(u) \/ EnableUser(u)
  \/ Tick
  \/ Crash

Spec == Init /\ [][Next]_vars

(* The scheduler runs every goroutine whose statement has returned, and    *)
(* every statement is assumed to return.                                   *)
Fairness == \A r \in Requests : WF_vars(Serve(r))
-----------------------------------------------------------------------------
(* Properties of every execution.                                          *)

(* The types of the state.                                                 *)
TypeOK ==
  /\ IsTable(table)
  /\ users \in [Users -> Account]
  /\ IsHistory(issued)
  /\ req \in [Requests -> Request]
  /\ clock \in Nat

(* A row that names its successor is revoked, and the successor is a row   *)
(* that is still there, of the same user, issued in exchange for it.  The  *)
(* schema has no foreign key for it: it rests on the order of the inserts, *)
(* on "revoked_at is null" and on rows expiring in the order in which they *)
(* were chained, against Refresh, replays, logouts and the janitor.        *)
ReplacedByIntact ==
  \A t \in DOMAIN table :
    LET s == table[t].replacedBy IN
      s # NULL =>
        /\ IsRevoked(table[t])
        /\ s \in DOMAIN table
        /\ table[s].user = table[t].user
        /\ s \in DOMAIN issued /\ issued[s].parent = t

(* No secret a client may hold loses its row before its lifetime is over:  *)
(* until then a replay of it is recognised as one.                         *)
IssuedBacked ==
  \A t \in DOMAIN issued \ DOMAIN table : issued[t].at + RefreshTTL < clock

(* Once an account has been disabled for the life of an access token, no   *)
(* access token that came from a refresh gets in, although the verifying   *)
(* middleware never looks the account up: "now" is read before the account *)
(* is.  (A login reads the account first and the time after bcrypt, so for *)
(* its grants the same bound does not hold.)                               *)
DisabledUserLosesAccess ==
  \A t \in DOMAIN issued :
    LET u == users[issued[t].user] IN
      issued[t].parent # NULL /\ ~u.active /\ clock >= u.since + AccessTTL
        => ~VerifyAccessToken(t)

(* What the table and the history of grants say of a token.                *)
EntryOf(t) ==
  IF t \notin DOMAIN issued
    THEN [phase |-> "unissued", owner |-> NULL, deadline |-> NULL, successor |-> NULL]
  ELSE IF t \notin DOMAIN table
    THEN [phase |-> "purged", owner |-> issued[t].user,
          deadline |-> issued[t].at + RefreshTTL, successor |-> NULL]
  ELSE [phase |-> IF IsRevoked(table[t]) THEN "revoked" ELSE "active",
        owner |-> table[t].user, deadline |-> table[t].expires,
        successor |-> table[t].replacedBy]

LedgerEntry == [t \in Tokens |-> EntryOf(t)]

Ledger == INSTANCE RotationLedger WITH entry <- LedgerEntry

(* However requests interleave, statements fail and the server crashes,    *)
(* the table is a ledger: a token is issued once, revoked for good, linked *)
(* at most once to a remembered successor, and forgotten only when dead.   *)
RefinesLedger == Ledger!Spec

-----------------------------------------------------------------------------
(* Properties of patient clients: whoever uses an account waits for the    *)
(* answer to one request before sending the next.                          *)

(* Whose request it is.  A logout only knows the token it was sent.        *)
AccountOf(q) == IF q.tok = NULL THEN q.user ELSE issued[q.tok].user

OneAtATime ==
  \A r, s \in Requests :
    req[r].pc # "idle" /\ req[s].pc # "idle" /\ AccountOf(req[r]) = AccountOf(req[s]) => r = s

PatientSpec == Init /\ [][Next /\ OneAtATime']_vars

(* While the database answers, a client never holds the outcome of a       *)
(* rotation whose old token is still good, or that the old row does not    *)
(* point to: Create and Revoke are not one transaction, but the answer     *)
(* goes out after both.                                                    *)
RotationLinks ==
  \A t \in Held :
    LET p == issued[t].parent IN
      p # NULL /\ p \in DOMAIN table => IsRevoked(table[p]) /\ table[p].replacedBy = t

(* "A revoked token must never be accepted": no row is inserted in         *)
(* exchange for a token that is revoked at that moment.                    *)
RevokedNeverAccepted ==
  [][\A t \in DOMAIN issued' \ DOMAIN issued :
       LET p == issued'[t].parent IN
         p # NULL /\ p \in DOMAIN table => ~IsRevoked(table[p])]_vars

(* When a logout is answered the row of its token is revoked, or gone, if  *)
(* the database answers; other requests do not matter.                     *)
LogoutRevokes ==
  \A r \in Requests :
    req[r].pc = "bye" /\ req[r].tok \in DOMAIN table => IsRevoked(table[req[r].tok])

-----------------------------------------------------------------------------
(* Liveness.                                                               *)

(* Every request that was accepted is finished: whatever a statement       *)
(* returns, and whatever other requests do, no handler goes round or waits *)
(* for another.                                                            *)
RequestsFinish == \A r \in Requests : req[r].pc # "idle" ~> req[r].pc = "idle"
=============================================================================
