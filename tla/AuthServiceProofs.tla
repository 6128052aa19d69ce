------------------------- MODULE AuthServiceProofs -------------------------
(***************************************************************************)
(* Proofs about AuthService, for any tokens, users, requests, lifetimes,   *)
(* statement outcomes and number of crashes.                               *)
(*                                                                         *)
(* None of the invariants is inductive alone.  That a row's successor is   *)
(* still there (ReplacedByIntact) needs the chain of grants to be ordered  *)
(* in time, so that the janitor forgets a chain from its old end; that     *)
(* needs what each handler remembers of the rows it read, however stale,   *)
(* to be true of the grants.  IInv puts these together.                    *)
(***************************************************************************)
EXTENDS AuthService, TLAPS

(* Rows agree with the grants that made them.                              *)
RowsIssued ==
  \A t \in DOMAIN table :
    /\ t \in DOMAIN issued
    /\ table[t].user = issued[t].user
    /\ table[t].expires = issued[t].at + RefreshTTL

(* A chain of grants belongs to one user and goes forward in time.         *)
GrantsOrdered ==
  \A t \in DOMAIN issued :
    /\ issued[t].at <= clock
    /\ LET p == issued[t].parent IN
         p # NULL => /\ p \in DOMAIN issued
                     /\ p # t
                     /\ issued[p].user = issued[t].user
                     /\ issued[p].at <= issued[t].at

(* The janitor forgets a chain from its old end.                           *)
ForgottenInOrder ==
  \A t \in DOMAIN issued \ DOMAIN table : issued[t].parent \notin DOMAIN table

(* A row that names a successor is revoked and was traded in for it.       *)
Linked ==
  \A t \in DOMAIN table :
    LET s == table[t].replacedBy IN
      s # NULL => IsRevoked(table[t]) /\ s \in DOMAIN issued /\ issued[s].parent = t

(* What the local variables of a handler are worth at each of its steps.   *)
Knows(q) ==
  /\ q.pc \in {"verify", "stamp", "issue", "check", "owner", "replay", "disabled"}
       => q.user \in Users
  /\ q.pc \in {"stamp", "owner", "issue"} => q.now \in Nat /\ q.now <= clock
  /\ q.pc = "check" => q.row \in Row
  /\ q.pc \in {"idle", "verify", "stamp"} => q.tok = NULL
  /\ q.pc \in {"check", "owner", "rotate"} => q.tok # NULL
  /\ q.tok # NULL => q.tok \in DOMAIN issued
  /\ q.pc \in {"check", "owner", "issue"} /\ q.tok # NULL => q.user = issued[q.tok].user
  /\ q.pc \in {"owner", "issue"} /\ q.tok # NULL => issued[q.tok].at <= q.now
  /\ q.pc \in {"rotate", "reply"} => q.new \in DOMAIN issued
  /\ q.pc = "rotate" => issued[q.new].parent = q.tok

RequestsKnow == \A r \in Requests : Knows(req[r])

(* A disabled account's refreshes, done or about to issue, read their      *)
(* "now" before it was disabled.                                           *)
GrantsBeforeDisabling ==
  /\ \A u \in Users : ~users[u].active => users[u].since \in Nat
  /\ \A t \in DOMAIN issued :
       LET u == users[issued[t].user] IN
         issued[t].parent # NULL /\ ~u.active => issued[t].at <= u.since
  /\ \A r \in Requests :
       req[r].pc = "issue" /\ req[r].tok # NULL /\ ~users[req[r].user].active
         => req[r].now <= users[req[r].user].since

TableInv == RowsIssued /\ GrantsOrdered /\ IssuedBacked /\ ForgottenInOrder /\ Linked

IInv == TypeOK /\ TableInv /\ RequestsKnow /\ GrantsBeforeDisabling

-----------------------------------------------------------------------------
(* The statements on the table.                                            *)

(* Each yields a table, and what it changes is what its SQL says.          *)
LEMMA RevokeTable ==
  ASSUME NEW tbl, IsTable(tbl), NEW t, NEW s \in Tokens \cup {NULL}
  PROVE  LET new == Revoke(tbl, t, s) IN
           /\ IsTable(new)
           /\ DOMAIN new = DOMAIN tbl
           /\ \A x \in DOMAIN tbl :
                /\ new[x].user = tbl[x].user /\ new[x].expires = tbl[x].expires
                /\ x # t \/ IsRevoked(tbl[x]) => new[x] = tbl[x]
                /\ x = t /\ ~IsRevoked(tbl[x]) =>
                     /\ IsRevoked(new[x])
                     /\ s = NULL => new[x].replacedBy = tbl[x].replacedBy
                     /\ s # NULL => new[x].replacedBy = s
  BY DEF Revoke, IsRevoked, IsTable, Row

(* Only revoked_at of the rows of one user changes.                       *)
LEMMA RevokeAllTable ==
  ASSUME NEW tbl, IsTable(tbl), NEW u
  PROVE  LET new == RevokeAllForUser(tbl, u) IN
           /\ IsTable(new)
           /\ DOMAIN new = DOMAIN tbl
           /\ \A x \in DOMAIN tbl :
                /\ new[x].user = tbl[x].user /\ new[x].expires = tbl[x].expires
                /\ new[x].replacedBy = tbl[x].replacedBy
                /\ new[x].revoked = (tbl[x].revoked \/ tbl[x].user = u)
  BY DEF RevokeAllForUser, IsRevoked, IsTable, Row

(* What is left of the table is as it was.                                *)
LEMMA DeleteTable ==
  ASSUME NEW tbl, IsTable(tbl), NEW b
  PROVE  LET new == DeleteExpired(tbl, b) IN
           /\ IsTable(new)
           /\ DOMAIN new = {x \in DOMAIN tbl : ~(tbl[x].expires < b)}
           /\ \A x \in DOMAIN new : new[x] = tbl[x]
  BY DEF DeleteExpired, IsTable, Row

-----------------------------------------------------------------------------
(* A handler's step that leaves accounts, grants and the clock alone: what *)
(* it must show of the table and of its own local variables.               *)

LEMMA HandlerStep ==
  ASSUME IInv, NEW r \in Requests, NEW q \in Request,
         req' = [req EXCEPT ![r] = q],
         UNCHANGED <<users, issued, clock>>,
         IsTable(table)', TableInv',
         Knows(q),
         q.pc = "issue" /\ q.tok # NULL /\ ~users[q.user].active
           => q.now <= users[q.user].since
  PROVE  IInv'
<1>1. TypeOK'
  BY DEF IInv, TypeOK, IsHistory
<1>2. \A x \in Requests : req'[x] = q \/ req'[x] = req[x]
  BY DEF IInv, TypeOK
<1>3. RequestsKnow'
  <2> SUFFICES ASSUME NEW x \in Requests PROVE Knows(req[x])'
    BY DEF RequestsKnow
  <2>1. Knows(req'[x])
    BY <1>2 DEF IInv, RequestsKnow
  <2> QED
    BY <2>1 DEF Knows
<1>4. GrantsBeforeDisabling'
  BY <1>2 DEF IInv, GrantsBeforeDisabling
<1> QED
  BY <1>1, <1>3, <1>4 DEF IInv

(* A handler's step that changes nothing but its own local variables.     *)
LEMMA OnlyRequest ==
  ASSUME IInv, NEW r \in Requests, NEW q \in Request,
         req' = [req EXCEPT ![r] = q],
         UNCHANGED <<table, users, issued, clock>>,
         Knows(q),
         q.pc = "issue" /\ q.tok # NULL /\ ~users[q.user].active
           => q.now <= users[q.user].since
  PROVE  IInv'
<1>1. IsTable(table)'
  BY DEF IInv, TypeOK, IsTable
<1>2. TableInv'
  BY DEF IInv, TableInv, RowsIssued, GrantsOrdered, IssuedBacked, ForgottenInOrder, Linked
<1> QED
  BY <1>1, <1>2, HandlerStep

(* A slot that serves nothing knows nothing.                              *)
LEMMA IdleKnows == Idle \in Request /\ Knows(Idle) /\ Idle.pc = "idle"
  BY NullAssumption DEF Idle, Request, Knows, PCs

-----------------------------------------------------------------------------
(* The initial state, and each handler step in turn.                       *)

LEMMA InitInv == Init => IInv
<1> SUFFICES ASSUME Init PROVE IInv
  OBVIOUS
<1>1. TypeOK
  BY IdleKnows DEF Init, TypeOK, IsTable, IsHistory, Account
<1>2. TableInv
  BY DEF Init, TableInv, RowsIssued, GrantsOrdered, IssuedBacked, ForgottenInOrder, Linked
<1>3. RequestsKnow
  BY IdleKnows DEF Init, RequestsKnow
<1>4. GrantsBeforeDisabling
  BY IdleKnows DEF Init, GrantsBeforeDisabling
<1> QED
  BY <1>1, <1>2, <1>3, <1>4 DEF IInv

(* Login: FindByEmail.                                                    *)
LEMMA LoginFindByEmailInv ==
  ASSUME IInv, NEW r \in Requests, NEW u \in Users, LoginFindByEmail(r, u)
  PROVE  IInv'
<1> DEFINE q == [req[r] EXCEPT !.pc = "verify", !.user = u]
<1>1. req[r] \in Request /\ Knows(req[r])
  BY DEF IInv, TypeOK, RequestsKnow
<1>2. req' = [req EXCEPT ![r] = q] /\ UNCHANGED <<table, users, issued, clock>>
  BY DEF LoginFindByEmail, IInv, TypeOK
<1>3. q \in Request
  BY <1>1 DEF Request, PCs
<1>4. Knows(q)
  BY <1>1 DEF LoginFindByEmail, Knows
<1>5. q.pc = "verify"
  BY <1>1 DEF Request
<1> QED
  BY <1>2, <1>3, <1>4, <1>5, OnlyRequest

(* A handler may end at any of its steps with nothing else changed.       *)
LEMMA GiveUp ==
  ASSUME IInv, NEW r \in Requests, req' = [req EXCEPT ![r] = Idle],
         UNCHANGED <<table, users, issued, clock>>
  PROVE  IInv'
  BY IdleKnows, OnlyRequest

(* Login: the password, then the time.                                    *)
LEMMA LoginVerifyInv ==
  ASSUME IInv, NEW r \in Requests, LoginVerify(r)
  PROVE  IInv'
<1> DEFINE q == [req[r] EXCEPT !.pc = "stamp", !.now = clock]
<1>1. req[r] \in Request /\ Knows(req[r]) /\ clock \in Nat
  BY DEF IInv, TypeOK, RequestsKnow
<1>2. CASE req' = [req EXCEPT ![r] = Idle]
  BY <1>2, GiveUp DEF LoginVerify
<1>3. CASE req' = [req EXCEPT ![r].pc = "stamp", ![r].now = clock]
  <2>1. req' = [req EXCEPT ![r] = q] /\ UNCHANGED <<table, users, issued, clock>>
    BY <1>3 DEF LoginVerify, IInv, TypeOK
  <2>2. q \in Request /\ q.pc = "stamp"
    BY <1>1 DEF Request, PCs
  <2>3. Knows(q)
    BY <1>1 DEF LoginVerify, Knows, Request
  <2> QED
    BY <2>1, <2>2, <2>3, OnlyRequest
<1> QED
  BY <1>2, <1>3 DEF LoginVerify

(* Login: UpdateLastLoginAt, the one statement that writes to users.      *)
LEMMA LoginStampInv ==
  ASSUME IInv, NEW r \in Requests, NEW o \in DBOutcomes, LoginStamp(r, o)
  PROVE  IInv'
<1> DEFINE q == [req[r] EXCEPT !.pc = "issue"]
<1>1. req[r] \in Request /\ Knows(req[r]) /\ clock \in Nat
  BY DEF IInv, TypeOK, RequestsKnow
<1>2. /\ q \in Request /\ q.pc = "issue" /\ q.tok = NULL /\ Knows(q)
  BY <1>1 DEF LoginStamp, Knows, Request, PCs
<1>3. \A x \in Requests \ {r} : req'[x] = req[x]
  BY DEF LoginStamp, IInv, TypeOK
<1>4. req'[r] \in {q, Idle} /\ req' \in [Requests -> Request]
  BY <1>2, IdleKnows DEF LoginStamp, IInv, TypeOK
<1>5. UNCHANGED <<table, issued, clock>>
  BY DEF LoginStamp
<1>6. /\ users' \in [Users -> Account]
      /\ \A u \in Users : users'[u].active = users[u].active /\ users'[u].since = users[u].since
  <2>1. users' = IF Applied(o) THEN [users EXCEPT ![req[r].user].lastLogin = req[r].now]
                         ELSE users
    BY DEF LoginStamp
  <2>2. req[r].user \in Users /\ req[r].now \in Nat
    BY <1>1 DEF LoginStamp, Knows
  <2> QED
    BY <2>1, <2>2 DEF IInv, TypeOK, Account
<1>7. TypeOK'
  BY <1>4, <1>5, <1>6 DEF IInv, TypeOK, IsTable, IsHistory
<1>8. TableInv'
  BY <1>5 DEF IInv, TableInv, RowsIssued, GrantsOrdered, IssuedBacked, ForgottenInOrder, Linked
<1>9. RequestsKnow'
  <2> SUFFICES ASSUME NEW x \in Requests PROVE Knows(req[x])'
    BY DEF RequestsKnow
  <2>1. Knows(req'[x])
    BY <1>2, <1>3, <1>4, IdleKnows DEF IInv, RequestsKnow
  <2> QED
    BY <2>1, <1>5 DEF Knows
<1>10. GrantsBeforeDisabling'
  <2>1. \A t \in DOMAIN issued : issued[t].user \in Users
    BY DEF IInv, TypeOK, IsHistory, Grant
  <2>2. \A x \in Requests : req'[x].pc = "issue" /\ req'[x].tok # NULL =>
          req'[x] = req[x] /\ req[x].user \in Users
    BY <1>2, <1>3, <1>4, IdleKnows DEF IInv, RequestsKnow, Knows
  <2> QED
    BY <1>5, <1>6, <2>1, <2>2 DEF IInv, GrantsBeforeDisabling
<1> QED
  BY <1>7, <1>8, <1>9, <1>10 DEF IInv

(* Refresh: the row that is read was issued before, to its user.          *)
LEMMA RefreshFindByHashInv ==
  ASSUME IInv, NEW r \in Requests, NEW t \in Tokens, RefreshFindByHash(r, t)
  PROVE  IInv'
<1> DEFINE q == [req[r] EXCEPT !.pc = "check", !.tok = t,
                               !.user = table[t].user, !.row = table[t]]
<1>1. req[r] \in Request /\ Knows(req[r])
  BY DEF IInv, TypeOK, RequestsKnow
<1>2. req' = [req EXCEPT ![r] = q] /\ UNCHANGED <<table, users, issued, clock>>
  BY DEF RefreshFindByHash, IInv, TypeOK
<1>3. /\ t \in DOMAIN issued /\ t # NULL
      /\ table[t] \in Row /\ table[t].user = issued[t].user /\ table[t].user \in Users
  BY NullAssumption
  DEF RefreshFindByHash, IInv, TypeOK, IsTable, IsHistory, Held, TableInv, RowsIssued, Row
<1>4. q \in Request /\ q.pc = "check"
  BY <1>1, <1>3 DEF Request, PCs
<1>5. Knows(q)
  BY <1>1, <1>3, <1>4 DEF Knows, Request
<1> QED
  BY <1>2, <1>4, <1>5, OnlyRequest

(* Refresh: "now" is not before the grant of the token presented.         *)
LEMMA RefreshCheckInv ==
  ASSUME IInv, NEW r \in Requests, RefreshCheck(r)
  PROVE  IInv'
<1> DEFINE q(pc) == [req[r] EXCEPT !.pc = pc, !.now = clock, !.row = NULL]
<1>1. /\ req[r] \in Request /\ Knows(req[r]) /\ clock \in Nat
      /\ req[r].pc = "check" /\ UNCHANGED <<table, users, issued, clock>>
  BY DEF IInv, TypeOK, RequestsKnow, RefreshCheck
<1>2. \/ req' = [req EXCEPT ![r] = Idle]
      \/ \E pc \in {"replay", "owner"} : req' = [req EXCEPT ![r] = q(pc)]
  BY DEF RefreshCheck, IInv, TypeOK
<1>3. ASSUME NEW pc \in {"replay", "owner"}, req' = [req EXCEPT ![r] = q(pc)]
      PROVE  IInv'
  <2>1. q(pc) \in Request /\ q(pc).pc = pc
    BY <1>1 DEF Request, PCs
  <2>2. issued[req[r].tok].at <= clock
    BY <1>1 DEF Knows, IInv, TableInv, GrantsOrdered
  <2>3. Knows(q(pc))
    BY <1>1, <2>1, <2>2 DEF Knows, Request
  <2> QED
    BY <1>1, <1>3, <2>1, <2>3, OnlyRequest
<1> QED
  BY <1>1, <1>2, <1>3, GiveUp

(* Refresh: the account is read after "now", so it was not disabled before.*)
LEMMA RefreshFindByIDInv ==
  ASSUME IInv, NEW r \in Requests, NEW o \in DBOutcomes, RefreshFindByID(r, o)
  PROVE  IInv'
<1> DEFINE q(pc) == [req[r] EXCEPT !.pc = pc]
<1>1. /\ req[r] \in Request /\ Knows(req[r]) /\ clock \in Nat
      /\ req[r].pc = "owner" /\ UNCHANGED <<table, users, issued, clock>>
  BY DEF IInv, TypeOK, RequestsKnow, RefreshFindByID
<1>2. \/ req' = [req EXCEPT ![r] = Idle]
      \/ users[req[r].user].active /\ req' = [req EXCEPT ![r] = q("issue")]
      \/ req' = [req EXCEPT ![r] = q("disabled")]
  BY DEF RefreshFindByID, IInv, TypeOK
<1>3. ASSUME NEW pc \in {"issue", "disabled"}
      PROVE  q(pc) \in Request /\ q(pc).pc = pc /\ q(pc).user = req[r].user /\ Knows(q(pc))
  BY <1>1 DEF Knows, Request, PCs
<1>4. CASE users[req[r].user].active /\ req' = [req EXCEPT ![r] = q("issue")]
  <2>1. q("issue") \in Request /\ q("issue").user = req[r].user /\ Knows(q("issue"))
    BY <1>3
  <2> HIDE DEF q
  <2> QED
    BY <1>1, <1>4, <2>1, OnlyRequest
<1>5. CASE req' = [req EXCEPT ![r] = q("disabled")]
  <2>1. q("disabled") \in Request /\ q("disabled").pc = "disabled" /\ Knows(q("disabled"))
    BY <1>3
  <2> HIDE DEF q
  <2> QED
    BY <1>1, <1>5, <2>1, OnlyRequest
<1> QED
  BY <1>1, <1>2, <1>4, <1>5, GiveUp

(* Logout: FindByHash.                                                    *)
LEMMA LogoutFindByHashInv ==
  ASSUME IInv, NEW r \in Requests, NEW t \in Tokens, NEW o \in DBOutcomes,
         LogoutFindByHash(r, t, o)
  PROVE  IInv'
<1> DEFINE q(pc) == [req[r] EXCEPT !.pc = pc, !.tok = t]
<1>1. /\ req[r] \in Request /\ Knows(req[r]) /\ t \in DOMAIN issued
      /\ UNCHANGED <<table, users, issued, clock>>
  BY DEF IInv, TypeOK, RequestsKnow, LogoutFindByHash, Held
<1>2. PICK pc \in {"bye", "logout"} : req' = [req EXCEPT ![r] = q(pc)]
  BY DEF LogoutFindByHash, IInv, TypeOK
<1>3. q(pc) \in Request /\ q(pc).pc = pc
  BY <1>1 DEF Request, PCs
<1>4. Knows(q(pc))
  BY <1>1, <1>3 DEF Knows, Request
<1> QED
  BY <1>1, <1>2, <1>3, <1>4, OnlyRequest

-----------------------------------------------------------------------------
(* Revocations keep the table's part of the invariant.                     *)

LEMMA RevokeAllInv ==
  ASSUME IInv, NEW u, table' \in {table, RevokeAllForUser(table, u)}, UNCHANGED <<issued, clock>>
  PROVE  IsTable(table)' /\ TableInv'
<1>1. /\ IsTable(table') /\ DOMAIN table' = DOMAIN table
      /\ \A x \in DOMAIN table :
           /\ table'[x].user = table[x].user /\ table'[x].expires = table[x].expires
           /\ table'[x].replacedBy = table[x].replacedBy
           /\ table[x].revoked => table'[x].revoked
  <2>1. CASE table' = table
    BY <2>1 DEF IInv, TypeOK, IsTable
  <2>2. CASE table' = RevokeAllForUser(table, u)
    <3>1. IsTable(table)
      BY DEF IInv, TypeOK
    <3> QED
      BY <2>2, <3>1, RevokeAllTable DEF IsTable, Row
  <2> QED
    BY <2>1, <2>2
<1>2. IsTable(table)'
  BY <1>1 DEF IsTable
<1>3. TableInv'
  BY <1>1 DEF IInv, TableInv, RowsIssued, GrantsOrdered, IssuedBacked, ForgottenInOrder,
              Linked, IsRevoked
<1> QED
  BY <1>2, <1>3

(* Revoke keeps the table whole: with a successor, it is that of a rotation.*)
LEMMA RevokeInv ==
  ASSUME IInv, NEW t, NEW s \in Tokens \cup {NULL},
         s # NULL => s \in DOMAIN issued /\ issued[s].parent = t,
         table' \in {table, Revoke(table, t, s)}, UNCHANGED <<issued, clock>>
  PROVE  IsTable(table)' /\ TableInv'
<1>1. /\ IsTable(table') /\ DOMAIN table' = DOMAIN table
      /\ \A x \in DOMAIN table :
           /\ table'[x].user = table[x].user /\ table'[x].expires = table[x].expires
           /\ \/ table'[x] = table[x]
              \/ /\ x = t /\ IsRevoked(table'[x])
                 /\ s = NULL => table'[x].replacedBy = table[x].replacedBy
                 /\ s # NULL => table'[x].replacedBy = s
  <2>1. CASE table' = table
    BY <2>1 DEF IInv, TypeOK, IsTable
  <2>2. CASE table' = Revoke(table, t, s)
    <3>1. IsTable(table)
      BY DEF IInv, TypeOK
    <3> QED
      BY <2>2, <3>1, RevokeTable DEF IsRevoked
  <2> QED
    BY <2>1, <2>2
<1>2. IsTable(table)'
  BY <1>1 DEF IsTable
<1>3. RowsIssued' /\ GrantsOrdered' /\ IssuedBacked' /\ ForgottenInOrder'
  BY <1>1 DEF IInv, TableInv, RowsIssued, GrantsOrdered, IssuedBacked, ForgottenInOrder
<1>4. Linked'
  BY <1>1 DEF IInv, TableInv, Linked, IsRevoked
<1> QED
  BY <1>2, <1>3, <1>4 DEF TableInv

(* Refresh: a replay or a disabled account.                               *)
LEMMA RefreshRevokeAllInv ==
  ASSUME IInv, NEW r \in Requests, NEW o \in DBOutcomes, RefreshRevokeAll(r, o)
  PROVE  IInv'
<1>1. IsTable(table)' /\ TableInv'
  BY RevokeAllInv DEF RefreshRevokeAll
<1> QED
  BY <1>1, IdleKnows, HandlerStep DEF RefreshRevokeAll

(* Refresh: the old row is revoked and names the new one.                 *)
LEMMA RefreshRotateInv ==
  ASSUME IInv, NEW r \in Requests, NEW o \in DBOutcomes, RefreshRotate(r, o)
  PROVE  IInv'
<1> DEFINE q == [req[r] EXCEPT !.pc = "reply"]
<1>1. /\ req[r] \in Request /\ Knows(req[r])
      /\ req[r].pc = "rotate" /\ UNCHANGED <<users, issued, clock>>
      /\ req' = [req EXCEPT ![r] = q]
      /\ table' \in {table, Revoke(table, req[r].tok, req[r].new)}
  BY DEF IInv, TypeOK, RequestsKnow, RefreshRotate, AfterRotate, Successor
<1>2. /\ req[r].tok \in Tokens /\ req[r].new \in Tokens
      /\ req[r].new \in DOMAIN issued /\ issued[req[r].new].parent = req[r].tok
  BY <1>1 DEF Knows, IInv, TypeOK, IsHistory
<1>3. IsTable(table)' /\ TableInv'
  BY <1>1, <1>2, RevokeInv
<1>4. q \in Request /\ q.pc = "reply" /\ Knows(q)
  BY <1>1 DEF Knows, Request, PCs
<1> QED
  BY <1>1, <1>3, <1>4, HandlerStep

(* Logout: Revoke without a successor.                                    *)
LEMMA LogoutRevokeInv ==
  ASSUME IInv, NEW r \in Requests, NEW o \in DBOutcomes, LogoutRevoke(r, o)
  PROVE  IInv'
<1> DEFINE q == [req[r] EXCEPT !.pc = "bye"]
<1>1. /\ req[r] \in Request /\ Knows(req[r])
      /\ req[r].pc = "logout" /\ UNCHANGED <<users, issued, clock>>
      /\ req' = [req EXCEPT ![r] = q]
      /\ table' \in {table, Revoke(table, req[r].tok, NULL)}
  BY DEF IInv, TypeOK, RequestsKnow, LogoutRevoke
<1>2. IsTable(table)' /\ TableInv'
  BY <1>1, RevokeInv DEF Request
<1>3. q \in Request /\ q.pc = "bye" /\ Knows(q)
  BY <1>1 DEF Knows, Request, PCs
<1> QED
  BY <1>1, <1>2, <1>3, HandlerStep

-----------------------------------------------------------------------------
(* The janitor, the clock, the operator, the crash.                        *)

LEMMA CleanupInv ==
  ASSUME IInv, NEW o \in DBOutcomes, NEW before \in 0..clock,
         CleanupExpiredRefreshTokens(o, before)
  PROVE  IInv'
<1>1. UNCHANGED <<users, issued, req, clock>>
  BY DEF CleanupExpiredRefreshTokens
<1>2. /\ IsTable(table') /\ DOMAIN table' \subseteq DOMAIN table
      /\ \A x \in DOMAIN table' : table'[x] = table[x]
      /\ \A x \in DOMAIN table \ DOMAIN table' : table[x].expires < before
  <2>1. CASE table' = table
    BY <2>1 DEF IInv, TypeOK, IsTable
  <2>2. CASE table' = DeleteExpired(table, before)
    <3>1. IsTable(table)
      BY DEF IInv, TypeOK
    <3> QED
      BY <2>2, <3>1, DeleteTable DEF IsTable, Row
  <2> QED
    BY <2>1, <2>2 DEF CleanupExpiredRefreshTokens
<1>3. table' # table => DOMAIN table' = {x \in DOMAIN table : ~(table[x].expires < before)}
  BY DeleteTable DEF CleanupExpiredRefreshTokens, IInv, TypeOK
<1>4. TypeOK'
  BY <1>1, <1>2 DEF IInv, TypeOK, IsTable, IsHistory
<1>5. RowsIssued' /\ GrantsOrdered' /\ Linked'
  BY <1>1, <1>2 DEF IInv, TableInv, RowsIssued, GrantsOrdered, Linked
<1>6. /\ \A x \in DOMAIN issued : issued[x].at \in Nat
      /\ RefreshTTL \in Nat /\ before \in Nat /\ clock \in Nat /\ before <= clock
  BY LifetimeAssumption DEF IInv, TypeOK, IsHistory, Grant
<1>7. IssuedBacked'
  BY <1>1, <1>2, <1>6 DEF IInv, TableInv, IssuedBacked, RowsIssued
<1>8. ForgottenInOrder'
  <2> SUFFICES ASSUME NEW t \in DOMAIN issued, t \notin DOMAIN table',
                      NEW p, p = issued[t].parent, p \in DOMAIN table'
               PROVE  FALSE
    BY <1>1 DEF ForgottenInOrder
  <2>1. p \in DOMAIN table /\ p # NULL
    BY <1>2, NullAssumption DEF IInv, TypeOK, IsTable
  <2>2. t \in DOMAIN table
    BY <2>1 DEF IInv, TableInv, ForgottenInOrder
  <2>3. table' # table
    BY <2>2
  <2>4. table[t].expires < before /\ ~(table[p].expires < before)
    BY <1>3, <2>2, <2>3
  <2>5. issued[p].at <= issued[t].at /\ p \in DOMAIN issued
    BY <2>1 DEF IInv, TableInv, GrantsOrdered
  <2>6. table[t].expires = issued[t].at + RefreshTTL /\ table[p].expires = issued[p].at + RefreshTTL
    BY <2>1, <2>2 DEF IInv, TableInv, RowsIssued
  <2> QED
    BY <1>6, <2>4, <2>5, <2>6
<1>9. RequestsKnow' /\ GrantsBeforeDisabling'
  BY <1>1 DEF IInv, RequestsKnow, Knows, GrantsBeforeDisabling
<1> QED
  BY <1>4, <1>5, <1>7, <1>8, <1>9 DEF IInv, TableInv

(* Time passes: what was in the past stays there.                         *)
LEMMA TickInv ==
  ASSUME IInv, Tick
  PROVE  IInv'
<1>1. UNCHANGED <<table, users, issued, req>> /\ clock' = clock + 1 /\ clock \in Nat
  BY DEF Tick, IInv, TypeOK
<1>2. \A x \in DOMAIN issued : issued[x].at \in Nat
  BY DEF IInv, TypeOK, IsHistory, Grant
<1>3. TypeOK'
  BY <1>1 DEF IInv, TypeOK, IsTable, IsHistory
<1>4. TableInv'
  BY <1>1, <1>2, LifetimeAssumption
  DEF IInv, TableInv, RowsIssued, GrantsOrdered, IssuedBacked, ForgottenInOrder, Linked
<1>5. RequestsKnow' /\ GrantsBeforeDisabling'
  BY <1>1 DEF IInv, RequestsKnow, Knows, GrantsBeforeDisabling
<1> QED
  BY <1>3, <1>4, <1>5 DEF IInv

(* An account is disabled or enabled: every "now" read so far is in the past.*)
LEMMA OperatorInv ==
  ASSUME IInv, NEW u \in Users, DisableUser(u) \/ EnableUser(u)
  PROVE  IInv'
<1>1. UNCHANGED <<table, issued, req, clock>> /\ clock \in Nat
  BY DEF DisableUser, EnableUser, IInv, TypeOK
<1>2. /\ users' \in [Users -> Account]
      /\ \A v \in Users \ {u} : users'[v] = users[v]
      /\ users'[u].active \/ users'[u].since = clock
  BY <1>1 DEF DisableUser, EnableUser, IInv, TypeOK, Account
<1>3. TypeOK'
  BY <1>1, <1>2 DEF IInv, TypeOK, IsTable, IsHistory
<1>4. TableInv' /\ RequestsKnow'
  BY <1>1 DEF IInv, TableInv, RowsIssued, GrantsOrdered, IssuedBacked, ForgottenInOrder, Linked,
              RequestsKnow, Knows
<1>5. GrantsBeforeDisabling'
  <2>1. \A t \in DOMAIN issued : issued[t].user \in Users /\ issued[t].at <= clock
    BY DEF IInv, TypeOK, IsHistory, Grant, TableInv, GrantsOrdered
  <2>2. \A r \in Requests : req[r].pc = "issue" => req[r].user \in Users /\ req[r].now <= clock
    BY DEF IInv, RequestsKnow, Knows
  <2>3. \A v \in Users : ~users'[v].active => users'[v].since \in Nat
    BY <1>1, <1>2 DEF IInv, GrantsBeforeDisabling
  <2>4. ASSUME NEW t \in DOMAIN issued, issued[t].parent # NULL, ~users'[issued[t].user].active
        PROVE  issued[t].at <= users'[issued[t].user].since
    BY <1>2, <2>1, <2>4 DEF IInv, GrantsBeforeDisabling
  <2>5. ASSUME NEW r \in Requests, req[r].pc = "issue", req[r].tok # NULL,
               ~users'[req[r].user].active
        PROVE  req[r].now <= users'[req[r].user].since
    BY <1>2, <2>2, <2>5 DEF IInv, GrantsBeforeDisabling
  <2> QED
    BY <1>1, <2>3, <2>4, <2>5 DEF GrantsBeforeDisabling
<1> QED
  BY <1>3, <1>4, <1>5 DEF IInv

(* All handlers end at once.                                              *)
LEMMA CrashInv ==
  ASSUME IInv, Crash
  PROVE  IInv'
<1>1. UNCHANGED <<table, users, issued, clock>> /\ req' = [r \in Requests |-> Idle]
  BY DEF Crash
<1>2. TypeOK'
  BY <1>1, IdleKnows DEF IInv, TypeOK, IsTable, IsHistory
<1>3. TableInv'
  BY <1>1 DEF IInv, TableInv, RowsIssued, GrantsOrdered, IssuedBacked, ForgottenInOrder, Linked
<1>4. RequestsKnow'
  BY <1>1, IdleKnows DEF RequestsKnow, Knows
<1>5. GrantsBeforeDisabling'
  BY <1>1, IdleKnows DEF IInv, GrantsBeforeDisabling
<1> QED
  BY <1>2, <1>3, <1>4, <1>5 DEF IInv

-----------------------------------------------------------------------------
(* The steps that change the history of grants.                            *)

(* The answer leaves: only whether it was delivered is recorded.          *)
LEMMA ReplyInv ==
  ASSUME IInv, NEW r \in Requests, Reply(r)
  PROVE  IInv'
<1>1. CASE UNCHANGED issued
  BY <1>1, GiveUp DEF Reply
<1>2. CASE req[r].pc = "reply"
  <2>1. req[r].new \in DOMAIN issued
    BY <1>2 DEF IInv, RequestsKnow, Knows
  <2>2. PICK arrives \in BOOLEAN :
          issued' = [issued EXCEPT ![req[r].new].delivered = arrives]
    BY <1>2 DEF Reply
  <2>3. UNCHANGED <<table, users, clock>> /\ req' = [req EXCEPT ![r] = Idle]
    BY DEF Reply
  <2>4. /\ IsHistory(issued')
        /\ DOMAIN issued' = DOMAIN issued
        /\ \A t \in DOMAIN issued : /\ issued'[t].user = issued[t].user
                                    /\ issued'[t].at = issued[t].at
                                    /\ issued'[t].parent = issued[t].parent
    BY <2>1, <2>2 DEF IInv, TypeOK, IsHistory, Grant
  <2>5. \A x \in Requests : req'[x] = Idle \/ req'[x] = req[x]
    BY <2>3 DEF IInv, TypeOK
  <2>6. TypeOK'
    BY <2>3, <2>4, IdleKnows DEF IInv, TypeOK, IsTable, IsHistory
  <2>7. TableInv'
    BY <2>3, <2>4
    DEF IInv, TableInv, RowsIssued, GrantsOrdered, IssuedBacked, ForgottenInOrder, Linked
  <2>8. RequestsKnow'
    <3> SUFFICES ASSUME NEW x \in Requests PROVE Knows(req[x])'
      BY DEF RequestsKnow
    <3>1. Knows(req'[x])
      BY <2>5, IdleKnows DEF IInv, RequestsKnow
    <3> QED
      BY <2>3, <2>4, <3>1 DEF Knows
  <2>9. GrantsBeforeDisabling'
    BY <2>3, <2>4, <2>5, IdleKnows DEF IInv, GrantsBeforeDisabling
  <2> QED
    BY <2>6, <2>7, <2>8, <2>9 DEF IInv
<1> QED
  BY <1>1, <1>2 DEF Reply

(* The one step that makes a grant: it extends its chain forward in time. *)
LEMMA IssueTokensInv ==
  ASSUME IInv, NEW r \in Requests, NEW o \in DBOutcomes, IssueTokens(r, o)
  PROVE  IInv'
<1>1. /\ req[r] \in Request /\ Knows(req[r]) /\ clock \in Nat /\ RefreshTTL \in Nat
      /\ req[r].pc = "issue" /\ UNCHANGED <<users, clock>>
  BY LifetimeAssumption DEF IInv, TypeOK, RequestsKnow, IssueTokens
<1>2. PICK t \in Unissued :
        /\ IF Applied(o)
             THEN /\ table' = Create(table, t, NewRow(req[r].user, IssuedAt(req[r]) + RefreshTTL))
                  /\ issued' = Grow(t, req[r])
             ELSE UNCHANGED <<table, issued>>
        /\ req' = IF Succeeded(o)
                    THEN [req EXCEPT ![r].new = t,
                                     ![r].pc = IF req[r].tok = NULL THEN "reply" ELSE "rotate"]
                    ELSE [req EXCEPT ![r] = Idle]
  BY DEF IssueTokens
<1> DEFINE u == req[r].user
           now == req[r].now
           p == req[r].tok
           q == [req[r] EXCEPT !.new = t, !.pc = IF p = NULL THEN "reply" ELSE "rotate"]
<1>3. CASE ~Applied(o)
  BY <1>1, <1>2, <1>3, GiveUp DEF Applied, Succeeded
<1>4. CASE Applied(o)
  <2>1. /\ u \in Users /\ now \in Nat /\ now <= clock /\ p \in Tokens \cup {NULL}
        /\ p # NULL => p \in DOMAIN issued /\ u = issued[p].user /\ issued[p].at <= now
    BY <1>1 DEF Knows, Request
  <2>2. t \in Tokens /\ t \notin DOMAIN issued /\ t # NULL /\ t # p
    BY <2>1, NullAssumption DEF Unissued
  <2>3. t \notin DOMAIN table
    BY <2>2 DEF IInv, TableInv, RowsIssued
  <2>4. /\ IsTable(table') /\ DOMAIN table' = DOMAIN table \cup {t}
        /\ table'[t].user = u /\ table'[t].expires = now + RefreshTTL
        /\ table'[t].replacedBy = NULL
        /\ \A x \in DOMAIN table : table'[x] = table[x]
    <3> DEFINE row == NewRow(u, now + RefreshTTL)
    <3>1. /\ row \in Row /\ row.user = u /\ row.expires = now + RefreshTTL
          /\ ~IsRevoked(row) /\ row.replacedBy = NULL
      BY <1>1, <2>1 DEF NewRow, Row, IsRevoked
    <3>2. table' = [x \in DOMAIN table \cup {t} |-> IF x = t THEN row ELSE table[x]]
      BY <1>2, <1>4 DEF IssuedAt, Create
    <3>3. DOMAIN table \subseteq Tokens /\ \A x \in DOMAIN table : table[x] \in Row
      BY DEF IInv, TypeOK, IsTable
    <3> HIDE DEF row
    <3> QED
      BY <2>2, <2>3, <3>1, <3>2, <3>3 DEF IsTable
  <2>5. /\ DOMAIN issued' = DOMAIN issued \cup {t}
        /\ issued'[t] = [user |-> u, at |-> now, parent |-> p, delivered |-> FALSE]
        /\ \A x \in DOMAIN issued : issued'[x] = issued[x]
        /\ IsHistory(issued')
    <3>1. issued' = [x \in DOMAIN issued \cup {t} |->
                       IF x = t THEN [user |-> u, at |-> now, parent |-> p, delivered |-> FALSE]
                                ELSE issued[x]]
      BY <1>2, <1>4 DEF Grow, IssuedAt
    <3>2. [user |-> u, at |-> now, parent |-> p, delivered |-> FALSE] \in Grant
      BY <2>1 DEF Grant
    <3>3. DOMAIN issued \subseteq Tokens /\ \A x \in DOMAIN issued : issued[x] \in Grant
      BY DEF IInv, TypeOK, IsHistory
    <3> HIDE DEF u, now, p
    <3> QED
      BY <2>2, <3>1, <3>2, <3>3 DEF IsHistory
  <2>6. req' = [req EXCEPT ![r] = q] \/ req' = [req EXCEPT ![r] = Idle]
    BY <1>2 DEF IInv, TypeOK
  <2>7. /\ q \in Request /\ q.pc \in {"reply", "rotate"} /\ q.new = t /\ q.tok = p
        /\ q.pc = "rotate" => p # NULL
    BY <1>1, <2>2 DEF Request, PCs
  <2> HIDE DEF q
  <2>8. \A x \in Requests : x # r => req'[x] = req[x]
    BY <2>6 DEF IInv, TypeOK
  <2>9. req'[r] = q \/ req'[r] = Idle
    BY <2>6 DEF IInv, TypeOK
  <2>10. TypeOK'
    BY <1>1, <2>4, <2>5, <2>6, <2>7, IdleKnows DEF IInv, TypeOK, IsTable, IsHistory
  <2>11. RowsIssued'
    BY <2>4, <2>5 DEF IInv, TableInv, RowsIssued
  <2>12. GrantsOrdered'
    <3>1. \A x \in DOMAIN issued : issued[x].parent # NULL => issued[x].parent \in DOMAIN issued
      BY DEF IInv, TableInv, GrantsOrdered
    <3> QED
      BY <1>1, <2>1, <2>2, <2>5, <3>1 DEF IInv, TableInv, GrantsOrdered
  <2>13. IssuedBacked'
    BY <1>1, <2>4, <2>5 DEF IInv, TableInv, IssuedBacked
  <2>14. ForgottenInOrder'
    <3>1. \A x \in DOMAIN issued : issued[x].parent # t
      BY <2>2 DEF IInv, TableInv, GrantsOrdered
    <3> QED
      BY <2>4, <2>5, <3>1 DEF IInv, TableInv, ForgottenInOrder
  <2>15. Linked'
    BY <2>2, <2>4, <2>5 DEF IInv, TableInv, Linked
  <2>16. RequestsKnow'
    <3> SUFFICES ASSUME NEW x \in Requests PROVE Knows(req[x])'
      BY DEF RequestsKnow
    <3>1. CASE x # r
      <4>1. Knows(req[x]) /\ req'[x] = req[x]
        BY <2>8, <3>1 DEF IInv, RequestsKnow
      <4> QED
        BY <1>1, <2>5, <4>1 DEF Knows
    <3>2. CASE x = r
      <4>1. CASE req'[r] = Idle
        BY <3>2, <4>1, NullAssumption DEF Knows, Idle
      <4>2. CASE req'[r] = q
        BY <2>1, <2>5, <2>7, <3>2, <4>2 DEF Knows
      <4> QED
        BY <2>9, <4>1, <4>2
    <3> QED
      BY <3>1, <3>2
  <2>17. GrantsBeforeDisabling'
    <3>1. p # NULL /\ ~users[u].active => now <= users[u].since
      BY <1>1 DEF IInv, GrantsBeforeDisabling
    <3>2. req'[r].pc # "issue"
      BY <2>7, <2>9, IdleKnows
    <3> QED
      BY <1>1, <2>5, <2>8, <3>1, <3>2 DEF IInv, GrantsBeforeDisabling
  <2> QED
    BY <2>10, <2>11, <2>12, <2>13, <2>14, <2>15, <2>16, <2>17 DEF IInv, TableInv
<1> QED
  BY <1>3, <1>4

-----------------------------------------------------------------------------
(* The invariant, and what follows from it.                                *)

LEMMA UnchangedInv == IInv /\ UNCHANGED vars => IInv'
<1> SUFFICES ASSUME IInv, UNCHANGED vars PROVE IInv'
  OBVIOUS
<1>1. TypeOK'
  BY DEF IInv, TypeOK, IsTable, IsHistory, vars
<1>2. TableInv'
  BY DEF IInv, TableInv, RowsIssued, GrantsOrdered, IssuedBacked, ForgottenInOrder, Linked, vars
<1>3. RequestsKnow' /\ GrantsBeforeDisabling'
  BY DEF IInv, RequestsKnow, Knows, GrantsBeforeDisabling, vars
<1> QED
  BY <1>1, <1>2, <1>3 DEF IInv

(* Every step keeps the invariant.                                        *)
LEMMA NextInv == IInv /\ [Next]_vars => IInv'
<1> SUFFICES ASSUME IInv, [Next]_vars PROVE IInv'
  OBVIOUS
<1>1. ASSUME NEW r \in Requests, Serve(r) PROVE IInv'
  BY <1>1, LoginVerifyInv, LoginStampInv, IssueTokensInv, RefreshCheckInv, RefreshRevokeAllInv,
     RefreshFindByIDInv, RefreshRotateInv, ReplyInv, LogoutRevokeInv DEF Serve, ServeWith
<1>2. ASSUME NEW r \in Requests, NEW u \in Users, LoginFindByEmail(r, u) PROVE IInv'
  BY <1>2, LoginFindByEmailInv
<1>3. ASSUME NEW r \in Requests, NEW t \in Tokens,
             \/ RefreshFindByHash(r, t)
             \/ \E o \in DBOutcomes : LogoutFindByHash(r, t, o)
      PROVE  IInv'
  BY <1>3, RefreshFindByHashInv, LogoutFindByHashInv
<1>4. ASSUME NEW o \in DBOutcomes, NEW before \in 0..clock,
             CleanupExpiredRefreshTokens(o, before)
      PROVE  IInv'
  BY <1>4, CleanupInv
<1>5. ASSUME NEW u \in Managed, DisableUser(u) \/ EnableUser(u) PROVE IInv'
  BY <1>5, OperatorInv, BoundAssumption
<1>6. CASE Tick
  BY <1>6, TickInv
<1>7. CASE Crash
  BY <1>7, CrashInv
<1>8. CASE UNCHANGED vars
  BY <1>8, UnchangedInv
<1> QED
  BY <1>1, <1>2, <1>3, <1>4, <1>5, <1>6, <1>7, <1>8 DEF Next, Accept

(* The invariant holds throughout.                                        *)
LEMMA Invariance == Spec => []IInv
  BY InitInv, NextInv, PTL DEF Spec

(* The state of AuthService always has its types, whatever fails and       *)
(* however requests interleave.                                            *)
THEOREM TypeCorrect == Spec => []TypeOK
<1>1. IInv => TypeOK
  BY DEF IInv
<1> QED
  BY <1>1, Invariance, PTL

(* replaced_by never dangles and never leaves the user's own chain.        *)
THEOREM ReplacedByStaysIntact == Spec => []ReplacedByIntact
<1>1. IInv => ReplacedByIntact
  <2> SUFFICES ASSUME IInv, NEW t \in DOMAIN table, table[t].replacedBy # NULL
               PROVE  LET s == table[t].replacedBy IN
                        /\ IsRevoked(table[t])
                        /\ s \in DOMAIN table
                        /\ table[s].user = table[t].user
                        /\ s \in DOMAIN issued /\ issued[s].parent = t
    BY DEF ReplacedByIntact
  <2> DEFINE s == table[t].replacedBy
  <2>1. IsRevoked(table[t]) /\ s \in DOMAIN issued /\ issued[s].parent = t
    BY DEF IInv, TableInv, Linked
  <2>2. s \in DOMAIN table
    BY <2>1 DEF IInv, TableInv, ForgottenInOrder
  <2>3. t # NULL
    BY NullAssumption DEF IInv, TypeOK, IsTable
  <2>4. table[s].user = table[t].user
    BY <2>1, <2>2, <2>3 DEF IInv, TableInv, GrantsOrdered, RowsIssued
  <2> QED
    BY <2>1, <2>2, <2>4
<1> QED
  BY <1>1, Invariance, PTL

(* No row is lost before the lifetime of its token is over.                *)
THEOREM IssuedStaysBacked == Spec => []IssuedBacked
<1>1. IInv => IssuedBacked
  BY DEF IInv, TableInv
<1> QED
  BY <1>1, Invariance, PTL

(* A disabled account's refreshed access tokens are dead one lifetime      *)
(* after the account was disabled, whenever the requests were accepted.    *)
THEOREM DisabledUsersLoseAccess == Spec => []DisabledUserLosesAccess
<1>1. IInv => DisabledUserLosesAccess
  <2> SUFFICES ASSUME IInv, NEW t \in DOMAIN issued, issued[t].parent # NULL,
                      ~users[issued[t].user].active,
                      clock >= users[issued[t].user].since + AccessTTL
               PROVE  ~VerifyAccessToken(t)
    BY DEF DisabledUserLosesAccess
  <2>1. issued[t].at <= users[issued[t].user].since
    BY DEF IInv, GrantsBeforeDisabling
  <2>2. issued[t].user \in Users /\ issued[t].at \in Nat /\ clock \in Nat
    BY DEF IInv, TypeOK, IsHistory, Grant
  <2>3. users[issued[t].user].since \in Nat
    BY <2>2 DEF IInv, GrantsBeforeDisabling
  <2> QED
    BY <2>1, <2>2, <2>3, LifetimeAssumption DEF VerifyAccessToken
<1> QED
  BY <1>1, Invariance, PTL
=============================================================================
