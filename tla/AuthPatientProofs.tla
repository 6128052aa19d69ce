------------------------- MODULE AuthPatientProofs -------------------------
(***************************************************************************)
(* Proofs of what AuthService only promises under a condition: when every  *)
(* account's client waits for its answers (PatientSpec), when the database *)
(* answers (DBOutcomes = {"ok"}), or both.  The runs that refute the same  *)
(* properties without the condition show that it is needed.                *)
(*                                                                         *)
(* A refresh judges a row it has read, at a later moment.  What makes that *)
(* judgement last until the rotation is that every step that revokes a row *)
(* is a step of a request of the row's account, and that there is no other *)
(* such request: Current says so of the local variables, and holds however *)
(* many requests of other accounts, sweeps and crashes come in between.    *)
(***************************************************************************)
EXTENDS AuthServiceProofs

(* The row a refresh has judged is still what it was judged to be; and a   *)
(* request that is about to revoke does so in the account of its token.    *)
Current(q) ==
  /\ q.pc \in {"check", "owner", "issue", "rotate"} /\ q.tok \in DOMAIN table
       /\ IsRevoked(table[q.tok]) => q.pc = "check" /\ IsRevoked(q.row)
  /\ q.pc \in {"replay", "disabled", "logout"} => q.tok \in DOMAIN issued
  /\ q.pc \in {"replay", "disabled"} => q.user = issued[q.tok].user

PatientInv == OneAtATime /\ \A r \in Requests : Current(req[r])

(* A step of request r, seen from the others: rows of other accounts are   *)
(* not revoked, and only new tokens get new rows.                          *)
Minds(r) ==
  /\ \A s \in Requests \ {r} : req'[s] = req[s]
  /\ \A x \in DOMAIN issued : x \in DOMAIN issued' /\ issued'[x].user = issued[x].user
  /\ \A x \in DOMAIN table' \cap DOMAIN issued :
       /\ x \in DOMAIN table
       /\ IsRevoked(table'[x]) =>
            \/ IsRevoked(table[x])
            \/ req[r].pc # "idle" /\ AccountOf(req[r]) = issued[x].user

-----------------------------------------------------------------------------
(* A slot that serves nothing has judged nothing.                          *)
LEMMA IdleCurrent == Current(Idle) /\ Current(Idle)'
  BY DEF Current, Idle

(* Steps that change only the local variables of one request.              *)
LEMMA LocalMinds ==
  ASSUME IInv, NEW r \in Requests, UNCHANGED <<table, issued>>,
         \A s \in Requests \ {r} : req'[s] = req[s]
  PROVE  Minds(r)
  BY DEF Minds, IInv, TableInv, RowsIssued

(* Another request keeps what it knows.                                    *)
LEMMA OthersCurrent ==
  ASSUME IInv, PatientInv, NEW r \in Requests, Minds(r), NEW s \in Requests \ {r},
         IsTable(table')
  PROVE  Current(req[s])'
<1> DEFINE q == req[s]
<1>1. Knows(q) /\ Current(q) /\ req'[s] = q /\ q.tok \in Tokens \cup {NULL}
  BY DEF IInv, TypeOK, RequestsKnow, PatientInv, Minds, Request
<1>2. ASSUME q.pc \in {"check", "owner", "issue", "rotate"}, q.tok \in DOMAIN table',
             IsRevoked(table'[q.tok])
      PROVE  q.pc = "check" /\ IsRevoked(q.row)
  <2>1. q.tok # NULL
    BY <1>2, NullAssumption DEF IsTable
  <2>2. q.tok \in DOMAIN issued
    BY <1>1, <2>1 DEF Knows
  <2>3. ~(req[r].pc # "idle" /\ AccountOf(req[r]) = issued[q.tok].user)
    <3>1. AccountOf(q) = issued[q.tok].user
      BY <2>1 DEF AccountOf
    <3>2. q.pc # "idle" /\ s # r
      BY <1>2
    <3> QED
      BY <3>1, <3>2 DEF PatientInv, OneAtATime
  <2>4. q.tok \in DOMAIN table /\ IsRevoked(table[q.tok])
    BY <1>2, <2>2, <2>3 DEF Minds
  <2> QED
    BY <1>1, <1>2, <2>4 DEF Current
<1>3. q.pc \in {"replay", "disabled", "logout"} => q.tok \in DOMAIN issued'
  BY <1>1 DEF Current, Minds
<1>4. q.pc \in {"replay", "disabled"} => q.user = issued'[q.tok].user
  BY <1>1 DEF Current, Minds
<1> QED
  BY <1>1, <1>2, <1>3, <1>4 DEF Current

-----------------------------------------------------------------------------
(* Each step of a request, for itself and for the others.                  *)

(* Logins present no token.                                                *)
LEMMA LoginCurrent ==
  ASSUME IInv, NEW r \in Requests,
         \/ \E u \in Users : LoginFindByEmail(r, u)
         \/ LoginVerify(r)
         \/ \E o \in DBOutcomes : LoginStamp(r, o)
  PROVE  Minds(r) /\ Current(req[r])'
<1>1. /\ req[r] \in Request /\ Knows(req[r]) /\ req \in [Requests -> Request]
      /\ req[r].pc \in {"idle", "verify", "stamp"} /\ UNCHANGED <<table, issued>>
  BY DEF IInv, TypeOK, RequestsKnow, LoginFindByEmail, LoginVerify, LoginStamp
<1>2. req[r].tok = NULL /\ NULL \notin DOMAIN table
  BY <1>1, NullAssumption DEF Knows, IInv, TypeOK, IsTable
<1>3. /\ \A s \in Requests \ {r} : req'[s] = req[s]
      /\ \/ req'[r] = Idle
         \/ req'[r].tok = NULL /\ req'[r].pc \in {"verify", "stamp", "issue"}
  BY <1>1, <1>2 DEF LoginFindByEmail, LoginVerify, LoginStamp, Request
<1>4. Minds(r)
  BY <1>1, <1>3, LocalMinds
<1>5. Current(req'[r])
  BY <1>2, <1>3, IdleCurrent DEF Current
<1> QED
  BY <1>1, <1>4, <1>5 DEF Current

(* The row that is read is the row as it is.                               *)
LEMMA RefreshFindByHashCurrent ==
  ASSUME IInv, NEW r \in Requests, NEW t \in Tokens, RefreshFindByHash(r, t)
  PROVE  Minds(r) /\ Current(req[r])'
<1>1. req[r] \in Request /\ req \in [Requests -> Request] /\ UNCHANGED <<table, issued>>
  BY DEF IInv, TypeOK, RefreshFindByHash
<1>2. /\ \A s \in Requests \ {r} : req'[s] = req[s]
      /\ req'[r].pc = "check" /\ req'[r].tok = t /\ req'[r].row = table[t]
  BY <1>1 DEF RefreshFindByHash, Request
<1>3. Minds(r)
  BY <1>1, <1>2, LocalMinds
<1>4. Current(req[r])'
  BY <1>1, <1>2 DEF Current
<1> QED
  BY <1>3, <1>4

(* A row that was active when it was read is so when it is judged.         *)
LEMMA RefreshCheckCurrent ==
  ASSUME IInv, NEW r \in Requests, Current(req[r]), RefreshCheck(r)
  PROVE  Minds(r) /\ Current(req[r])'
<1>1. /\ req[r] \in Request /\ Knows(req[r]) /\ req \in [Requests -> Request]
      /\ req[r].pc = "check" /\ UNCHANGED <<table, issued>>
  BY DEF IInv, TypeOK, RequestsKnow, RefreshCheck
<1>2. req[r].tok \in DOMAIN issued /\ req[r].user = issued[req[r].tok].user
  BY <1>1 DEF Knows
<1>3. /\ \A s \in Requests \ {r} : req'[s] = req[s]
      /\ \/ req'[r] = Idle
         \/ /\ req'[r].tok = req[r].tok /\ req'[r].user = req[r].user
            /\ \/ req'[r].pc = "replay"
               \/ req'[r].pc = "owner" /\ ~IsRevoked(req[r].row)
  BY <1>1 DEF RefreshCheck, IsActive, Request
<1>4. Minds(r)
  BY <1>1, <1>3, LocalMinds
<1>5. Current(req[r])'
  <2>1. CASE req'[r] = Idle
    BY <2>1, IdleCurrent
  <2>2. CASE req'[r] # Idle
    BY <1>1, <1>2, <1>3, <2>2 DEF Current
  <2> QED
    BY <2>1, <2>2
<1> QED
  BY <1>4, <1>5

(* The account is read; the judgement stands.                              *)
LEMMA RefreshFindByIDCurrent ==
  ASSUME IInv, NEW r \in Requests, Current(req[r]), NEW o \in DBOutcomes, RefreshFindByID(r, o)
  PROVE  Minds(r) /\ Current(req[r])'
<1>1. /\ req[r] \in Request /\ Knows(req[r]) /\ req \in [Requests -> Request]
      /\ req[r].pc = "owner" /\ UNCHANGED <<table, issued>>
  BY DEF IInv, TypeOK, RequestsKnow, RefreshFindByID
<1>2. req[r].tok \in DOMAIN issued /\ req[r].user = issued[req[r].tok].user
  BY <1>1 DEF Knows
<1>3. /\ \A s \in Requests \ {r} : req'[s] = req[s]
      /\ \/ req'[r] = Idle
         \/ /\ req'[r].tok = req[r].tok /\ req'[r].user = req[r].user
            /\ req'[r].pc \in {"issue", "disabled"}
  BY <1>1 DEF RefreshFindByID, Request
<1>4. Minds(r)
  BY <1>1, <1>3, LocalMinds
<1>5. Current(req[r])'
  <2>1. CASE req'[r] = Idle
    BY <2>1, IdleCurrent
  <2>2. CASE req'[r] # Idle
    BY <1>1, <1>2, <1>3, <2>2 DEF Current
  <2> QED
    BY <2>1, <2>2
<1> QED
  BY <1>4, <1>5

(* The old row is still active when its successor is inserted.             *)
LEMMA IssueTokensCurrent ==
  ASSUME IInv, NEW r \in Requests, Current(req[r]), NEW o \in DBOutcomes, IssueTokens(r, o)
  PROVE  Minds(r) /\ Current(req[r])'
<1>1. /\ req[r] \in Request /\ Knows(req[r]) /\ req \in [Requests -> Request]
      /\ req[r].pc = "issue"
      /\ DOMAIN table \subseteq DOMAIN issued
  BY DEF IInv, TypeOK, RequestsKnow, IssueTokens, TableInv, RowsIssued
<1>2. PICK t \in Unissued :
        /\ \/ UNCHANGED <<table, issued>>
           \/ /\ table' = Create(table, t, NewRow(req[r].user, IssuedAt(req[r]) + RefreshTTL))
              /\ issued' = Grow(t, req[r])
        /\ req' = IF Succeeded(o)
                    THEN [req EXCEPT ![r].new = t,
                                     ![r].pc = IF req[r].tok = NULL THEN "reply" ELSE "rotate"]
                    ELSE [req EXCEPT ![r] = Idle]
  BY DEF IssueTokens
<1>3. t \notin DOMAIN issued
  BY DEF Unissued
<1>4. /\ DOMAIN issued \subseteq DOMAIN issued'
      /\ \A x \in DOMAIN issued : issued'[x] = issued[x]
      /\ \A x \in DOMAIN table' \cap DOMAIN issued : x \in DOMAIN table /\ table'[x] = table[x]
  BY <1>2, <1>3 DEF Grow, Create
<1>5. /\ \A s \in Requests \ {r} : req'[s] = req[s]
      /\ \/ req'[r] = Idle
         \/ req'[r].tok = req[r].tok /\ req'[r].pc \in {"reply", "rotate"}
  BY <1>1, <1>2 DEF Request
<1>6. Minds(r)
  BY <1>4, <1>5 DEF Minds
<1>7. Current(req[r])'
  <2>1. CASE req'[r] = Idle
    BY <2>1, IdleCurrent
  <2>2. CASE req'[r].tok = req[r].tok /\ req'[r].pc \in {"reply", "rotate"}
    <3>1. CASE req[r].tok = NULL
      <4>1. req'[r].pc = "reply"
        BY <1>1, <1>2, <2>2, <3>1, IdleKnows DEF Request, Idle
      <4> QED
        BY <4>1 DEF Current
    <3>2. CASE req[r].tok # NULL
      <4>1. req[r].tok \in DOMAIN issued
        BY <1>1, <3>2 DEF Knows
      <4> QED
        BY <1>1, <1>4, <2>2, <4>1 DEF Current
    <3> QED
      BY <3>1, <3>2
  <2> QED
    BY <1>5, <2>1, <2>2
<1> QED
  BY <1>6, <1>7

(* Rows are revoked in the account the request speaks for.                 *)
LEMMA RefreshRevokeAllCurrent ==
  ASSUME IInv, NEW r \in Requests, Current(req[r]), NEW o \in DBOutcomes, RefreshRevokeAll(r, o)
  PROVE  Minds(r) /\ Current(req[r])'
<1>1. /\ IsTable(table) /\ req \in [Requests -> Request]
      /\ req[r].pc \in {"replay", "disabled"} /\ UNCHANGED issued
      /\ req' = [req EXCEPT ![r] = Idle]
      /\ table' \in {table, RevokeAllForUser(table, req[r].user)}
  BY DEF IInv, TypeOK, RefreshRevokeAll
<1>2. AccountOf(req[r]) = req[r].user
  BY <1>1 DEF Current, AccountOf
<1>3. /\ DOMAIN table' = DOMAIN table
      /\ \A x \in DOMAIN table :
           IsRevoked(table'[x]) => IsRevoked(table[x]) \/ table[x].user = req[r].user
  <2>1. CASE table' = table
    BY <2>1
  <2>2. CASE table' = RevokeAllForUser(table, req[r].user)
    BY <1>1, <2>2, RevokeAllTable DEF IsRevoked
  <2> QED
    BY <1>1, <2>1, <2>2
<1>4. \A x \in DOMAIN table : table[x].user = issued[x].user
  BY DEF IInv, TableInv, RowsIssued
<1>5. Minds(r)
  BY <1>1, <1>2, <1>3, <1>4 DEF Minds
<1>6. Current(req[r])'
  BY <1>1, IdleCurrent
<1> QED
  BY <1>5, <1>6

(* A rotation or a logout revokes the row of its own token.                *)
LEMMA RevokeCurrent ==
  ASSUME IInv, NEW r \in Requests, Current(req[r]), NEW o \in DBOutcomes,
         RefreshRotate(r, o) \/ LogoutRevoke(r, o)
  PROVE  Minds(r) /\ Current(req[r])'
<1>1. /\ IsTable(table) /\ req \in [Requests -> Request] /\ req[r] \in Request
      /\ Knows(req[r]) /\ req[r].pc \in {"rotate", "logout"} /\ UNCHANGED issued
  BY DEF IInv, TypeOK, RequestsKnow, RefreshRotate, LogoutRevoke
<1>2. /\ \A s \in Requests \ {r} : req'[s] = req[s]
      /\ req'[r].pc \in {"reply", "bye"}
  BY <1>1 DEF RefreshRotate, LogoutRevoke, AfterRotate, Request
<1>3. PICK s \in Tokens \cup {NULL} : table' \in {table, Revoke(table, req[r].tok, s)}
  BY <1>1 DEF RefreshRotate, LogoutRevoke, Successor, Request
<1>4. req[r].tok # NULL
  BY <1>1, NullAssumption DEF Knows, Current, IInv, TypeOK, IsHistory
<1>5. AccountOf(req[r]) = issued[req[r].tok].user
  BY <1>4 DEF AccountOf
<1>6. /\ DOMAIN table' = DOMAIN table
      /\ \A x \in DOMAIN table : x # req[r].tok => table'[x] = table[x]
  BY <1>1, <1>3, RevokeTable
<1>7. Minds(r)
  BY <1>1, <1>2, <1>5, <1>6 DEF Minds
<1>8. Current(req[r])'
  BY <1>2 DEF Current
<1> QED
  BY <1>7, <1>8

(* The token of a logout was issued.                                       *)
LEMMA LogoutFindByHashCurrent ==
  ASSUME IInv, NEW r \in Requests, NEW t \in Tokens, NEW o \in DBOutcomes,
         LogoutFindByHash(r, t, o)
  PROVE  Minds(r) /\ Current(req[r])'
<1>1. /\ req[r] \in Request /\ req \in [Requests -> Request] /\ UNCHANGED <<table, issued>>
      /\ t \in DOMAIN issued
  BY DEF IInv, TypeOK, LogoutFindByHash, Held
<1>2. /\ \A s \in Requests \ {r} : req'[s] = req[s]
      /\ req'[r].tok = t /\ req'[r].pc \in {"bye", "logout"}
  BY <1>1 DEF LogoutFindByHash, Request
<1>3. Minds(r)
  BY <1>1, <1>2, LocalMinds
<1>4. Current(req[r])'
  BY <1>1, <1>2 DEF Current
<1> QED
  BY <1>3, <1>4

(* An answer only tells the client what was done.                          *)
LEMMA ReplyCurrent ==
  ASSUME IInv, NEW r \in Requests, Reply(r)
  PROVE  Minds(r) /\ Current(req[r])'
<1>1. /\ req \in [Requests -> Request] /\ UNCHANGED table
      /\ req' = [req EXCEPT ![r] = Idle]
      /\ DOMAIN issued' = DOMAIN issued
      /\ \A x \in DOMAIN issued : issued'[x].user = issued[x].user
  BY DEF IInv, TypeOK, IsHistory, Grant, Reply
<1>2. Minds(r)
  BY <1>1 DEF Minds, IInv, TableInv, RowsIssued
<1>3. Current(req[r])'
  BY <1>1, IdleCurrent
<1> QED
  BY <1>2, <1>3

-----------------------------------------------------------------------------
(* All steps of one request, and then those of the system.                 *)

LEMMA RequestCurrent ==
  ASSUME IInv, PatientInv, NEW r \in Requests,
         \/ \E u \in Users : LoginFindByEmail(r, u)
         \/ \E t \in Tokens : RefreshFindByHash(r, t)
         \/ \E t \in Tokens, o \in DBOutcomes : LogoutFindByHash(r, t, o)
         \/ Serve(r)
  PROVE  Minds(r) /\ Current(req[r])'
<1>1. Current(req[r])
  BY DEF PatientInv
<1>2. CASE Serve(r)
  BY <1>1, <1>2, LoginCurrent, RefreshCheckCurrent, ReplyCurrent, IssueTokensCurrent,
     RefreshRevokeAllCurrent, RefreshFindByIDCurrent, RevokeCurrent DEF Serve, ServeWith
<1> QED
  BY <1>2, LoginCurrent, RefreshFindByHashCurrent, LogoutFindByHashCurrent

(* Sweeps, operators and time leave what requests know alone.              *)
LEMMA EnvironmentCurrent ==
  ASSUME IInv, PatientInv, NEW r \in Requests,
         \/ \E o \in DBOutcomes, before \in 0..clock : CleanupExpiredRefreshTokens(o, before)
         \/ \E u \in Managed : DisableUser(u) \/ EnableUser(u)
         \/ Tick \/ Crash \/ UNCHANGED vars
  PROVE  Current(req[r])'
<1>1. /\ IsTable(table) /\ Current(req[r]) /\ UNCHANGED issued
      /\ req'[r] \in {req[r], Idle}
  BY DEF IInv, TypeOK, PatientInv, CleanupExpiredRefreshTokens, DisableUser, EnableUser,
         Tick, Crash, vars
<1>2. \A x \in DOMAIN table' : x \in DOMAIN table /\ table'[x] = table[x]
  <2>1. ASSUME NEW o \in DBOutcomes, NEW before \in 0..clock,
               CleanupExpiredRefreshTokens(o, before)
        PROVE  \A x \in DOMAIN table' : x \in DOMAIN table /\ table'[x] = table[x]
    BY <1>1, <2>1, DeleteTable DEF CleanupExpiredRefreshTokens
  <2> QED
    BY <2>1 DEF DisableUser, EnableUser, Tick, Crash, vars
<1>3. CASE req'[r] = req[r]
  BY <1>1, <1>2, <1>3 DEF Current
<1>4. CASE req'[r] = Idle
  BY <1>4, IdleCurrent
<1> QED
  BY <1>1, <1>3, <1>4

LEMMA PatientNext == IInv /\ PatientInv /\ [Next /\ OneAtATime']_vars => PatientInv'
<1> SUFFICES ASSUME IInv, PatientInv, [Next /\ OneAtATime']_vars PROVE PatientInv'
  OBVIOUS
<1>1. OneAtATime'
  <2>1. CASE UNCHANGED vars
    BY <2>1 DEF vars, PatientInv, OneAtATime, AccountOf
  <2> QED
    BY <2>1
<1>2. IInv'
  BY NextInv
<1>3. IsTable(table')
  BY <1>2 DEF IInv, TypeOK, IsTable
<1>4. ASSUME NEW s \in Requests PROVE Current(req[s])'
  <2>1. ASSUME NEW r \in Requests, Minds(r), Current(req[r])' PROVE Current(req[s])'
    <3>1. CASE s = r
      BY <2>1, <3>1
    <3>2. CASE s # r
      BY <1>3, <2>1, <3>2, OthersCurrent
    <3> QED
      BY <3>1, <3>2
  <2> QED
    BY <2>1, RequestCurrent, EnvironmentCurrent DEF Next, Accept
<1> QED
  BY <1>1, <1>4 DEF PatientInv

(* At first every slot is idle.                                            *)
LEMMA PatientInit == Init => PatientInv
  BY IdleCurrent DEF Init, PatientInv, OneAtATime, Idle

LEMMA PatientInvariance == PatientSpec => [](IInv /\ PatientInv)
<1>1. Init => IInv /\ PatientInv
  BY InitInv, PatientInit
<1>2. IInv /\ PatientInv /\ [Next /\ OneAtATime']_vars => (IInv /\ PatientInv)'
  BY NextInv, PatientNext
<1> QED
  BY <1>1, <1>2, PTL DEF PatientSpec

(* A revoked token is never accepted, whatever fails and crashes, as long  *)
(* as every account's client waits for its answers: the verdict of Refresh *)
(* on a row lasts until it has inserted the successor.                     *)
THEOREM RevokedIsNeverAccepted == PatientSpec => RevokedNeverAccepted
<1> DEFINE Fair == \A t \in DOMAIN issued' \ DOMAIN issued :
                     LET p == issued'[t].parent IN
                       p # NULL /\ p \in DOMAIN table => ~IsRevoked(table[p])
<1>1. IInv /\ PatientInv /\ [Next /\ OneAtATime']_vars => [Fair]_vars
  <2> SUFFICES ASSUME IInv, PatientInv, Next, NEW t \in DOMAIN issued' \ DOMAIN issued,
                      issued'[t].parent # NULL, issued'[t].parent \in DOMAIN table
               PROVE  ~IsRevoked(table[issued'[t].parent])
    OBVIOUS
  <2>1. PICK r \in Requests, o \in DBOutcomes : IssueTokens(r, o)
    <3>1. DOMAIN issued' # DOMAIN issued
      OBVIOUS
    <3> QED
      BY <3>1
      DEF Next, Accept, LoginFindByEmail, RefreshFindByHash, LogoutFindByHash, Serve, ServeWith,
          LoginVerify, RefreshCheck, Reply, LoginStamp, RefreshRevokeAll, RefreshFindByID,
          RefreshRotate, LogoutRevoke, CleanupExpiredRefreshTokens, DisableUser, EnableUser,
          Tick, Crash
  <2>2. issued'[t].parent = req[r].tok
    BY <2>1 DEF IssueTokens, Grow
  <2>3. Current(req[r]) /\ req[r].pc = "issue"
    BY <2>1 DEF PatientInv, IssueTokens
  <2> QED
    BY <2>2, <2>3 DEF Current
<1> QED
  BY <1>1, PatientInvariance, PTL DEF PatientSpec, RevokedNeverAccepted

-----------------------------------------------------------------------------
(* While the database answers.                                             *)

DatabaseAnswers == DBOutcomes = {"ok"}

(* An answer is delivered or lost; nothing else about a grant changes.     *)
LEMMA ReplyGrants ==
  ASSUME IInv, NEW r \in Requests, Reply(r)
  PROVE  /\ DOMAIN issued' = DOMAIN issued
         /\ \A x \in DOMAIN issued :
              /\ issued'[x].parent = issued[x].parent
              /\ issued'[x].delivered =>
                   \/ issued[x].delivered
                   \/ req[r].pc = "reply" /\ x = req[r].new
<1>1. CASE UNCHANGED issued
  BY <1>1
<1>2. CASE req[r].pc = "reply"
  <2>1. PICK arrives \in BOOLEAN :
          issued' = [issued EXCEPT ![req[r].new].delivered = arrives]
    BY <1>2 DEF Reply
  <2> QED
    BY <1>2, <2>1 DEF IInv, TypeOK, IsHistory, Grant
<1> QED
  BY <1>1, <1>2 DEF Reply

(* What a step may do to a row that is revoked, and to a grant.            *)
LEMMA RevokedForGood ==
  ASSUME IInv, [Next]_vars
  PROVE  /\ \A x \in DOMAIN issued :
              x \in DOMAIN issued' /\ issued'[x].parent = issued[x].parent
         /\ \A x \in DOMAIN table' \cap DOMAIN issued :
              /\ x \in DOMAIN table
              /\ IsRevoked(table[x]) =>
                   IsRevoked(table'[x]) /\ table'[x].replacedBy = table[x].replacedBy
<1> DEFINE Goal == /\ \A x \in DOMAIN issued :
                        x \in DOMAIN issued' /\ issued'[x].parent = issued[x].parent
                   /\ \A x \in DOMAIN table' \cap DOMAIN issued :
                        /\ x \in DOMAIN table
                        /\ IsRevoked(table[x]) =>
                             IsRevoked(table'[x]) /\ table'[x].replacedBy = table[x].replacedBy
<1>1. IsTable(table) /\ DOMAIN table \subseteq DOMAIN issued /\ IsHistory(issued)
  BY DEF IInv, TypeOK, TableInv, RowsIssued
<1>2. CASE UNCHANGED <<table, issued>>
  BY <1>1, <1>2
<1>3. ASSUME NEW r \in Requests, NEW o \in DBOutcomes, IssueTokens(r, o) PROVE Goal
  <2>1. PICK t \in Unissued :
          \/ UNCHANGED <<table, issued>>
          \/ /\ table' = Create(table, t, NewRow(req[r].user, IssuedAt(req[r]) + RefreshTTL))
             /\ issued' = Grow(t, req[r])
    BY <1>3 DEF IssueTokens
  <2> QED
    BY <1>1, <1>2, <2>1 DEF Unissued, Create, Grow
<1>4. ASSUME NEW r \in Requests, NEW o \in DBOutcomes, RefreshRevokeAll(r, o) PROVE Goal
  <2>1. UNCHANGED issued /\ table' \in {table, RevokeAllForUser(table, req[r].user)}
    BY <1>4 DEF RefreshRevokeAll
  <2>2. CASE table' = RevokeAllForUser(table, req[r].user)
    BY <1>1, <2>1, <2>2, RevokeAllTable DEF IsRevoked
  <2> QED
    BY <1>2, <2>1, <2>2
<1>5. ASSUME NEW r \in Requests, NEW o \in DBOutcomes,
             RefreshRotate(r, o) \/ LogoutRevoke(r, o)
      PROVE  Goal
  <2>1. req[r] \in Request
    BY DEF IInv, TypeOK
  <2>2. PICK t \in Tokens \cup {NULL} : table' \in {table, Revoke(table, req[r].tok, t)}
    BY <1>5, <2>1 DEF RefreshRotate, LogoutRevoke, Successor, Request
  <2>3. UNCHANGED issued
    BY <1>5 DEF RefreshRotate, LogoutRevoke
  <2>4. CASE table' = Revoke(table, req[r].tok, t)
    BY <1>1, <2>3, <2>4, RevokeTable
  <2> QED
    BY <1>2, <2>2, <2>3, <2>4
<1>6. ASSUME NEW o \in DBOutcomes, NEW before \in 0..clock,
             CleanupExpiredRefreshTokens(o, before)
      PROVE  Goal
  <2>1. UNCHANGED issued /\ table' \in {table, DeleteExpired(table, before)}
    BY <1>6 DEF CleanupExpiredRefreshTokens
  <2>2. CASE table' = DeleteExpired(table, before)
    <3>1. \A x \in DOMAIN table' : x \in DOMAIN table /\ table'[x] = table[x]
      BY <1>1, <2>2, DeleteTable
    <3> QED
      BY <2>1, <3>1
  <2> QED
    BY <1>2, <2>1, <2>2
<1>7. ASSUME NEW r \in Requests, Reply(r) PROVE Goal
  BY <1>1, <1>7, ReplyGrants DEF Reply
<1>8. \/ UNCHANGED <<table, issued>>
      \/ \E r \in Requests : Reply(r)
      \/ \E r \in Requests, o \in DBOutcomes :
           \/ IssueTokens(r, o) \/ RefreshRevokeAll(r, o)
           \/ RefreshRotate(r, o) \/ LogoutRevoke(r, o)
      \/ \E o \in DBOutcomes, before \in 0..clock : CleanupExpiredRefreshTokens(o, before)
  BY DEF Next, Accept, LoginFindByEmail, RefreshFindByHash, LogoutFindByHash, Serve, ServeWith,
         LoginVerify, RefreshCheck, LoginStamp, RefreshFindByID, DisableUser, EnableUser,
         Tick, Crash, vars
<1> QED
  BY <1>2, <1>3, <1>4, <1>5, <1>6, <1>7, <1>8

(* A request changes by a step of its own, and few of these come to an     *)
(* answer.                                                                 *)
LEMMA OwnStep ==
  ASSUME IInv, [Next]_vars, NEW r \in Requests
  PROVE  \/ req'[r] \in {req[r], Idle}
         \/ req'[r].pc \notin {"bye", "reply"}
         \/ \E t \in Tokens, o \in DBOutcomes : LogoutFindByHash(r, t, o)
         \/ \E o \in DBOutcomes :
              IssueTokens(r, o) \/ RefreshRotate(r, o) \/ LogoutRevoke(r, o)
<1>1. req \in [Requests -> Request] /\ req[r] \in Request
  BY DEF IInv, TypeOK
<1>2. ASSUME NEW s \in Requests \ {r},
             \/ \E u \in Users : LoginFindByEmail(s, u)
             \/ \E t \in Tokens : RefreshFindByHash(s, t)
             \/ \E t \in Tokens, o \in DBOutcomes : LogoutFindByHash(s, t, o)
             \/ Serve(s)
      PROVE  req'[r] = req[r]
  <2>1. CASE Serve(s)
    BY <1>1, <2>1
    DEF Serve, ServeWith, LoginVerify, RefreshCheck, Reply, LoginStamp, IssueTokens,
        RefreshRevokeAll, RefreshFindByID, RefreshRotate, LogoutRevoke
  <2> QED
    BY <1>1, <1>2, <2>1 DEF LoginFindByEmail, RefreshFindByHash, LogoutFindByHash
<1>3. CASE \/ \E o \in DBOutcomes, before \in 0..clock : CleanupExpiredRefreshTokens(o, before)
           \/ \E u \in Managed : DisableUser(u) \/ EnableUser(u)
           \/ Tick \/ Crash \/ UNCHANGED vars
  BY <1>3 DEF CleanupExpiredRefreshTokens, DisableUser, EnableUser, Tick, Crash, vars
<1>4. ASSUME NEW u \in Users, LoginFindByEmail(r, u) PROVE req'[r].pc = "verify"
  BY <1>1, <1>4 DEF LoginFindByEmail, Request
<1>5. ASSUME NEW t \in Tokens, RefreshFindByHash(r, t) PROVE req'[r].pc = "check"
  BY <1>1, <1>5 DEF RefreshFindByHash, Request
<1>6. ASSUME LoginVerify(r) \/ RefreshCheck(r) \/ Reply(r)
      PROVE  req'[r] = Idle \/ req'[r].pc \in {"stamp", "replay", "owner"}
  BY <1>1, <1>6 DEF LoginVerify, RefreshCheck, Reply, Request
<1>7. ASSUME NEW o \in DBOutcomes,
             LoginStamp(r, o) \/ RefreshRevokeAll(r, o) \/ RefreshFindByID(r, o)
      PROVE  req'[r] = Idle \/ req'[r].pc \in {"issue", "disabled"}
  BY <1>1, <1>7 DEF LoginStamp, RefreshRevokeAll, RefreshFindByID, Request
<1>8. CASE Serve(r)
  BY <1>6, <1>7, <1>8 DEF Serve, ServeWith
<1> QED
  BY <1>2, <1>3, <1>4, <1>5, <1>8 DEF Next, Accept

(* A logout that was answered has revoked its token, or found it revoked   *)
(* or gone, whatever the other requests, the janitor and crashes do.       *)
THEOREM LogoutsRevoke == ASSUME DatabaseAnswers PROVE Spec => []LogoutRevokes
<1>1. Init => LogoutRevokes
  BY DEF Init, LogoutRevokes, Idle
<1>2. IInv /\ LogoutRevokes /\ [Next]_vars => LogoutRevokes'
  <2> SUFFICES ASSUME IInv, LogoutRevokes, [Next]_vars, NEW r \in Requests,
                      req'[r].pc = "bye", req'[r].tok \in DOMAIN table'
               PROVE  IsRevoked(table'[req'[r].tok])
    BY DEF LogoutRevokes
  <2>1. /\ req \in [Requests -> Request] /\ Knows(req[r])
        /\ IsTable(table) /\ NULL \notin DOMAIN table'
    <3>1. IInv'
      BY NextInv
    <3> QED
      BY <3>1, NullAssumption DEF IInv, TypeOK, IsTable, RequestsKnow
  <2>2. CASE req'[r] = req[r]
    <3>1. req[r].tok \in DOMAIN issued
      BY <2>1, <2>2 DEF Knows
    <3> QED
      BY <2>2, <3>1, RevokedForGood DEF LogoutRevokes
  <2>3. CASE \E t \in Tokens, o \in DBOutcomes : LogoutFindByHash(r, t, o)
    <3>1. PICK t \in Tokens, o \in DBOutcomes : LogoutFindByHash(r, t, o)
      BY <2>3
    <3>2. Succeeded(o) /\ req'[r].tok = t /\ table' = table
      BY <2>1, <3>1 DEF DatabaseAnswers, Succeeded, LogoutFindByHash, Request
    <3>3. t \in DOMAIN table => IsRevoked(table[t])
      BY <2>1, <3>1, <3>2 DEF LogoutFindByHash, Request
    <3> QED
      BY <3>2, <3>3
  <2>4. CASE \E o \in DBOutcomes : LogoutRevoke(r, o)
    <3>1. req'[r].tok = req[r].tok /\ table' = Revoke(table, req[r].tok, NULL)
      BY <2>1, <2>4 DEF DatabaseAnswers, Applied, LogoutRevoke, Request
    <3> QED
      BY <2>1, <3>1, RevokeTable
  <2>5. \/ req'[r] = req[r]
        \/ \E t \in Tokens, o \in DBOutcomes : LogoutFindByHash(r, t, o)
        \/ \E o \in DBOutcomes : LogoutRevoke(r, o)
    <3>1. req[r] \in Request /\ Idle.pc # "bye"
      BY <2>1, IdleKnows
    <3>2. ASSUME NEW o \in DBOutcomes, IssueTokens(r, o) \/ RefreshRotate(r, o)
          PROVE  req'[r] = Idle \/ req'[r].pc \in {"reply", "rotate"}
      BY <2>1, <3>1, <3>2 DEF IssueTokens, RefreshRotate, AfterRotate, Request
    <3> QED
      BY <3>1, <3>2, OwnStep
  <2> QED
    BY <2>2, <2>3, <2>4, <2>5
<1> QED
  BY <1>1, <1>2, Invariance, PTL DEF Spec

(* The old row of a grant, while it is there, is revoked and points to it. *)
Points(t) ==
  LET p == issued[t].parent IN
    p # NULL /\ p \in DOMAIN table => IsRevoked(table[p]) /\ table[p].replacedBy = t

(* What is about to be answered is linked already.                         *)
LinkInv ==
  RotationLinks /\ \A r \in Requests : req[r].pc = "reply" => Points(req[r].new)

(* A link that was made stays.                                             *)
LEMMA PointsStays ==
  ASSUME IInv, [Next]_vars, NEW t \in DOMAIN issued, Points(t)
  PROVE  Points(t)'
<1>1. issued[t].parent # NULL => issued[t].parent \in DOMAIN issued
  BY DEF IInv, TableInv, GrantsOrdered
<1> QED
  BY <1>1, RevokedForGood DEF Points

(* The answer to a rotation is reached with the link made: the old row was *)
(* still active, so the update found it.                                   *)
LEMMA RotateLinks ==
  ASSUME DatabaseAnswers, IInv, PatientInv, NEW r \in Requests, NEW o \in DBOutcomes,
         RefreshRotate(r, o)
  PROVE  req'[r].new = req[r].new /\ Points(req[r].new)'
<1>1. /\ IsTable(table) /\ req \in [Requests -> Request] /\ req[r] \in Request
      /\ Knows(req[r]) /\ Current(req[r]) /\ req[r].pc = "rotate" /\ UNCHANGED issued
      /\ table' = Revoke(table, req[r].tok, req[r].new)
  BY DEF IInv, TypeOK, RequestsKnow, PatientInv, RefreshRotate, DatabaseAnswers, Applied, Successor
<1>2. /\ req[r].new \in Tokens /\ req[r].new # NULL
      /\ issued[req[r].new].parent = req[r].tok
  BY <1>1, NullAssumption DEF Knows, IInv, TypeOK, IsHistory
<1>3. req[r].tok \in DOMAIN table => ~IsRevoked(table[req[r].tok])
  BY <1>1 DEF Current
<1>4. /\ DOMAIN table' = DOMAIN table
      /\ req[r].tok \in DOMAIN table =>
           IsRevoked(table'[req[r].tok]) /\ table'[req[r].tok].replacedBy = req[r].new
  BY <1>1, <1>2, <1>3, RevokeTable
<1>5. req'[r].new = req[r].new
  BY <1>1 DEF RefreshRotate, Request
<1> QED
  BY <1>1, <1>2, <1>4, <1>5 DEF Points

(* Only the answer to a rotation that was linked is ever delivered.        *)
LEMMA LinkNext ==
  ASSUME DatabaseAnswers, IInv, PatientInv, LinkInv, [Next]_vars
  PROVE  LinkInv'
<1>1. IInv' /\ req \in [Requests -> Request]
  BY NextInv DEF IInv, TypeOK
<1>2. ASSUME NEW t \in DOMAIN issued', issued'[t].delivered PROVE Points(t)'
  <2>1. CASE t \in DOMAIN issued /\ issued[t].delivered
    BY <2>1, PointsStays DEF LinkInv, RotationLinks, Held, Points
  <2>2. CASE ~(t \in DOMAIN issued /\ issued[t].delivered)
    <3>1. PICK r \in Requests : Reply(r) \/ \E o \in DBOutcomes : IssueTokens(r, o)
      <4>1. issued' # issued
        BY <1>2, <2>2
      <4> QED
        BY <4>1
        DEF Next, Accept, LoginFindByEmail, RefreshFindByHash, LogoutFindByHash, Serve, ServeWith,
            LoginVerify, RefreshCheck, LoginStamp, RefreshRevokeAll, RefreshFindByID,
            RefreshRotate, LogoutRevoke, CleanupExpiredRefreshTokens, DisableUser, EnableUser,
            Tick, Crash, vars
    <3>2. CASE Reply(r)
      <4>1. t \in DOMAIN issued /\ req[r].pc = "reply" /\ t = req[r].new
        BY <1>2, <2>2, <3>2, ReplyGrants
      <4>2. Points(t)
        BY <4>1 DEF LinkInv
      <4> QED
        BY <4>1, <4>2, PointsStays
    <3>3. CASE \E o \in DBOutcomes : IssueTokens(r, o)
      BY <1>2, <2>2, <3>3 DEF IssueTokens, Grow
    <3> QED
      BY <3>1, <3>2, <3>3
  <2> QED
    BY <2>1, <2>2
<1>3. ASSUME NEW r \in Requests, req'[r].pc = "reply" PROVE Points(req[r].new)'
  <2>1. /\ req[r] \in Request /\ Knows(req[r]) /\ Idle.pc # "reply"
    BY <1>1, IdleKnows DEF IInv, RequestsKnow
  <2>2. CASE req'[r] = req[r]
    <3>1. req[r].new \in DOMAIN issued /\ Points(req[r].new)
      BY <1>3, <2>1, <2>2 DEF Knows, LinkInv
    <3>2. PICK t \in DOMAIN issued : t = req[r].new
      BY <3>1
    <3>3. Points(t)'
      BY <3>1, <3>2, PointsStays
    <3> QED
      BY <2>2, <3>2, <3>3 DEF Points
  <2>3. ASSUME NEW o \in DBOutcomes, RefreshRotate(r, o) PROVE Points(req[r].new)'
    BY <2>3, RotateLinks
  <2>4. ASSUME NEW o \in DBOutcomes, IssueTokens(r, o) PROVE Points(req[r].new)'
    <3>1. PICK t \in Unissued :
            /\ issued' = Grow(t, req[r])
            /\ req' = [req EXCEPT ![r].new = t,
                                  ![r].pc = IF req[r].tok = NULL THEN "reply" ELSE "rotate"]
      BY <2>4 DEF IssueTokens, DatabaseAnswers, Applied, Succeeded
    <3>2. req[r].tok = NULL /\ req'[r].new = t
      BY <1>1, <1>3, <2>1, <3>1 DEF Request
    <3>3. issued'[t].parent = NULL
      BY <3>1, <3>2 DEF Grow
    <3> QED
      BY <3>2, <3>3 DEF Points
  <2>5. ASSUME NEW o \in DBOutcomes,
               LogoutRevoke(r, o) \/ \E t \in Tokens : LogoutFindByHash(r, t, o)
        PROVE  req'[r].pc # "reply"
    BY <1>1, <2>1, <2>5 DEF LogoutFindByHash, LogoutRevoke, Request
  <2> QED
    BY <1>3, <2>1, <2>2, <2>3, <2>4, <2>5, OwnStep
<1>4. RotationLinks'
  BY <1>2 DEF RotationLinks, Held, Points
<1> QED
  BY <1>3, <1>4 DEF LinkInv

(* While the database answers and clients wait for their answers, whoever  *)
(* holds the outcome of a rotation holds the only good end of the chain:   *)
(* the old row is revoked and says what replaced it, or is gone.           *)
THEOREM RotationsAreLinked == ASSUME DatabaseAnswers PROVE PatientSpec => []RotationLinks
<1>1. Init => LinkInv
  BY DEF Init, LinkInv, RotationLinks, Held, Idle
<1>2. IInv /\ PatientInv /\ LinkInv /\ [Next /\ OneAtATime']_vars => LinkInv'
  BY LinkNext
<1>3. LinkInv => RotationLinks
  BY DEF LinkInv
<1> QED
  BY <1>1, <1>2, <1>3, PatientInvariance, PTL DEF PatientSpec
=============================================================================
