------------------------ MODULE AuthRefinementProofs ------------------------
(***************************************************************************)
(* AuthService implements RotationLedger: every statement a handler or the *)
(* janitor sends is one step of the ledger, or changes nothing in it.  The *)
(* invariant of AuthServiceProofs supplies what the ledger's guards ask    *)
(* for: that a successor is remembered, of the same owner and not the      *)
(* first of the two to die.                                                *)
(*                                                                         *)
(* And the janitor with its timer, RefreshTokenCleanup, does only what     *)
(* AuthService allows it to: what is proved of the one holds of the other. *)
(***************************************************************************)
EXTENDS AuthServiceProofs, RefreshTokenCleanup

(* What the ledger holds of a secret, case by case.                        *)
LEMMA EntryCases ==
  ASSUME IInv, NEW t \in Tokens
  PROVE  /\ LedgerEntry[t] = EntryOf(t)
         /\ t \notin DOMAIN issued => EntryOf(t).phase = "unissued"
         /\ t \in DOMAIN issued /\ t \notin DOMAIN table => EntryOf(t).phase = "purged"
         /\ t \in DOMAIN table =>
              /\ EntryOf(t).phase = IF IsRevoked(table[t]) THEN "revoked" ELSE "active"
              /\ EntryOf(t).owner = table[t].user
              /\ EntryOf(t).deadline = table[t].expires
              /\ EntryOf(t).successor = table[t].replacedBy
  BY DEF LedgerEntry, EntryOf, IInv, TableInv, RowsIssued

(* A live secret is a row, and an active one a row nobody has revoked.     *)
LEMMA LiveRows ==
  ASSUME IInv
  PROVE  /\ Ledger!Live = DOMAIN table
         /\ \A u : Ledger!Active(u) = {t \in DOMAIN table : ~IsRevoked(table[t]) /\ table[t].user = u}
<1>1. DOMAIN table \subseteq Tokens
  BY DEF IInv, TypeOK, IsTable
<1>2. ASSUME NEW t \in Tokens
      PROVE  /\ LedgerEntry[t].phase \in {"active", "revoked"} <=> t \in DOMAIN table
             /\ LedgerEntry[t].phase = "active" <=> t \in DOMAIN table /\ ~IsRevoked(table[t])
             /\ t \in DOMAIN table => LedgerEntry[t].owner = table[t].user
  <2>1. CASE t \notin DOMAIN table
    <3>1. LedgerEntry[t].phase \in {"unissued", "purged"}
      BY <1>2, <2>1, EntryCases
    <3> QED
      BY <2>1, <3>1
  <2>2. CASE t \in DOMAIN table
    <3>1. /\ LedgerEntry[t].phase = IF IsRevoked(table[t]) THEN "revoked" ELSE "active"
          /\ LedgerEntry[t].owner = table[t].user
      BY <1>2, <2>2, EntryCases
    <3> QED
      BY <2>2, <3>1
  <2> QED
    BY <2>1, <2>2
<1> QED
  BY <1>1, <1>2 DEF Ledger!Live, Ledger!Active

(* Nothing is issued at first.                                            *)
LEMMA InitRefines == Init => Ledger!Init
  BY DEF Init, Ledger!Init, LedgerEntry, EntryOf

(* Nothing but the rows and the grants' owners and times shows.            *)
LEMMA Stutter ==
  ASSUME table' = table, clock' = clock, DOMAIN issued' = DOMAIN issued,
         \A t \in DOMAIN issued : issued'[t].user = issued[t].user /\ issued'[t].at = issued[t].at
  PROVE  UNCHANGED Ledger!ledgerVars
<1>1. LedgerEntry' = LedgerEntry
  BY DEF LedgerEntry, EntryOf
<1> QED
  BY <1>1 DEF Ledger!ledgerVars

(* Time passes in both.                                                   *)
LEMMA TickRefines ==
  ASSUME Tick
  PROVE  Ledger!Next
<1>1. LedgerEntry' = LedgerEntry
  BY DEF Tick, LedgerEntry, EntryOf
<1> QED
  BY <1>1 DEF Tick, Ledger!Tick, Ledger!Next

-----------------------------------------------------------------------------
(* The steps of the ledger.                                                *)

LEMMA IssueRefines ==
  ASSUME IInv, NEW r \in Requests, NEW o \in DBOutcomes, IssueTokens(r, o)
  PROVE  Ledger!Next \/ UNCHANGED Ledger!ledgerVars
<1>1. PICK t \in Unissued :
        IF Applied(o)
          THEN /\ table' = Create(table, t, NewRow(req[r].user, IssuedAt(req[r]) + RefreshTTL))
               /\ issued' = Grow(t, req[r])
          ELSE UNCHANGED <<table, issued>>
  BY DEF IssueTokens
<1>2. clock' = clock
  BY DEF IssueTokens
<1>3. CASE ~Applied(o)
  BY <1>1, <1>2, <1>3, Stutter
<1>4. CASE Applied(o)
  <2> DEFINE u == req[r].user
             d == req[r].now + RefreshTTL
  <2>1. u \in Users /\ req[r].now \in Nat /\ req[r].now <= clock /\ clock \in Nat
    BY DEF IInv, TypeOK, RequestsKnow, Knows, IssueTokens
  <2>2. d \in 0..(clock + RefreshTTL)
    BY <2>1, LifetimeAssumption
  <2>3. t \in Tokens /\ t \notin DOMAIN issued /\ t \notin DOMAIN table
    BY DEF Unissued, IInv, TableInv, RowsIssued
  <2>4. LedgerEntry[t].phase = "unissued"
    BY <2>3, EntryCases
  <2>5. LedgerEntry' = [LedgerEntry EXCEPT ![t] = [phase |-> "active", owner |-> u,
                                                   deadline |-> d, successor |-> NULL]]
    <3>1. /\ table' = Create(table, t, NewRow(u, d)) /\ issued' = Grow(t, req[r])
      BY <1>1, <1>4 DEF IssuedAt
    <3>2. EntryOf(t)' = [phase |-> "active", owner |-> u, deadline |-> d, successor |-> NULL]
      BY <2>3, <3>1 DEF EntryOf, Create, NewRow, Grow, IsRevoked
    <3>3. ASSUME NEW x \in Tokens, x # t PROVE EntryOf(x)' = EntryOf(x)
      BY <2>3, <3>1, <3>3 DEF EntryOf, Create, Grow
    <3> QED
      BY <2>3, <3>2, <3>3 DEF LedgerEntry
  <2>6. Ledger!Issue(t, u, d)
    BY <1>2, <2>1, <2>2, <2>4, <2>5 DEF Ledger!Issue
  <2>7. t \in Tokens \ Ledger!Live
    BY <2>3, LiveRows
  <2> QED
    BY <2>1, <2>2, <2>6, <2>7 DEF Ledger!Next
<1> QED
  BY <1>3, <1>4

(* Refresh's Revoke is Rotate, unless it fails or the row is revoked or gone.*)
LEMMA RotateRefines ==
  ASSUME IInv, NEW r \in Requests, NEW o \in DBOutcomes, RefreshRotate(r, o)
  PROVE  Ledger!Next \/ UNCHANGED Ledger!ledgerVars
<1>0. PICK t, s : t = req[r].tok /\ s = req[r].new
  OBVIOUS
<1>1. /\ UNCHANGED <<issued, clock>>
      /\ table' \in {table, Revoke(table, t, s)}
  BY <1>0 DEF RefreshRotate, Successor
<1>2. s \in DOMAIN issued /\ issued[s].parent = t /\ t # NULL /\ s \in Tokens /\ s # NULL
  BY <1>0, NullAssumption DEF RefreshRotate, IInv, TypeOK, IsHistory, RequestsKnow, Knows
<1>3. CASE table' = table
  BY <1>1, <1>3, Stutter
<1>4. CASE t \notin DOMAIN table \/ IsRevoked(table[t])
  <2>1. Revoke(table, t, s) = table
    BY <1>4 DEF Revoke, IInv, TypeOK, IsTable
  <2> QED
    BY <1>1, <1>3, <2>1
<1>5. CASE table' = Revoke(table, t, s) /\ t \in DOMAIN table /\ ~IsRevoked(table[t])
  <2>1. s \in DOMAIN table /\ s # t
    BY <1>2, <1>5 DEF IInv, TableInv, ForgottenInOrder, GrantsOrdered
  <2>2. /\ table[s].user = table[t].user
        /\ issued[t].at <= issued[s].at
        /\ table[s].expires = issued[s].at + RefreshTTL
        /\ table[t].expires = issued[t].at + RefreshTTL
    BY <1>2, <1>5, <2>1 DEF IInv, TableInv, GrantsOrdered, RowsIssued
  <2>3. issued[s].at \in Nat /\ issued[t].at \in Nat /\ RefreshTTL \in Nat
    BY <1>2, <1>5, LifetimeAssumption
    DEF IInv, TypeOK, IsHistory, Grant, TableInv, RowsIssued
  <2>4. table[t].expires <= table[s].expires
    BY <2>2, <2>3
  <2>5. t \in Tokens /\ table[t].user \in Users
    BY <1>5 DEF IInv, TypeOK, IsTable, Row
  <2>6. LedgerEntry' = [LedgerEntry EXCEPT ![t] = [phase |-> "revoked", owner |-> table[t].user,
                                                   deadline |-> LedgerEntry[t].deadline,
                                                   successor |-> s]]
    <3>1. t \in DOMAIN issued /\ table[t] \in Row
      BY <1>5 DEF IInv, TypeOK, IsTable, TableInv, RowsIssued
    <3>2. /\ DOMAIN table' = DOMAIN table /\ DOMAIN issued' = DOMAIN issued
          /\ IsRevoked(table'[t]) /\ table'[t].replacedBy = s
          /\ table'[t].user = table[t].user /\ table'[t].expires = table[t].expires
          /\ \A x \in DOMAIN table : x # t => table'[x] = table[x]
      BY <1>1, <1>2, <1>5, <3>1 DEF Revoke, IsRevoked, Row
    <3> DEFINE e == [phase |-> "revoked", owner |-> table[t].user,
                     deadline |-> table[t].expires, successor |-> s]
    <3>3. EntryOf(t)' = e
      BY <1>5, <3>1, <3>2 DEF EntryOf
    <3>4. LedgerEntry[t].deadline = table[t].expires
      BY <1>5, <2>5, EntryCases
    <3>5. ASSUME NEW x \in Tokens, x # t PROVE EntryOf(x)' = EntryOf(x)
      BY <1>1, <3>2, <3>5 DEF EntryOf
    <3> HIDE DEF e
    <3>6. LedgerEntry' = [LedgerEntry EXCEPT ![t] = e]
      BY <2>5, <3>3, <3>5 DEF LedgerEntry
    <3> QED
      BY <3>4, <3>6 DEF e
  <2>7. /\ LedgerEntry[s].owner = table[t].user /\ LedgerEntry[t].owner = table[t].user
        /\ LedgerEntry[t].deadline <= LedgerEntry[s].deadline
    BY <1>2, <1>5, <2>1, <2>2, <2>4, <2>5, EntryCases
  <2>8. t \in Ledger!Active(table[t].user) /\ s \in Ledger!Live
    BY <1>5, <2>1, LiveRows
  <2>9. Ledger!Rotate(table[t].user, t, s)
    BY <1>1, <2>1, <2>6, <2>7, <2>8 DEF Ledger!Rotate
  <2> QED
    BY <2>5, <2>8, <2>9 DEF Ledger!Next
<1> QED
  BY <1>1, <1>3, <1>4, <1>5

(* Rows of one user that nobody has revoked become revoked.                *)
LEMMA RetireRefines ==
  ASSUME IInv, NEW u \in Users, NEW S \in SUBSET DOMAIN table, S # {},
         \A t \in S : ~IsRevoked(table[t]) /\ table[t].user = u,
         table' = [t \in DOMAIN table |-> IF t \in S THEN [table[t] EXCEPT !.revoked = TRUE]
                                                     ELSE table[t]],
         UNCHANGED <<issued, clock>>
  PROVE  Ledger!Next
<1>1. DOMAIN table \subseteq Tokens /\ \A t \in DOMAIN table : table[t] \in Row /\ t \in DOMAIN issued
  BY DEF IInv, TypeOK, IsTable, TableInv, RowsIssued
<1>2. S \in (SUBSET Ledger!Active(u)) \ {{}}
  BY LiveRows
<1>3. LedgerEntry' = [t \in Tokens |-> IF t \in S THEN [LedgerEntry[t] EXCEPT !.phase = "revoked"]
                                                  ELSE LedgerEntry[t]]
  <2>1. ASSUME NEW x \in Tokens
        PROVE  EntryOf(x)' = IF x \in S THEN [EntryOf(x) EXCEPT !.phase = "revoked"] ELSE EntryOf(x)
    BY <1>1 DEF EntryOf, IsRevoked, Row
  <2> QED
    BY <2>1 DEF LedgerEntry
<1>4. Ledger!Retire(u, S)
  BY <1>2, <1>3 DEF Ledger!Retire
<1> QED
  BY <1>2, <1>4 DEF Ledger!Next

(* RevokeAllForUser retires what is active of a user.                     *)
LEMMA RevokeAllRefines ==
  ASSUME IInv, NEW r \in Requests, NEW o \in DBOutcomes, RefreshRevokeAll(r, o)
  PROVE  Ledger!Next \/ UNCHANGED Ledger!ledgerVars
<1>1. PICK u : u = req[r].user
  OBVIOUS
<1> DEFINE S == {t \in DOMAIN table : ~IsRevoked(table[t]) /\ table[t].user = u}
<1>2. u \in Users /\ UNCHANGED <<issued, clock>>
  BY <1>1 DEF RefreshRevokeAll, IInv, RequestsKnow, Knows
<1>3. table' = table \/ table' = RevokeAllForUser(table, u)
  BY <1>1 DEF RefreshRevokeAll
<1>4. RevokeAllForUser(table, u) =
        [t \in DOMAIN table |-> IF t \in S THEN [table[t] EXCEPT !.revoked = TRUE] ELSE table[t]]
  BY DEF RevokeAllForUser
<1>5. CASE table' = table
  BY <1>2, <1>5, Stutter
<1>6. CASE table' = RevokeAllForUser(table, u) /\ S = {}
  <2>1. table' = table
    BY <1>4, <1>6 DEF IInv, TypeOK, IsTable
  <2> QED
    BY <1>2, <2>1, Stutter
<1>7. CASE table' = RevokeAllForUser(table, u) /\ S # {}
  <2>1. S \in SUBSET DOMAIN table /\ \A t \in S : ~IsRevoked(table[t]) /\ table[t].user = u
    OBVIOUS
  <2> HIDE DEF S
  <2> QED
    BY <1>2, <1>4, <1>7, <2>1, RetireRefines
<1> QED
  BY <1>3, <1>5, <1>6, <1>7

(* Logout's Revoke retires one secret, or none.                           *)
LEMMA LogoutRefines ==
  ASSUME IInv, NEW r \in Requests, NEW o \in DBOutcomes, LogoutRevoke(r, o)
  PROVE  Ledger!Next \/ UNCHANGED Ledger!ledgerVars
<1>1. PICK l : l = req[r].tok
  OBVIOUS
<1>2. UNCHANGED <<issued, clock>>
  BY DEF LogoutRevoke
<1>3. table' = table \/ table' = Revoke(table, l, NULL)
  BY <1>1 DEF LogoutRevoke
<1>4. CASE table' = table
  BY <1>2, <1>4, Stutter
<1>5. CASE table' = Revoke(table, l, NULL) /\ (l \notin DOMAIN table \/ IsRevoked(table[l]))
  <2>1. table' = table
    BY <1>5 DEF Revoke, IInv, TypeOK, IsTable
  <2> QED
    BY <1>2, <2>1, Stutter
<1>6. CASE table' = Revoke(table, l, NULL) /\ l \in DOMAIN table /\ ~IsRevoked(table[l])
  <2>1. /\ \A t \in DOMAIN table : table[t] \in Row
        /\ table[l].user \in Users
    BY <1>6 DEF IInv, TypeOK, IsTable, Row
  <2>2. table' = [t \in DOMAIN table |->
                    IF t \in {l} THEN [table[t] EXCEPT !.revoked = TRUE] ELSE table[t]]
    BY <1>6, <2>1 DEF Revoke, Row
  <2>3. {l} \in SUBSET DOMAIN table /\ {l} # {}
    BY <1>6
  <2>4. \A t \in {l} : ~IsRevoked(table[t]) /\ table[t].user = table[l].user
    BY <1>6
  <2> QED
    BY <1>2, <2>1, <2>2, <2>3, <2>4, RetireRefines
<1> QED
  BY <1>3, <1>4, <1>5, <1>6

(* A sweep purges exactly what died before its "before".                  *)
LEMMA CleanupRefines ==
  ASSUME IInv, NEW o \in DBOutcomes, NEW before \in 0..clock,
         CleanupExpiredRefreshTokens(o, before)
  PROVE  Ledger!Next \/ UNCHANGED Ledger!ledgerVars
<1> DEFINE D == {t \in DOMAIN table : table[t].expires < before}
<1>1. UNCHANGED <<issued, clock>>
  BY DEF CleanupExpiredRefreshTokens
<1>2. table' = table \/ table' = DeleteExpired(table, before)
  BY DEF CleanupExpiredRefreshTokens
<1>3. DOMAIN table \subseteq Tokens /\ table = [t \in DOMAIN table |-> table[t]]
  BY DEF IInv, TypeOK, IsTable
<1>4. Ledger!Dead(before) = D
  <2>1. \A t \in DOMAIN table : LedgerEntry[t].deadline = table[t].expires
    BY <1>3 DEF LedgerEntry, EntryOf, IInv, TableInv, RowsIssued
  <2> QED
    BY <2>1, LiveRows DEF Ledger!Dead
<1>5. CASE table' = table
  BY <1>1, <1>5, Stutter
<1>6. CASE table' = DeleteExpired(table, before) /\ D = {}
  <2>1. table' = table
    BY <1>3, <1>6 DEF DeleteExpired
  <2> QED
    BY <1>1, <2>1, Stutter
<1>7. CASE table' = DeleteExpired(table, before) /\ D # {}
  <2>1. ASSUME NEW x \in Tokens
        PROVE  EntryOf(x)' = IF x \in D
                               THEN [EntryOf(x) EXCEPT !.phase = "purged", !.successor = NULL]
                               ELSE EntryOf(x)
    <3>1. CASE x \notin D
      BY <1>1, <1>7, <3>1 DEF EntryOf, DeleteExpired
    <3>2. CASE x \in D
      <4>1. /\ x \in DOMAIN issued
            /\ issued[x].user = table[x].user
            /\ issued[x].at + RefreshTTL = table[x].expires
        BY <3>2 DEF IInv, TableInv, RowsIssued
      <4>2. x \notin DOMAIN table'
        BY <1>7, <3>2 DEF DeleteExpired
      <4>3. EntryOf(x)' = [phase |-> "purged", owner |-> table[x].user,
                           deadline |-> table[x].expires, successor |-> NULL]
        BY <1>1, <4>1, <4>2 DEF EntryOf
      <4> QED
        BY <3>2, <4>1, <4>3 DEF EntryOf
    <3> QED
      BY <3>1, <3>2
  <2>2. LedgerEntry' = [t \in Tokens |->
                          IF t \in D
                            THEN [LedgerEntry[t] EXCEPT !.phase = "purged", !.successor = NULL]
                            ELSE LedgerEntry[t]]
    BY <2>1 DEF LedgerEntry
  <2>3. Ledger!Purge(before)
    BY <1>1, <1>4, <1>7, <2>2 DEF Ledger!Purge
  <2> QED
    BY <2>3 DEF Ledger!Next
<1> QED
  BY <1>2, <1>5, <1>6, <1>7

-----------------------------------------------------------------------------
(* The theorem.                                                            *)

LEMMA NextRefines == IInv /\ [Next]_vars => [Ledger!Next]_(Ledger!ledgerVars)
<1> SUFFICES ASSUME IInv, [Next]_vars
             PROVE  Ledger!Next \/ UNCHANGED Ledger!ledgerVars
  OBVIOUS
<1>1. CASE UNCHANGED <<table, issued, clock>>
  BY <1>1, Stutter
<1>2. ASSUME NEW r \in Requests, Serve(r)
      PROVE  Ledger!Next \/ UNCHANGED Ledger!ledgerVars
  <2>1. CASE Reply(r)
    <3>1. /\ table' = table /\ clock' = clock /\ DOMAIN issued' = DOMAIN issued
          /\ \A t \in DOMAIN issued :
               issued'[t].user = issued[t].user /\ issued'[t].at = issued[t].at
      <4>1. table' = table /\ clock' = clock
        BY <2>1 DEF Reply
      <4>2. CASE UNCHANGED issued
        BY <4>1, <4>2
      <4>3. ASSUME NEW arrives \in BOOLEAN,
                   issued' = [issued EXCEPT ![req[r].new].delivered = arrives]
            PROVE  /\ DOMAIN issued' = DOMAIN issued
                   /\ \A t \in DOMAIN issued :
                        issued'[t].user = issued[t].user /\ issued'[t].at = issued[t].at
        <5>1. \A t \in DOMAIN issued : issued[t] \in Grant
          BY DEF IInv, TypeOK, IsHistory
        <5> QED
          BY <4>3, <5>1 DEF Grant
      <4> QED
        BY <2>1, <4>1, <4>2, <4>3 DEF Reply
    <3> QED
      BY <3>1, Stutter
  <2>2. CASE \/ LoginVerify(r) \/ RefreshCheck(r)
             \/ \E o \in DBOutcomes : LoginStamp(r, o) \/ RefreshFindByID(r, o)
    BY <1>1, <2>2 DEF LoginVerify, LoginStamp, RefreshCheck, RefreshFindByID
  <2> QED
    BY <1>2, <2>1, <2>2, IssueRefines, RotateRefines, RevokeAllRefines, LogoutRefines
    DEF Serve, ServeWith
<1>3. ASSUME NEW r \in Requests, NEW u \in Users, LoginFindByEmail(r, u)
      PROVE  Ledger!Next \/ UNCHANGED Ledger!ledgerVars
  BY <1>1, <1>3 DEF LoginFindByEmail
<1>4. ASSUME NEW r \in Requests, NEW t \in Tokens,
             \/ RefreshFindByHash(r, t)
             \/ \E o \in DBOutcomes : LogoutFindByHash(r, t, o)
      PROVE  Ledger!Next \/ UNCHANGED Ledger!ledgerVars
  BY <1>1, <1>4 DEF RefreshFindByHash, LogoutFindByHash
<1>5. CASE \E u \in Managed : DisableUser(u) \/ EnableUser(u)
  BY <1>1, <1>5 DEF DisableUser, EnableUser
<1>6. CASE Tick
  BY <1>6, TickRefines
<1>7. CASE Crash
  BY <1>1, <1>7 DEF Crash
<1>8. CASE UNCHANGED vars
  BY <1>1, <1>8 DEF vars
<1> QED
  BY <1>2, <1>3, <1>4, <1>5, <1>6, <1>7, <1>8, CleanupRefines DEF Next, Accept

(* Every execution of AuthService is, seen through LedgerEntry, one of the *)
(* ledger's: whatever interleaves, fails or crashes, a token is issued     *)
(* once, revoked for good, linked at most once, forgotten only when dead.  *)
THEOREM ImplementsLedger == Spec => RefinesLedger
<1>1. Init => Ledger!Init
  BY InitRefines
<1>2. IInv /\ [Next]_vars => [Ledger!Next]_(Ledger!ledgerVars)
  BY NextRefines
<1> QED
  BY <1>1, <1>2, Invariance, PTL DEF Spec, RefinesLedger, Ledger!Spec

-----------------------------------------------------------------------------
(* The janitor's timer.                                                    *)

(* A step of the process with its timer is a step of AuthService, or       *)
(* leaves its state alone.                                                 *)
LEMMA TimedSteps ==
  ASSUME CleanupTypeOK, [CleanupNext]_cleanupVars
  PROVE  [Next]_vars
<1>1. ASSUME NEW o \in DBOutcomes, Sweep(o)
      PROVE  Next
  BY <1>1 DEF CleanupTypeOK, Sweep, Next
<1>2. CASE Fire \/ Return \/ Minute \/ Signal
  BY <1>2 DEF Fire, Return, Minute, Signal
<1>3. CASE Restart
  BY <1>3 DEF Restart, Next
<1>4. CASE Meanwhile
  BY <1>4 DEF Meanwhile, Next
<1>5. CASE UNCHANGED cleanupVars
  BY <1>5 DEF cleanupVars
<1> QED
  BY <1>1, <1>2, <1>3, <1>4, <1>5 DEF CleanupNext

(* The clock does not go back.                                             *)
LEMMA ClockGrows ==
  ASSUME TypeOK, [Next]_vars
  PROVE  clock' \in Nat /\ clock' >= clock
<1>1. clock \in Nat
  BY DEF TypeOK
<1>2. CASE Tick
  BY <1>1, <1>2 DEF Tick
<1>3. clock' = clock \/ Tick
  BY DEF Next, Accept, Serve, ServeWith, vars, LoginFindByEmail, LoginVerify, LoginStamp,
         IssueTokens, RefreshFindByHash, RefreshCheck, RefreshRevokeAll, RefreshFindByID,
         RefreshRotate, Reply, LogoutFindByHash, LogoutRevoke, CleanupExpiredRefreshTokens,
         DisableUser, EnableUser, Crash
<1> QED
  BY <1>1, <1>2, <1>3

(* Its state stays well typed: a sweep never deletes by a time to come.    *)
LEMMA TimerInv ==
  ASSUME TypeOK, CleanupTypeOK, [CleanupNext]_cleanupVars
  PROVE  CleanupTypeOK'
<1>1. /\ clock \in Nat /\ clock' \in Nat /\ clock' >= clock
      /\ janitor.before \in 0..clock /\ janitor.left \in Nat /\ lived \in 0..LongEnough
      /\ LongEnough \in Nat /\ LongEnough > 0
  BY TimedSteps, ClockGrows, TimerAssumption DEF TypeOK, CleanupTypeOK, LongEnough
<1>2. janitor.before \in 0..clock' /\ 0 \in 0..clock' /\ clock \in 0..clock'
  BY <1>1
<1>3. CASE Fire
  BY <1>1, <1>2, <1>3, TimerAssumption DEF Fire, Before, CleanupTypeOK, vars
<1>4. ASSUME NEW o \in DBOutcomes, Sweep(o)
      PROVE  CleanupTypeOK'
  BY <1>1, <1>2, <1>4, TimerAssumption DEF Sweep, AfterSweep, Armed, CleanupTypeOK
<1>5. CASE Return
  BY <1>1, <1>2, <1>5 DEF Return, Gone, CleanupTypeOK
<1>6. CASE Minute
  BY <1>1, <1>2, <1>6 DEF Minute, CleanupTypeOK
<1>7. CASE Signal
  BY <1>1, <1>2, <1>7 DEF Signal, CleanupTypeOK
<1>8. CASE Restart
  <2>1. janitor' = Armed(FirstDelay) /\ ctxDone' = FALSE /\ lived' = 0
    BY <1>8 DEF Restart
  <2>2. 0 \in 0..LongEnough /\ FirstDelay \in Nat
    BY <1>1, TimerAssumption
  <2> QED
    BY <1>2, <2>1, <2>2 DEF Armed, CleanupTypeOK
<1>9. CASE Meanwhile
  BY <1>1, <1>2, <1>9 DEF Meanwhile, janitorVars, CleanupTypeOK
<1>10. CASE UNCHANGED cleanupVars
  BY <1>1, <1>2, <1>10 DEF cleanupVars, janitorVars, CleanupTypeOK
<1> QED
  BY <1>3, <1>4, <1>5, <1>6, <1>7, <1>8, <1>9, <1>10 DEF CleanupNext

(* The timer's state is well typed as long as the process runs.            *)
THEOREM TimerTypesCorrect == CleanupSpec => []CleanupTypeOK
<1>1. CleanupInit => IInv /\ CleanupTypeOK
  <2> SUFFICES ASSUME CleanupInit
               PROVE  IInv /\ CleanupTypeOK
    OBVIOUS
  <2>1. IInv /\ clock = 0
    BY InitInv DEF CleanupInit, Init
  <2>2. janitor = Armed(FirstDelay) /\ ctxDone = FALSE /\ lived = 0
    BY DEF CleanupInit
  <2>3. 0 \in 0..LongEnough /\ FirstDelay \in Nat
    BY TimerAssumption DEF LongEnough
  <2>4. 0 \in 0..clock
    BY <2>1
  <2> QED
    BY <2>1, <2>2, <2>3, <2>4 DEF Armed, CleanupTypeOK
<1>2. IInv /\ CleanupTypeOK /\ [CleanupNext]_cleanupVars => IInv' /\ CleanupTypeOK'
  BY TimedSteps, TimerInv, NextInv DEF IInv
<1> QED
  BY <1>1, <1>2, PTL DEF CleanupSpec

(* The janitor with its intervals, its timeouts and its signal is one of   *)
(* those AuthService allows: whatever order it brings into the sweeps, all *)
(* that is proved of AuthService holds.                                    *)
THEOREM TimedJanitorIsAllowed == CleanupSpec => Spec
<1>1. CleanupInit => Init
  BY DEF CleanupInit
<1>2. CleanupTypeOK /\ [CleanupNext]_cleanupVars => [Next]_vars
  BY TimedSteps
<1> QED
  BY <1>1, <1>2, TimerTypesCorrect, PTL DEF CleanupSpec, Spec
=============================================================================
