------------------------- MODULE RefreshTokenTable -------------------------
(***************************************************************************)
(* The refresh_tokens table and the statements the MySQL repository runs   *)
(* on it, as functions from a table to a table.  A table maps the ids of   *)
(* the rows it holds to the rows, so that t \in DOMAIN tbl says that row t *)
(* exists.  A token's id, its hash and its secret stand for one another    *)
(* (the id is a prefix of the hash of a 256-bit random secret).            *)
(***************************************************************************)
EXTENDS Naturals

CONSTANTS
  Tokens,  \* the refresh token secrets that may ever be drawn
  Users,   \* the rows of the users table
  NULL     \* SQL NULL, and "not set" in a request's local variables

ASSUME NullAssumption == NULL \notin Tokens \cup Users \cup Nat

(* user_agent, ip_address and created_at are written once and never read   *)
(* back by the service; of revoked_at only its being NULL is ever tested.  *)
Row == [user       : Users,
        expires    : Nat,
        revoked    : BOOLEAN,
        replacedBy : Tokens \cup {NULL}]

IsTable(tbl) == DOMAIN tbl \subseteq Tokens /\ tbl \in [DOMAIN tbl -> Row]

-----------------------------------------------------------------------------
(* domain.RefreshToken *)

IsRevoked(row) == row.revoked

(* !ExpiresAt.After(now): a token is already dead at its expiry instant.   *)
IsExpired(row, now) == row.expires <= now

IsActive(row, now) == ~IsRevoked(row) /\ ~IsExpired(row, now)

-----------------------------------------------------------------------------
(* mysql.RefreshTokenRepository.  Each operator is one SQL statement and   *)
(* therefore atomic; nothing in the code groups statements in a            *)
(* transaction.                                                            *)

NewRow(u, expires) ==
  [user |-> u, expires |-> expires, revoked |-> FALSE, replacedBy |-> NULL]

Create(tbl, t, row) ==
  [x \in DOMAIN tbl \cup {t} |-> IF x = t THEN row ELSE tbl[x]]

(* Seeded fault: the "revoked_at is null" condition is forgotten.          *)
RevokeUnguarded(tbl, t, successor) ==
  [x \in DOMAIN tbl |->
     IF x = t
       THEN [tbl[x] EXCEPT !.revoked = TRUE,
                           !.replacedBy = IF successor = NULL THEN @ ELSE successor]
       ELSE tbl[x]]

(* Seeded fault: a call without a successor updates nothing.               *)
RevokeSuccessorOnly(tbl, t, successor) ==
  [x \in DOMAIN tbl |->
     IF x = t /\ successor # NULL /\ ~IsRevoked(tbl[x])
       THEN [tbl[x] EXCEPT !.revoked = TRUE, !.replacedBy = successor]
       ELSE tbl[x]]

(* update ... where id = ? and revoked_at is null; replaced_by is only     *)
(* among the updated columns when a successor is given.                    *)
Revoke(tbl, t, successor) ==
  [x \in DOMAIN tbl |->
     IF x = t /\ ~IsRevoked(tbl[x])
       THEN [tbl[x] EXCEPT !.revoked = TRUE,
                           !.replacedBy = IF successor = NULL THEN @ ELSE successor]
       ELSE tbl[x]]

RevokeAllForUser(tbl, u) ==
  [x \in DOMAIN tbl |->
     IF tbl[x].user = u /\ ~IsRevoked(tbl[x])
       THEN [tbl[x] EXCEPT !.revoked = TRUE]
       ELSE tbl[x]]

(* Seeded fault: revoked rows are swept as well, whatever their expiry.    *)
DeleteExpiredOrRevoked(tbl, before) ==
  [x \in {y \in DOMAIN tbl : ~(tbl[y].expires < before \/ IsRevoked(tbl[y]))} |-> tbl[x]]

(* Seeded fault: only rows nobody revoked are swept.                       *)
DeleteExpiredUnrevoked(tbl, before) ==
  [x \in {y \in DOMAIN tbl : ~(tbl[y].expires < before /\ ~IsRevoked(tbl[y]))} |-> tbl[x]]

(* delete ... where expires_at < ?, a strict comparison where IsExpired    *)
(* has a weak one.                                                         *)
DeleteExpired(tbl, before) ==
  [x \in {y \in DOMAIN tbl : ~(tbl[y].expires < before)} |-> tbl[x]]
=============================================================================
