------------------------------ MODULE MCSession ------------------------------
(* Instances of AdminSession for TLC.                                      *)
EXTENDS AdminSession, TLC

(* Secrets, slots and browsers are compared for equality only.             *)
Symmetry == Permutations(Tokens) \cup Permutations(Requests) \cup Permutations(Browsers)

(* Three columns are written and never read, and no property of this run   *)
(* names them: last_login_at, replaced_by and, of a grant, what it was     *)
(* issued for.  States that differ in these alone go on alike.             *)
View ==
  <<[t \in DOMAIN table |-> [table[t] EXCEPT !.replacedBy = NULL]],
    [t \in DOMAIN issued |-> [issued[t] EXCEPT !.parent = NULL]],
    [u \in Users |-> users[u].active], req, clock, browserVars>>
=============================================================================
