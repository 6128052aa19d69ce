--------------------------- MODULE RotationLedger ---------------------------
(***************************************************************************)
(* What the refresh token table promises, without requests, statements or  *)
(* failures: a secret is issued once, to one owner and with one deadline;  *)
(* it may then be retired, for good; and once it is dead it is forgotten.  *)
(* A secret that was retired by a rotation names a successor, and for as   *)
(* long as it is remembered so is that successor.  AuthService implements  *)
(* this specification (AuthService!RefinesLedger).                         *)
(***************************************************************************)
EXTENDS Naturals

CONSTANTS
  Tokens,     \* the refresh token secrets
  Users,      \* who may own one
  NULL,       \* "none"
  RefreshTTL  \* the longest life of a secret

VARIABLES
  clock,      \* the time
  entry       \* entry[t]: what is known of secret t

ledgerVars == <<clock, entry>>

Phases == {"unissued", "active", "revoked", "purged"}

Entry == [phase     : Phases,
          owner     : Users \cup {NULL},
          deadline  : Nat \cup {NULL},
          successor : Tokens \cup {NULL}]

(* The secrets the table remembers, and those still good for a refresh.    *)
Live == {t \in Tokens : entry[t].phase \in {"active", "revoked"}}
Active(u) == {t \in Tokens : entry[t].phase = "active" /\ entry[t].owner = u}

Init ==
  /\ clock = 0
  /\ entry = [t \in Tokens |-> [phase |-> "unissued", owner |-> NULL,
                                deadline |-> NULL, successor |-> NULL]]

Tick == clock' = clock + 1 /\ UNCHANGED entry

(* A secret gets its owner and its deadline once.  The deadline may be     *)
(* short of a full life, or even past, when the issuing request was slow.  *)
Issue(t, u, d) ==
  /\ entry[t].phase = "unissued"
  /\ d <= clock + RefreshTTL
  /\ entry' = [entry EXCEPT ![t] = [phase |-> "active", owner |-> u,
                                    deadline |-> d, successor |-> NULL]]
  /\ UNCHANGED clock

(* The rotation of t into s: s is another remembered secret of the same    *)
(* owner, which is not forgotten before t is.                              *)
Rotate(u, t, s) ==
  /\ t \in Active(u)
  /\ s \in Live \ {t}
  /\ entry[s].owner = u
  /\ entry[t].deadline <= entry[s].deadline
  /\ entry' = [entry EXCEPT ![t] = [phase |-> "revoked", owner |-> u,
                                    deadline |-> entry[t].deadline, successor |-> s]]
  /\ UNCHANGED clock

(* Any active secrets of one owner are retired together.                   *)
Retire(u, S) ==
  /\ S \subseteq Active(u)
  /\ entry' = [t \in Tokens |-> IF t \in S THEN [entry[t] EXCEPT !.phase = "revoked"]
                                           ELSE entry[t]]
  /\ UNCHANGED clock

(* Whatever died before b is forgotten, b being no later than now; nothing *)
(* that is still good can be.                                              *)
Dead(b) == {t \in Live : entry[t].deadline < b}

Purge(b) ==
  /\ Dead(b) # {}
  /\ entry' = [t \in Tokens |->
                 IF t \in Dead(b)
                   THEN [entry[t] EXCEPT !.phase = "purged", !.successor = NULL]
                   ELSE entry[t]]
  /\ UNCHANGED clock

(* The first disjunct is what most steps of an implementation do here.     *)
Next ==
  \/ UNCHANGED ledgerVars
  \/ Tick
  \/ \E t \in Tokens \ Live, u \in Users, d \in 0..(clock + RefreshTTL) : Issue(t, u, d)
  \/ \E u \in Users : \E t \in Active(u), s \in Live : Rotate(u, t, s)
  \/ \E u \in Users : \E S \in (SUBSET Active(u)) \ {{}} : Retire(u, S)
  \/ \E b \in 0..clock : Purge(b)

Spec == Init /\ [][Next]_ledgerVars
=============================================================================
