------------------------------- MODULE MCAuth -------------------------------
(* Instances of AuthService for TLC.                                       *)
EXTENDS AuthService, TLC

(* Secrets are drawn at random and slots are alike, and no definition of   *)
(* AuthService compares two of them except for equality.                   *)
Symmetry == Permutations(Tokens) \cup Permutations(Requests)
=============================================================================
