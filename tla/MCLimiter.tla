----------------------------- MODULE MCLimiter -----------------------------
(* Instances of LoginRateLimiter for TLC.                                  *)
EXTENDS LoginRateLimiter, TLC

(* Addresses are compared for equality only.                               *)
Symmetry == Permutations(Keys)
=============================================================================
