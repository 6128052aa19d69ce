------------------------------ MODULE MCContent ------------------------------
(* An instance of ContentServer for TLC.                                   *)
EXTENDS ContentServer

(* The variables nobody has set are NULL.                                  *)
Env(s) == [x \in DOMAIN NoConfig |->
             IF x \in DOMAIN s THEN s[x]
             ELSE IF x \in {"databaseURL", "jwtSecret"} THEN "some" ELSE NULL]

(* Nothing but what must be set; the largest upload limit there is; and    *)
(* three that Load refuses.                                                *)
MCEnvironments ==
  {Env(<<>>), Env([uploadMax |-> MaxInt]), Env([uploadMax |-> 0]),
   Env([refreshTTL |-> 60]), Env([jwtSecret |-> NULL])}
=============================================================================
