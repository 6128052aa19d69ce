-------------------------- MODULE LoginRateLimiter --------------------------
(***************************************************************************)
(* http.loginRateLimiter: a sliding window for each client address, in     *)
(* memory, shared by the login, refresh and logout routes.  A call of      *)
(* allow holds the mutex from end to end and reads the clock under it, so  *)
(* it is one action and the times it sees never go back.                   *)
(*                                                                         *)
(* admitted is history: the times of all requests let through since the    *)
(* server started.  The limiter remembers some of them only; hits holds    *)
(* their positions in that history, as nothing depends on their order.     *)
(***************************************************************************)
EXTENDS Integers, Sequences, FiniteSets

CONSTANTS
  Keys,    \* client addresses
  Limit,   \* LOGIN_RATE_LIMIT
  Window,  \* LOGIN_RATE_WINDOW
  NULL,    \* no answer
  MaxTime  \* bound: the clock stops here

(* config.Load rejects a negative limit and a window that is not positive; *)
(* with a limit of zero the routes are served without a limiter.           *)
ASSUME LimitAssumption == Limit \in Nat \ {0} /\ Window \in Nat \ {0}

ASSUME BoundAssumption == MaxTime \in Nat

VARIABLES
  hits,      \* hits[k]: which admitted requests of k are remembered
  admitted,  \* admitted[k]: when requests of k were let through
  answer,    \* what the last request of this instant was told
  clock      \* time.Now()

vars == <<hits, admitted, answer, clock>>

Init ==
  /\ hits = [k \in Keys |-> {}]
  /\ admitted = [k \in Keys |-> <<>>]
  /\ answer = NULL
  /\ clock = 0

(* Seeded fault: what has left the window still counts.                    *)
ForgetNothing(k) == hits[k]

(* Seeded fault: the window is one instant short.                          *)
KeptShort(k) == {i \in hits[k] : admitted[k][i] > clock - Window + 1}

(* The remembered requests that are After(cutoff).                         *)
Kept(k) == {i \in hits[k] : admitted[k][i] > clock - Window}

(* Seeded fault: the limit itself is let through.                          *)
FullLate(kept) == Cardinality(kept) > Limit

Full(kept) == Cardinality(kept) >= Limit

(* allow, and the middleware's 429 when it says no.                        *)
Allow(k) ==
  \/ /\ Full(Kept(k))
     /\ hits' = [hits EXCEPT ![k] = Kept(k)]
     /\ answer' = [key |-> k, ok |-> FALSE]
     /\ UNCHANGED <<admitted, clock>>
  \/ /\ ~Full(Kept(k))
     /\ hits' = [hits EXCEPT ![k] = Kept(k) \cup {Len(admitted[k]) + 1}]
     /\ admitted' = [admitted EXCEPT ![k] = Append(@, clock)]
     /\ answer' = [key |-> k, ok |-> TRUE]
     /\ UNCHANGED clock

Tick ==
  /\ clock < MaxTime
  /\ clock' = clock + 1
  /\ answer' = NULL
  /\ UNCHANGED <<hits, admitted>>

(* The map is in memory: a new process starts with an empty one.           *)
Restart ==
  /\ hits' = [k \in Keys |-> {}]
  /\ admitted' = [k \in Keys |-> <<>>]
  /\ answer' = NULL
  /\ UNCHANGED clock

Next ==
  \/ \E k \in Keys : Allow(k)
  \/ Tick
  \/ Restart

Spec == Init /\ [][Next]_vars

-----------------------------------------------------------------------------
(* The types of the state: an address never takes more memory than its     *)
(* limit, however many requests it sends.                                  *)
TypeOK ==
  /\ clock \in Nat
  /\ admitted \in [Keys -> Seq(Nat)]
  /\ hits \in [Keys -> SUBSET Nat]
  /\ \A k \in Keys : hits[k] \subseteq DOMAIN admitted[k] /\ Cardinality(hits[k]) <= Limit
  /\ answer \in [key : Keys, ok : BOOLEAN] \cup {NULL}

(* Of any Limit + 1 requests of an address that were let through in a row, *)
(* the last came a whole window after the first: although old requests are *)
(* forgotten, no interval shorter than the window sees more than Limit.    *)
WindowBound ==
  \A k \in Keys : \A i, j \in DOMAIN admitted[k] :
    i + Limit <= j => admitted[k][j] - admitted[k][i] >= Window

(* Nobody is turned away who has not used the allowance up: at the moment  *)
(* of a 429, Limit requests of that very address were let through within   *)
(* the last window; those turned away do not count.                        *)
Recent(k) == {i \in DOMAIN admitted[k] : admitted[k][i] > clock - Window}

NoUndueRefusal ==
  answer # NULL /\ ~answer.ok => Cardinality(Recent(answer.key)) >= Limit
=============================================================================
