----------------------- MODULE LoginRateLimiterProofs -----------------------
(***************************************************************************)
(* Proofs about LoginRateLimiter, for any addresses, limit and window.     *)
(*                                                                         *)
(* WindowBound speaks of all requests ever admitted and the limiter sees   *)
(* only those it remembers.  The invariant that bridges the two is that    *)
(* whatever it has forgotten had left the window (Remembered), and that    *)
(* admissions are in the order of time (InOrder).                          *)
(***************************************************************************)
EXTENDS LoginRateLimiter, FiniteSetTheorems, TLAPS

(* Admissions are in the order of time, and in the past.                   *)
InOrder ==
  \A k \in Keys : \A i, j \in DOMAIN admitted[k] :
    i <= j => admitted[k][i] <= admitted[k][j] /\ admitted[k][j] <= clock

(* A request that is not remembered has left the window.                   *)
Remembered ==
  \A k \in Keys : \A i \in DOMAIN admitted[k] :
    i \notin hits[k] => admitted[k][i] <= clock - Window

IInv == TypeOK /\ InOrder /\ Remembered /\ WindowBound /\ NoUndueRefusal

-----------------------------------------------------------------------------
(* The positions of a finite history are finitely many.                    *)
LEMMA FinitePositions ==
  ASSUME NEW s \in Seq(Nat)
  PROVE  /\ DOMAIN s = 1..Len(s) /\ Len(s) \in Nat
         /\ IsFiniteSet(DOMAIN s)
  BY FS_Interval

(* Nothing was admitted or remembered before the first request.            *)
LEMMA Fresh ==
  ASSUME hits = [k \in Keys |-> {}], admitted = [k \in Keys |-> <<>>], answer = NULL,
         clock \in Nat
  PROVE  IInv
<1>1. \A k \in Keys : DOMAIN admitted[k] = {} /\ admitted[k] \in Seq(Nat)
  OBVIOUS
<1>2. Cardinality({}) = 0
  BY FS_EmptySet
<1>3. TypeOK
  BY <1>1, <1>2, LimitAssumption DEF TypeOK
<1> QED
  BY <1>1, <1>3 DEF IInv, InOrder, Remembered, WindowBound, NoUndueRefusal

(* A request that finds the allowance used up.                             *)
LEMMA RefuseInv ==
  ASSUME IInv, NEW k \in Keys, Full(Kept(k)),
         hits' = [hits EXCEPT ![k] = Kept(k)],
         answer' = [key |-> k, ok |-> FALSE],
         UNCHANGED <<admitted, clock>>
  PROVE  IInv'
<1>1. /\ Kept(k) \subseteq hits[k] /\ hits[k] \subseteq DOMAIN admitted[k]
      /\ Kept(k) \subseteq Recent(k) /\ Recent(k) \subseteq DOMAIN admitted[k]
      /\ Kept(k) \subseteq Nat
  BY DEF IInv, TypeOK, Kept, Recent
<1>2. IsFiniteSet(DOMAIN admitted[k])
  BY FinitePositions DEF IInv, TypeOK
<1>3. /\ IsFiniteSet(hits[k]) /\ IsFiniteSet(Kept(k)) /\ IsFiniteSet(Recent(k))
      /\ Cardinality(Kept(k)) <= Cardinality(hits[k])
      /\ Cardinality(Kept(k)) <= Cardinality(Recent(k))
      /\ Cardinality(Kept(k)) \in Nat /\ Cardinality(hits[k]) \in Nat
      /\ Cardinality(Recent(k)) \in Nat
  BY <1>1, <1>2, FS_Subset, FS_CardinalityType
<1>4. TypeOK'
  BY <1>1, <1>3, LimitAssumption DEF IInv, TypeOK
<1>5. Remembered'
  <2> SUFFICES ASSUME NEW x \in Keys, NEW i \in DOMAIN admitted[x], i \notin hits'[x]
               PROVE  admitted[x][i] <= clock - Window
    BY DEF Remembered
  <2>1. admitted[x][i] \in Nat
    BY DEF IInv, TypeOK
  <2>2. CASE i \in hits[x]
    BY <2>1, <2>2, LimitAssumption DEF IInv, TypeOK, Kept
  <2>3. CASE i \notin hits[x]
    BY <2>3 DEF IInv, Remembered
  <2> QED
    BY <2>2, <2>3
<1>6. NoUndueRefusal'
  <2>1. Cardinality(Recent(k)) >= Limit
    BY <1>3, LimitAssumption DEF Full
  <2>2. Recent(k)' = Recent(k)
    BY DEF Recent
  <2> QED
    BY <2>1, <2>2 DEF NoUndueRefusal
<1>7. InOrder' /\ WindowBound'
  BY DEF IInv, InOrder, WindowBound
<1> QED
  BY <1>4, <1>5, <1>6, <1>7 DEF IInv

(* A request that is let through.                                          *)
LEMMA AdmitInv ==
  ASSUME IInv, NEW k \in Keys, ~Full(Kept(k)),
         hits' = [hits EXCEPT ![k] = Kept(k) \cup {Len(admitted[k]) + 1}],
         admitted' = [admitted EXCEPT ![k] = Append(@, clock)],
         answer' = [key |-> k, ok |-> TRUE],
         UNCHANGED clock
  PROVE  IInv'
<1>0. clock \in Nat /\ admitted[k] \in Seq(Nat) /\ Limit \in Nat /\ Window \in Nat /\ Limit > 0
  BY LimitAssumption DEF IInv, TypeOK
<1>1. PICK n \in Nat : n = Len(admitted[k])
  BY <1>0
<1>2. /\ DOMAIN admitted[k] = 1..n
      /\ DOMAIN admitted'[k] = 1..(n + 1)
      /\ admitted' \in [Keys -> Seq(Nat)]
      /\ \A i \in 1..n : admitted'[k][i] = admitted[k][i]
      /\ admitted'[k][n + 1] = clock
      /\ \A x \in Keys \ {k} : admitted'[x] = admitted[x] /\ hits'[x] = hits[x]
      /\ hits'[k] = Kept(k) \cup {n + 1}
  BY <1>0, <1>1 DEF IInv, TypeOK
<1>3. Kept(k) \subseteq 1..n /\ IsFiniteSet(Kept(k)) /\ n + 1 \notin Kept(k)
  <2>1. Kept(k) \subseteq 1..n
    BY <1>2 DEF IInv, TypeOK, Kept
  <2>2. IsFiniteSet(1..n)
    BY <1>1, FS_Interval
  <2> QED
    BY <1>1, <2>1, <2>2, FS_Subset
<1>4. Cardinality(Kept(k)) \in Nat /\ Cardinality(Kept(k)) < Limit
  BY <1>0, <1>3, FS_CardinalityType DEF Full
<1>5. \A i \in 1..n : admitted[k][i] \in Nat /\ admitted[k][i] <= clock
  <2>1. \A i \in DOMAIN admitted[k] : i <= i /\ admitted[k][i] \in Nat
    BY <1>0, <1>1, <1>2
  <2> QED
    BY <1>2, <2>1 DEF IInv, InOrder
<1>6. TypeOK'
  <2>1. Cardinality(hits'[k]) = Cardinality(Kept(k)) + 1
    BY <1>2, <1>3, FS_AddElement
  <2>2. hits' \in [Keys -> SUBSET Nat]
    BY <1>1, <1>2, <1>3 DEF IInv, TypeOK
  <2>3. \A x \in Keys : hits'[x] \subseteq DOMAIN admitted'[x] /\ Cardinality(hits'[x]) <= Limit
    BY <1>0, <1>2, <1>3, <1>4, <2>1 DEF IInv, TypeOK
  <2> QED
    BY <1>0, <1>2, <2>2, <2>3 DEF TypeOK
<1>7. InOrder'
  <2> SUFFICES ASSUME NEW x \in Keys, NEW i \in DOMAIN admitted'[x],
                      NEW j \in DOMAIN admitted'[x], i <= j
               PROVE  admitted'[x][i] <= admitted'[x][j] /\ admitted'[x][j] <= clock
    BY DEF InOrder
  <2>1. CASE x = k
    <3>1. i \in 1..(n + 1) /\ j \in 1..(n + 1) /\ (j \in 1..n => i \in 1..n)
      BY <1>1, <1>2, <2>1
    <3>2. CASE j \in 1..n
      BY <1>2, <2>1, <3>1, <3>2 DEF IInv, InOrder
    <3>3. CASE j = n + 1
      BY <1>0, <1>2, <1>5, <2>1, <3>1, <3>3
    <3> QED
      BY <1>1, <3>1, <3>2, <3>3
  <2>2. CASE x # k
    BY <1>2, <2>2 DEF IInv, InOrder
  <2> QED
    BY <2>1, <2>2
<1>8. Remembered'
  <2> SUFFICES ASSUME NEW x \in Keys, NEW i \in DOMAIN admitted'[x], i \notin hits'[x]
               PROVE  admitted'[x][i] <= clock - Window
    BY DEF Remembered
  <2>1. CASE x = k
    BY <1>0, <1>2, <1>5, <2>1 DEF IInv, Remembered, Kept
  <2>2. CASE x # k
    BY <1>2, <2>2 DEF IInv, Remembered
  <2> QED
    BY <2>1, <2>2
<1>9. WindowBound'
  <2> SUFFICES ASSUME NEW x \in Keys, NEW i \in DOMAIN admitted'[x],
                      NEW j \in DOMAIN admitted'[x], i + Limit <= j
               PROVE  admitted'[x][j] - admitted'[x][i] >= Window
    BY DEF WindowBound
  <2>1. CASE x # k
    BY <1>2, <2>1 DEF IInv, WindowBound
  <2>2. CASE x = k /\ j # n + 1
    <3>1. i \in 1..n /\ j \in 1..n
      BY <1>0, <1>1, <1>2, <2>2
    <3> QED
      BY <1>2, <2>2, <3>1 DEF IInv, WindowBound
  <2>3. CASE x = k /\ j = n + 1
    <3>1. i \in 1..n
      BY <1>0, <1>1, <1>2, <2>3
    <3> SUFFICES ASSUME admitted[k][i] > clock - Window PROVE FALSE
      BY <1>0, <1>2, <1>5, <2>3, <3>1
    <3>2. \A h \in i..n : h \in Kept(k)
      <4> SUFFICES ASSUME NEW h \in i..n PROVE h \in Kept(k)
        OBVIOUS
      <4>1. h \in 1..n /\ admitted[k][i] <= admitted[k][h]
        <5>1. h \in 1..n /\ i <= h
          BY <1>1, <3>1
        <5> QED
          BY <1>2, <3>1, <5>1 DEF IInv, InOrder
      <4>2. admitted[k][h] > clock - Window
        BY <1>0, <1>5, <3>1, <4>1
      <4>3. h \in hits[k]
        <5>1. ~(admitted[k][h] <= clock - Window)
          BY <1>0, <1>5, <4>1, <4>2
        <5> QED
          BY <1>2, <4>1, <5>1 DEF IInv, Remembered
      <4> QED
        BY <4>2, <4>3 DEF Kept
    <3>3. Cardinality(i..n) = n - i + 1
      BY <3>1, FS_Interval
    <3>4. Cardinality(i..n) <= Cardinality(Kept(k))
      BY <1>3, <3>2, FS_Subset
    <3> QED
      BY <1>0, <1>4, <2>3, <3>1, <3>3, <3>4
  <2> QED
    BY <2>1, <2>2, <2>3
<1>10. NoUndueRefusal'
  BY DEF NoUndueRefusal
<1> QED
  BY <1>6, <1>7, <1>8, <1>9, <1>10 DEF IInv

(* As time passes, requests leave the window and none enters it.           *)
LEMMA TickInv == IInv /\ Tick => IInv'
<1> SUFFICES ASSUME IInv, Tick PROVE IInv'
  OBVIOUS
<1>1. TypeOK' /\ WindowBound' /\ NoUndueRefusal'
  BY DEF IInv, TypeOK, WindowBound, NoUndueRefusal, Tick
<1>2. \A k \in Keys : \A i \in DOMAIN admitted[k] : admitted[k][i] \in Nat
  BY DEF IInv, TypeOK
<1>3. InOrder' /\ Remembered'
  BY <1>2, LimitAssumption DEF IInv, TypeOK, InOrder, Remembered, Tick
<1> QED
  BY <1>1, <1>3 DEF IInv

(* Every step keeps the invariant.                                         *)
LEMMA NextInv == IInv /\ [Next]_vars => IInv'
<1> SUFFICES ASSUME IInv, [Next]_vars PROVE IInv'
  OBVIOUS
<1>1. ASSUME NEW k \in Keys, Allow(k) PROVE IInv'
  BY <1>1, RefuseInv, AdmitInv DEF Allow
<1>2. CASE Tick
  BY <1>2, TickInv
<1>3. CASE Restart
  <2>1. /\ hits' = [k \in Keys |-> {}] /\ admitted' = [k \in Keys |-> <<>>]
        /\ answer' = NULL /\ clock' \in Nat
    BY <1>3 DEF Restart, IInv, TypeOK
  <2>2. \A k \in Keys : DOMAIN admitted'[k] = {} /\ admitted'[k] \in Seq(Nat)
    BY <2>1
  <2>3. TypeOK'
    BY <2>1, <2>2, FS_EmptySet, LimitAssumption DEF TypeOK
  <2> QED
    BY <2>1, <2>2, <2>3 DEF IInv, InOrder, Remembered, WindowBound, NoUndueRefusal
<1>4. CASE UNCHANGED vars
  BY <1>4 DEF vars, IInv, TypeOK, InOrder, Remembered, WindowBound, NoUndueRefusal, Recent
<1> QED
  BY <1>1, <1>2, <1>3, <1>4 DEF Next

(* The invariant holds throughout.                                         *)
LEMMA Invariance == Spec => []IInv
<1>1. Init => IInv
  BY Fresh DEF Init
<1>2. IInv /\ [Next]_vars => IInv'
  BY NextInv
<1> QED
  BY <1>1, <1>2, PTL DEF Spec

-----------------------------------------------------------------------------
(* The limiter's memory of an address is bounded by its limit.             *)
THEOREM MemoryBounded == Spec => []TypeOK
<1>1. IInv => TypeOK
  BY DEF IInv
<1> QED
  BY <1>1, Invariance, PTL

(* loginRateLimiter.allow never lets more than Limit requests through in   *)
(* less than a window, although it forgets.                                *)
THEOREM RateBounded == Spec => []WindowBound
<1>1. IInv => WindowBound
  BY DEF IInv
<1> QED
  BY <1>1, Invariance, PTL

(* A 429 is only sent to an address that has used its allowance up.        *)
THEOREM RefusalsJustified == Spec => []NoUndueRefusal
<1>1. IInv => NoUndueRefusal
  BY DEF IInv
<1> QED
  BY <1>1, Invariance, PTL
=============================================================================
