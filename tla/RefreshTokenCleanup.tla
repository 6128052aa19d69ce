------------------------ MODULE RefreshTokenCleanup ------------------------
(***************************************************************************)
(* runRefreshTokenCleanup: the janitor goroutine of cmd/server with its    *)
(* timer, beside AuthService.                                              *)
(*                                                                         *)
(* The first sweep comes a minute after the start, the next ones six hours *)
(* after the one before has ended, whatever came of that; a sweep has a    *)
(* minute.  The timer does not outlive its process.  It counts minutes,    *)
(* AuthService's clock whatever the lifetimes are given in, so the two run *)
(* beside each other.                                                      *)
(*                                                                         *)
(* lived is history.                                                       *)
(***************************************************************************)
EXTENDS AuthService

CONSTANTS
  FirstDelay,    \* time.Minute, from the start
  Interval,      \* six hours, from the end of a sweep
  SweepTimeout   \* time.Minute, for a sweep

ASSUME TimerAssumption ==
  /\ FirstDelay \in Nat \ {0} /\ Interval \in Nat \ {0} /\ SweepTimeout \in Nat \ {0}

VARIABLES
  janitor,  \* where the goroutine is, the minutes its timer or its sweep has
            \* left, and the "before" of its sweep
  ctxDone,  \* whether the signal has come
  lived     \* the minutes the process has been up without a signal, as far
            \* as they are counted (LongEnough)

janitorVars == <<janitor, ctxDone, lived>>

cleanupVars == <<vars, janitorVars>>

(* A process that has been up for so long has got through a first sweep.   *)
LongEnough == FirstDelay + SweepTimeout + 1

Armed(minutes) == [pc |-> "waiting", left |-> minutes, before |-> 0]

Gone == [pc |-> "gone", left |-> 0, before |-> 0]

CleanupInit ==
  /\ Init
  /\ janitor = Armed(FirstDelay)
  /\ ctxDone = FALSE
  /\ lived = 0

-----------------------------------------------------------------------------
(* The goroutine.                                                          *)

(* Seeded fault: what has a minute to live is swept as well.               *)
BeforeAhead == clock + SweepTimeout

Before == clock

(* The timer has fired: the sweep starts, and reads the time.  (If ctx is  *)
(* done as well, select may choose either.)                                *)
Fire ==
  /\ janitor.pc = "waiting"
  /\ janitor.left = 0
  /\ janitor' = [pc |-> "sweeping", left |-> SweepTimeout, before |-> Before]
  /\ UNCHANGED <<vars, ctxDone, lived>>

(* Seeded fault: after a sweep that failed the timer is not set again.     *)
AfterSweepIfOk(o) == IF Succeeded(o) THEN Armed(Interval) ELSE Gone

(* An error is logged, and the timer set again.                            *)
AfterSweep(o) == Armed(Interval)

(* The sweep returns.  (What is late, or under a ctx that is done, may be  *)
(* refused or go unanswered like any other statement.)                     *)
Sweep(o) ==
  /\ janitor.pc = "sweeping"
  /\ CleanupExpiredRefreshTokens(o, janitor.before)
  /\ janitor' = AfterSweep(o)
  /\ UNCHANGED <<ctxDone, lived>>

(* ctx is done, and the janitor is waiting.                                *)
Return ==
  /\ janitor.pc = "waiting"
  /\ ctxDone
  /\ janitor' = Gone
  /\ UNCHANGED <<vars, ctxDone, lived>>

-----------------------------------------------------------------------------
(* What goes on around it.                                                 *)

(* A minute passes.  What is due is not put off by as much: a timer that   *)
(* has run out fires, and a sweep that has had its time returns.           *)
Minute ==
  /\ janitor.left > 0
  /\ janitor' = [janitor EXCEPT !.left = @ - 1]
  /\ lived' = IF ctxDone \/ lived = LongEnough THEN lived ELSE lived + 1
  /\ UNCHANGED <<vars, ctxDone>>

(* SIGINT or SIGTERM: the process will end, some time.                     *)
Signal ==
  /\ ~ctxDone
  /\ ctxDone' = TRUE
  /\ lived' = 0
  /\ UNCHANGED <<vars, janitor>>

(* The process ends, in one way or another, and the next one starts.       *)
Restart ==
  /\ Crash
  /\ janitor' = Armed(FirstDelay)
  /\ ctxDone' = FALSE
  /\ lived' = 0

(* Requests, operators and the clock.                                      *)
Meanwhile ==
  /\ \/ \E r \in Requests : Accept(r) \/ Serve(r)
     \/ \E u \in Managed : DisableUser(u) \/ EnableUser(u)
     \/ Tick
  /\ UNCHANGED janitorVars

CleanupNext ==
  \/ Fire \/ (\E o \in DBOutcomes : Sweep(o)) \/ Return
  \/ Minute \/ Signal \/ Restart
  \/ Meanwhile

(* The runtime fires timers, and time passes.  A database that is asked    *)
(* again and again, by processes nobody has told to end, does not refuse   *)
(* every time: strong fairness, because between two sweeps there is none   *)
(* to answer.  Nothing is assumed of how long a process lives.             *)
CleanupFairness ==
  /\ WF_cleanupVars(Fire)
  /\ WF_cleanupVars(Minute)
  /\ SF_cleanupVars(~ctxDone /\ Sweep("ok"))

CleanupSpec == CleanupInit /\ [][CleanupNext]_cleanupVars

LiveCleanupSpec == CleanupSpec /\ Fairness /\ CleanupFairness

-----------------------------------------------------------------------------
(* Properties.                                                             *)

(* The types of the janitor's state; what it will sweep is not ahead of    *)
(* the clock.                                                              *)
CleanupTypeOK ==
  /\ janitor.pc \in {"waiting", "sweeping", "gone"}
  /\ janitor.left \in Nat
  /\ janitor.before \in 0..clock
  /\ ctxDone \in BOOLEAN
  /\ lived \in 0..LongEnough

(* "... so the table does not grow unbounded": every dead row goes some    *)
(* day, revoked or not, through sweeps that fail, signals and restarts, as *)
(* long as there is always another process that lives to its first sweep.  *)
ExpiredEventuallyPurged ==
  []<>(lived = LongEnough) =>
    \A t \in Tokens :
      (t \in DOMAIN table /\ issued[t].at + RefreshTTL < clock) ~> t \notin DOMAIN table
=============================================================================
