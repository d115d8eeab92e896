---------------------------- MODULE BlockingMutex ----------------------------
(***************************************************************************)
(* blocking::Mutex (src/src/blocking.rs) on top of the scheduler: threads  *)
(* that lock, try to lock and unlock one mutex, yield while they hold it,  *)
(* and are preempted at any point, the two halves of the guard's drop      *)
(* included.                                                               *)
(***************************************************************************)
EXTENDS Scheduler

CONSTANTS Q,         \* the mutex's WaitQueue
          Workers    \* how many threads besides boot and idle use it

ASSUME MutexAssumption ==
  Queues = {Q} /\ Workers \in Nat /\ Workers < MaxId /\ Workers < MaxSlots

VARIABLES
  locked,    \* Mutex.locked
  at         \* where each thread is with respect to the mutex

mutexVars == <<locked, at>>
allVars == <<vars, mutexVars>>

(* "want": inside lock(), its last swap failed; "hold": has the guard;
   "drop": the guard's drop has stored false and not yet called wake_one. *)
At == {"out", "want", "hold", "drop"}

MutexInit ==
  /\ Booted(Workers + 1)
  /\ locked = FALSE
  /\ at = [t \in Tid |-> "out"]

(* mutant: the test and the parking are two sections *)
lock_tests_then_parks(t) ==
  /\ Running(t) /\ t # IdleId
  /\ \/ /\ at[t] = "out" /\ locked' = TRUE
        /\ at' = [at EXCEPT ![t] = IF locked THEN "want" ELSE "hold"]
        /\ UNCHANGED vars
     \/ at[t] = "want" /\ wait(t, Q) /\ UNCHANGED mutexVars

(* lock(): one round of wait_until, with interrupts off throughout.  The swap
   either takes the lock, or the thread parks on the queue before anyone else
   can run. *)
lock(t) ==
  /\ Running(t) /\ t # IdleId /\ at[t] \in {"out", "want"}
  /\ locked' = TRUE
  /\ \/ /\ ~locked
        /\ at' = [at EXCEPT ![t] = "hold"]
        /\ UNCHANGED vars
     \/ /\ locked
        /\ at' = [at EXCEPT ![t] = "want"]
        /\ wait(t, Q)

(* mutant: the result of the compare-exchange is ignored *)
try_lock_always(t) ==
  /\ Running(t) /\ t # IdleId /\ at[t] = "out"
  /\ locked' = TRUE
  /\ at' = [at EXCEPT ![t] = "hold"]
  /\ UNCHANGED vars

(* try_lock(): succeeds only if the lock is free right now. *)
try_lock(t) ==
  /\ Running(t) /\ t # IdleId /\ at[t] = "out"
  /\ ~locked
  /\ locked' = TRUE
  /\ at' = [at EXCEPT ![t] = "hold"]
  /\ UNCHANGED vars

(* MutexGuard::drop, first half: locked.store(false). *)
unlock(t) ==
  /\ Running(t) /\ at[t] = "hold"
  /\ locked' = FALSE
  /\ at' = [at EXCEPT ![t] = "drop"]
  /\ UNCHANGED vars

(* mutant: nobody is woken *)
unlock_wake_nobody(t) ==
  /\ Running(t) /\ at[t] = "drop"
  /\ at' = [at EXCEPT ![t] = "out"]
  /\ UNCHANGED <<vars, locked>>

(* MutexGuard::drop, second half: queue.wake_one(), up to the point where the
   woken thread is a local of the caller; push_woken makes it ready. *)
unlock_wake(t) ==
  /\ Running(t) /\ at[t] = "drop"
  /\ at' = [at EXCEPT ![t] = "out"]
  /\ \/ wake_one(t, Q)
     \/ waiters[Q] = <<>> /\ UNCHANGED vars
  /\ UNCHANGED locked

(* A worker yields, inside or outside the critical section, or ends. *)
other(t) ==
  /\ \/ at[t] \in {"out", "hold"} /\ yield_now(t)
     \/ at[t] = "out" /\ exit(t)
  /\ UNCHANGED mutexVars

(* The scheduler's own steps. *)
System ==
  /\ \/ tick \/ switch_context \/ finish_switch
     \/ \E t \in Tid : push_woken(t)
  /\ UNCHANGED mutexVars

MutexNext ==
  \/ \E t \in Tid : lock(t) \/ try_lock(t) \/ unlock(t) \/ unlock_wake(t) \/ other(t)
  \/ System

MutexSafe == MutexInit /\ [][MutexNext]_allVars

(* A thread inside lock() or the guard's drop does its next step. *)
Continue(t) ==
  \/ push_woken(t) /\ UNCHANGED mutexVars
  \/ at[t] = "want" /\ lock(t)
  \/ unlock_wake(t)

(* The scheduler's fairness; and a thread in the middle of lock() or drop that
   is given the CPU again and again gets its next step done.  Nothing is
   assumed of a thread that holds the guard or has not asked for it. *)
MutexFair ==
  /\ MutexSafe
  /\ WF_allVars(tick /\ UNCHANGED mutexVars)
  /\ WF_allVars(switch_context /\ UNCHANGED mutexVars)
  /\ WF_allVars(finish_switch /\ UNCHANGED mutexVars)
  /\ \A t \in Tid : SF_allVars(Continue(t))

-----------------------------------------------------------------------------
MutexTypeOK == locked \in BOOLEAN /\ at \in [Tid -> At]

Holders == {t \in Tid : at[t] = "hold"}

(* Two guards never exist at once, and the flag says whether one does: what
   mutex_worker's unsynchronised read-modify-write of the data relies on. *)
MutualExclusion ==
  /\ \A s, t \in Holders : s = t
  /\ locked <=> Holders # {}

(* The threads inside lock() that will run the swap again without being woken
   by anyone: taken off the queue and not yet back on it. *)
Retrying == {t \in Tid : at[t] = "want" /\ t \notin Range(waiters[Q])}
Dropping == {t \in Tid : at[t] = "drop"}

(* No wakeup is lost: while the lock is free and threads are parked on it, a
   thread is on its way to wake one of them or to take the lock itself.
   This is why waking one waiter per unlock is enough. *)
NoLostWakeup == ~locked /\ waiters[Q] # <<>> => Retrying \cup Dropping # {}

(* The thread that has the guard. *)
Owner == IF Holders = {} THEN None ELSE CHOOSE t \in Tid : at[t] = "hold"
Abstract == INSTANCE MutexSpec WITH Thread <- Tid, Nobody <- None, owner <- Owner

(* The detailed mutex implements the abstract one: a guard is handed out only
   when there is none, whatever lock, try_lock and the two halves of the drop
   interleave with. *)
ImplementsMutex == Abstract!Spec

(* A free lock that somebody waits for is taken: by one of the waiters, or by
   a thread that came in between. *)
FreeLockIsTaken == ~locked /\ (\E t \in Tid : at[t] = "want") ~> locked
=============================================================================
