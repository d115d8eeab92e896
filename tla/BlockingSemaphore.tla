-------------------------- MODULE BlockingSemaphore --------------------------
(***************************************************************************)
(* blocking::Semaphore (src/src/blocking.rs) on top of the scheduler:      *)
(* threads that acquire, try to acquire and release the permits of one     *)
(* semaphore and are preempted at any point where interrupts are on.       *)
(***************************************************************************)
EXTENDS Scheduler

CONSTANTS SemQ,         \* the semaphore's WaitQueue
          SemWorkers,   \* how many threads besides boot and idle use it
          Permits       \* the argument of Semaphore::new

ASSUME SemAssumption ==
  /\ SemQ \in Queues /\ Permits \in Nat
  /\ SemWorkers \in Nat /\ SemWorkers < MaxId /\ SemWorkers < MaxSlots

VARIABLES
  count,     \* Semaphore.count
  place,     \* where each thread is with respect to the semaphore
  cur        \* the local of try_acquire: the count it last read

semVars == <<count, place, cur>>
semAllVars == <<vars, semVars>>

(* "want": inside acquire(), its last test failed; "try": in try_acquire's
   loop; "hold": has a permit; "give": release has added its permit back and
   not yet called wake_one. *)
SemAt == {"out", "want", "try", "hold", "give"}

SemInit ==
  /\ Booted(SemWorkers + 1)
  /\ count = Permits
  /\ place = [t \in Tid |-> "out"]
  /\ cur = [t \in Tid |-> 0]

(* acquire(): one round of wait_until.  Interrupts are off, so its
   compare-exchange never fails and the thread is parked before anyone else
   can run. *)
acquire(t) ==
  /\ Running(t) /\ t # IdleId /\ place[t] \in {"out", "want"}
  /\ UNCHANGED cur
  /\ \/ /\ count > 0
        /\ count' = count - 1
        /\ place' = [place EXCEPT ![t] = "hold"]
        /\ UNCHANGED vars
     \/ /\ count <= 0
        /\ place' = [place EXCEPT ![t] = "want"]
        /\ wait(t, SemQ)
        /\ UNCHANGED count

(* try_acquire(): the first load, with interrupts on. *)
try_acquire(t) ==
  /\ Running(t) /\ t # IdleId /\ place[t] = "out"
  /\ count > 0
  /\ cur' = [cur EXCEPT ![t] = count]
  /\ place' = [place EXCEPT ![t] = "try"]
  /\ UNCHANGED <<vars, count>>

(* mutant: a plain store of what was read, less one *)
compare_exchange_blind(t) ==
  /\ Running(t) /\ place[t] = "try"
  /\ count' = cur[t] - 1
  /\ cur' = [cur EXCEPT ![t] = 0]
  /\ place' = [place EXCEPT ![t] = "hold"]
  /\ UNCHANGED vars

(* try_acquire(): one compare-exchange.  It takes a permit if the count is
   still what was read; otherwise it tries again with what it found, or gives
   up when that is zero. *)
compare_exchange(t) ==
  /\ Running(t) /\ place[t] = "try"
  /\ \/ /\ count = cur[t]
        /\ count' = cur[t] - 1
        /\ cur' = [cur EXCEPT ![t] = 0]
        /\ place' = [place EXCEPT ![t] = "hold"]
     \/ /\ count # cur[t] /\ count > 0
        /\ cur' = [cur EXCEPT ![t] = count]
        /\ UNCHANGED <<count, place>>
     \/ /\ count # cur[t] /\ count <= 0
        /\ cur' = [cur EXCEPT ![t] = 0]
        /\ place' = [place EXCEPT ![t] = "out"]
        /\ UNCHANGED count
  /\ UNCHANGED vars

(* release(): count.fetch_add(1). *)
release(t) ==
  /\ Running(t) /\ place[t] = "hold"
  /\ count' = count + 1
  /\ place' = [place EXCEPT ![t] = "give"]
  /\ UNCHANGED <<vars, cur>>

(* mutant: nobody is woken *)
release_wake_nobody(t) ==
  /\ Running(t) /\ place[t] = "give"
  /\ place' = [place EXCEPT ![t] = "out"]
  /\ UNCHANGED <<vars, count, cur>>

(* release(): queue.wake_one(), up to the point where the woken thread is a
   local of the caller; push_woken makes it ready. *)
release_wake(t) ==
  /\ Running(t) /\ place[t] = "give"
  /\ place' = [place EXCEPT ![t] = "out"]
  /\ \/ wake_one(t, SemQ)
     \/ waiters[SemQ] = <<>> /\ UNCHANGED vars
  /\ UNCHANGED <<count, cur>>

(* A worker yields, inside or outside, or ends. *)
sem_other(t) ==
  /\ \/ place[t] \in {"out", "hold"} /\ yield_now(t)
     \/ place[t] = "out" /\ exit(t)
  /\ UNCHANGED semVars

(* The scheduler's own steps. *)
SemSystem ==
  /\ \/ tick \/ switch_context \/ finish_switch
     \/ \E t \in Tid : push_woken(t)
  /\ UNCHANGED semVars

SemNext ==
  \/ \E t \in Tid : \/ acquire(t) \/ try_acquire(t) \/ compare_exchange(t)
                    \/ release(t) \/ release_wake(t) \/ sem_other(t)
  \/ SemSystem

SemSafe == SemInit /\ [][SemNext]_semAllVars

(* A thread inside acquire(), try_acquire() or release() does its next step. *)
SemContinue(t) ==
  \/ push_woken(t) /\ UNCHANGED semVars
  \/ place[t] = "want" /\ acquire(t)
  \/ compare_exchange(t)
  \/ release_wake(t)

(* As for the mutex: a thread in the middle of a call that is given the CPU
   again and again gets its next step done. *)
SemFair ==
  /\ SemSafe
  /\ WF_semAllVars(tick /\ UNCHANGED semVars)
  /\ WF_semAllVars(switch_context /\ UNCHANGED semVars)
  /\ WF_semAllVars(finish_switch /\ UNCHANGED semVars)
  /\ \A t \in Tid : SF_semAllVars(SemContinue(t))

-----------------------------------------------------------------------------
PermitHolders == {t \in Tid : place[t] = "hold"}

(* Permits are neither lost nor made up: each is in the count or with a
   thread, whatever the interleaving of acquire, try_acquire and release. *)
PermitsConserved == count + Cardinality(PermitHolders) = Permits

(* Free permits do not sit beside waiting threads for ever: they are all taken
   or nobody waits any more. *)
FreePermitIsTaken ==
  LET wanted == \E t \in Tid : place[t] = "want"
  IN  count > 0 /\ wanted ~> count = 0 \/ ~wanted
=============================================================================
