----------------------------- MODULE MCBlocking -----------------------------
(* The two blocking primitives on the scheduler.  A behaviour is about threads
   that share one mutex or threads that share one semaphore: object says which. *)
EXTENDS BlockingMutex, BlockingSemaphore

VARIABLE object

everything == <<object, allVars, semVars>>

(* The object that is not used stands still: the mutex as taken, the semaphore
   with all its permits. *)
BlockingInit ==
  \/ /\ object = "mutex" /\ MutexInit
     /\ count = Permits /\ place = [t \in Tid |-> "out"] /\ cur = [t \in Tid |-> 0]
  \/ object = "semaphore" /\ SemInit /\ locked = TRUE /\ at = [t \in Tid |-> "out"]

BlockingNext ==
  \/ object = "mutex" /\ MutexNext /\ UNCHANGED <<object, semVars>>
  \/ object = "semaphore" /\ SemNext /\ UNCHANGED <<object, mutexVars>>

(* The next step of a call that thread t is inside of. *)
GoesOn(t) ==
  \/ object = "mutex" /\ Continue(t) /\ UNCHANGED <<object, semVars>>
  \/ object = "semaphore" /\ SemContinue(t) /\ UNCHANGED <<object, mutexVars>>

(* As MutexFair and SemFair. *)
BlockingFair ==
  /\ BlockingInit /\ [][BlockingNext]_everything
  /\ WF_everything(tick /\ UNCHANGED <<object, mutexVars, semVars>>)
  /\ WF_everything(switch_context /\ UNCHANGED <<object, mutexVars, semVars>>)
  /\ WF_everything(finish_switch /\ UNCHANGED <<object, mutexVars, semVars>>)
  /\ \A t \in Tid : SF_everything(GoesOn(t))
=============================================================================
