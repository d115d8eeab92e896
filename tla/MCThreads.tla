------------------------------ MODULE MCThreads ------------------------------
(* The scheduler and its threads.  A behaviour is about kernel threads that
   sleep, block and wake each other, or about processes: mode says which. *)
EXTENDS SleepDeadline, Process

VARIABLE mode

everything == <<mode, asked, allVars>>

(* What is not used stands still: the tables empty and every thread past its
   process's end, or no sleep asked for. *)
ThreadsInit ==
  \/ /\ mode = "threads" /\ SleepInit
     /\ procs = {} /\ files = {} /\ reaped = {}
     /\ doing = [t \in Tid |-> "recorded"] /\ arg = [t \in Tid |-> None]
     /\ born = [t \in Tid |-> None] /\ ended = [t \in Tid |-> None]
  \/ mode = "processes" /\ ProcInit /\ asked = [t \in Tid |-> 0]

ThreadsNext ==
  \/ mode = "threads" /\ SleepNext /\ UNCHANGED <<mode, procVars>>
  \/ mode = "processes" /\ ProcNext /\ UNCHANGED <<mode, asked>>

ThreadsSafe == ThreadsInit /\ [][ThreadsNext]_everything

(* The next step of a call that thread t is inside of. *)
GoesOn(t) ==
  \/ mode = "threads" /\ Finish(t) /\ UNCHANGED <<mode, asked, procVars>>
  \/ mode = "processes" /\ Continue(t) /\ UNCHANGED <<mode, asked>>

(* Fairness of Scheduler, and a process inside a call goes on with it when it is
   given the CPU again and again.  The idle thread is never inside a call. *)
ThreadsFair ==
  /\ ThreadsSafe
  /\ WF_everything(tick /\ UNCHANGED <<mode, asked, procVars>>)
  /\ WF_everything(switch_context /\ UNCHANGED <<mode, asked, procVars>>)
  /\ WF_everything(finish_switch /\ UNCHANGED <<mode, asked, procVars>>)
  /\ \A t \in Tid \ {IdleId} : SF_everything(GoesOn(t))
=============================================================================
