---------------------------- MODULE SleepDeadline ----------------------------
(***************************************************************************)
(* The scheduler with a history variable: the uptime, never wrapped, at    *)
(* which each thread's last sleep_ms should end.                           *)
(***************************************************************************)
EXTENDS Scheduler

VARIABLE asked

SleepInit == Init /\ asked = [t \in Tid |-> 0]

(* A call of sleep_ms that remembers what was asked for. *)
AskSleep(t) ==
  \E ms \in SleepTimes :
    /\ sleep_ms(t, ms)
    /\ asked' = [asked EXCEPT ![t] = uptime_ms(ticks) + ms]

SleepNext ==
  \/ \E t \in Tid : AskSleep(t)
  \/ ((\E t \in Tid : Act(t) \/ Finish(t)) \/ Interrupt) /\ UNCHANGED asked

sleepVars == <<vars, asked>>
SleepSafe == SleepInit /\ [][SleepNext]_sleepVars

(* sleep_ms returns no earlier than asked: a thread back in its own code has an
   uptime of at least its deadline. *)
SleepsAtLeast == \A t \in Tid : Running(t) => asked[t] <= uptime_ms(ticks)
=============================================================================
