----------------------------- MODULE ThreadProofs -----------------------------
(***************************************************************************)
(* What threads rely on, for any number of them: sleep_ms never returns    *)
(* early while the u64 deadline does not wrap; the semaphore neither loses *)
(* a permit nor leaves one beside its waiters; the mutex excludes, loses   *)
(* no wakeup, and implements MutexSpec.                                    *)
(***************************************************************************)
EXTENDS SleepDeadline, BlockingSemaphore, BlockingMutex, SchedulerProofs, FiniteSetTheorems

(* No deadline wraps around u64: the uptime stays below 2^64 - ms for every ms
   that sleep_ms is called with. *)
NoWrap == \A ms \in SleepTimes : MaxTicks + ms < Word

(* A thread whose deadline has not come is on its way to sleep or asleep. *)
StillAsleep ==
  /\ asked \in [Tid -> Nat]
  /\ \A t \in Tid : asked[t] > ticks =>
       (pc[t] = "sleep" \/ t \in sleeping) /\ wake_at[t] = asked[t]

SleepInv == IInv /\ StillAsleep

SemTypeOK ==
  /\ count \in Nat /\ place \in [Tid -> SemAt] /\ cur \in [Tid -> Nat]
  /\ \A t \in Tid : place[t] = "try" => cur[t] > 0

(* Only threads inside acquire() are parked on the semaphore's queue. *)
SemWaitersWant == \A t \in Range(waiters[SemQ]) : place[t] = "want"

(* The threads on the way to a free permit or to waking a waiter. *)
Acquiring == {t \in Tid : place[t] = "want" /\ t \notin Range(waiters[SemQ])}
Giving == {t \in Tid : place[t] = "give"}

(* No lost wakeup: while threads are parked, every free permit has a thread on
   its way, one that was woken and will test again or one that is about to wake
   a waiter. *)
PermitsAwaited == waiters[SemQ] # <<>> => count <= Cardinality(Acquiring) + Cardinality(Giving)

SemInv == IInv /\ SemTypeOK /\ PermitsConserved /\ SemWaitersWant /\ PermitsAwaited

----------------------------------------------------------------------------
(* Sleeping *)

(* reschedule wakes the sleepers that are due, and nobody else. *)
LEMMA RescheduleSleepers ==
  ASSUME NEW how, NEW q, NEW n, reschedule(how, q, n)
  PROVE  /\ sleeping \ Due(n) \subseteq sleeping'
         /\ how = "Sleep" => current \in sleeping'
BY Zenon DEF reschedule

(* Apart from sleep_ms itself, no step changes a deadline, wakes a thread before
   its deadline or loses one on its way to sleep. *)
LEMMA SleepersKept ==
  ASSUME TypeOK, (\E t \in Tid : Act(t) \/ Finish(t)) \/ Interrupt
  PROVE  /\ wake_at' = wake_at /\ ticks' \in Nat /\ ticks <= ticks'
         /\ \A u \in sleeping : wake_at[u] > ticks' => u \in sleeping'
         /\ \A u \in Tid : pc[u] = "sleep" => pc'[u] = "sleep" \/ u \in sleeping'
<1>0. ticks \in Nat /\ wake_at \in [Tid -> Nat] /\ pc \in [Tid -> Pc] /\ sleeping \subseteq Tid
  BY ConstAssumption, SMTT(30) DEF TypeOK
<1>1. ASSUME NEW how, NEW q, NEW n \in Nat, reschedule(how, q, n)
      PROVE  \A u \in sleeping : wake_at[u] > n => u \in sleeping'
  <2>1. \A u \in sleeping : wake_at[u] > n => u \notin Due(n)
    BY <1>0, <1>1, SMTT(30) DEF Due, uptime_ms
  <2> QED BY <1>1, <2>1, RescheduleSleepers, Zenon
<1>2. ASSUME NEW t \in Tid, yield_now(t) \/ exit(t) \/ \E q \in Queues : wait(t, q)
      PROVE  /\ wake_at' = wake_at /\ ticks' = ticks /\ pc' = pc
             /\ \A u \in sleeping : wake_at[u] > ticks => u \in sleeping'
  BY <1>0, <1>1, <1>2, Zenon DEF yield_now, exit, wait
<1>3. ASSUME NEW t \in Tid,
             \/ \E q \in Queues : wake_one(t, q) \/ wake_all(t, q)
             \/ \E isUser \in BOOLEAN : create_thread(t, isUser)
             \/ push_woken(t) \/ spawn(t) \/ spawn_fails(t)
      PROVE  /\ wake_at' = wake_at /\ ticks' = ticks /\ sleeping' = sleeping
             /\ \A u \in Tid : pc[u] = "sleep" => pc'[u] = "sleep"
  <2>1. \E s \in Pc : pc' = [pc EXCEPT ![t] = s] /\ pc[t] # "sleep"
    BY <1>3, ZenonT(60) DEF wake_one, wake_all, take_waiters, create_thread, push_woken, spawn, spawn_fails,
                Running, Inside, Pc
  <2>2. wake_at' = wake_at /\ ticks' = ticks /\ sleeping' = sleeping
    BY <1>3, ZenonT(60) DEF wake_one, wake_all, take_waiters, create_thread, push_woken, spawn, spawn_fails,
                places
  <2> QED BY <1>0, <2>1, <2>2, Zenon
<1>4. ASSUME NEW t \in Tid, sleep_park(t)
      PROVE  /\ wake_at' = wake_at /\ ticks' = ticks
             /\ \A u \in sleeping : wake_at[u] > ticks => u \in sleeping'
             /\ \A u \in Tid : pc[u] = "sleep" => pc'[u] = "sleep" \/ u \in sleeping'
  <2>1. /\ current = t /\ reschedule("Sleep", None, ticks) /\ pc' = [pc EXCEPT ![t] = "run"]
        /\ wake_at' = wake_at /\ ticks' = ticks
    BY <1>4, Zenon DEF sleep_park, Inside
  <2>2. t \in sleeping'
    BY <2>1, RescheduleSleepers, Zenon
  <2> QED BY <1>0, <1>1, <2>1, <2>2, Zenon
<1>5. CASE tick
  <2> DEFINE n == IF ticks < MaxTicks THEN ticks + 1 ELSE ticks
  <2>1. n \in Nat /\ ticks <= n
    BY <1>0, SMTT(30)
  <2>2. /\ ticks' = n /\ wake_at' = wake_at /\ pc' = pc
        /\ reschedule("Yield", None, n) \/ sleeping' = sleeping
    BY <1>5, Zenon DEF tick, places
  <2> QED BY <1>0, <1>1, <2>1, <2>2, Zenon
<1>6. CASE switch_context \/ finish_switch
  BY <1>0, <1>6, SMTT(30) DEF switch_context, finish_switch, places
<1> QED BY <1>0, <1>2, <1>3, <1>4, <1>5, <1>6, SMTT(30) DEF Act, Finish, Interrupt

(* Every step of the sleep model keeps its invariant. *)
LEMMA SleepNextOK == ASSUME NoWrap, SleepInv, [SleepNext]_sleepVars PROVE SleepInv'
<1>0. /\ ticks \in Nat /\ ticks <= MaxTicks /\ wake_at \in [Tid -> Nat] /\ pc \in [Tid -> Pc]
      /\ sleeping \subseteq Tid /\ asked \in [Tid -> Nat]
  BY ConstAssumption, SMTT(30) DEF SleepInv, StillAsleep, IInv, TypeOK
<1>1. IInv'
  <2>1. [Next]_vars
    BY Zenon DEF sleepVars, SleepNext, AskSleep, Next, Call
  <2> QED BY <2>1, NextOK, Zenon DEF SleepInv
<1>2. ASSUME NEW t \in Tid, AskSleep(t) PROVE StillAsleep'
  <2>1. PICK ms \in SleepTimes : sleep_ms(t, ms) /\ asked' = [asked EXCEPT ![t] = uptime_ms(ticks) + ms]
    BY <1>2, ZenonT(60) DEF AskSleep
  <2>2. /\ ticks + ms \in Nat /\ (ticks + ms) % Word = ticks + ms
    BY <1>0, ConstAssumption, SMTT(30) DEF NoWrap
  <2>3. /\ wake_at' = [wake_at EXCEPT ![t] = ticks + ms] /\ pc' = [pc EXCEPT ![t] = "sleep"]
        /\ asked' = [asked EXCEPT ![t] = ticks + ms] /\ ticks' = ticks /\ sleeping' = sleeping
    BY <2>1, <2>2, ZenonT(60) DEF sleep_ms, uptime_ms, places
  <2> QED BY <1>0, <2>2, <2>3, Zenon DEF SleepInv, StillAsleep
<1>3. ASSUME (\E t \in Tid : Act(t) \/ Finish(t)) \/ Interrupt, asked' = asked PROVE StillAsleep'
  <2>1. TypeOK
    BY Zenon DEF SleepInv, IInv
  <2> QED BY <1>0, <1>3, <2>1, SleepersKept, SMTT(30) DEF SleepInv, StillAsleep
<1>4. ASSUME UNCHANGED sleepVars PROVE StillAsleep'
  <2>1. wake_at' = wake_at /\ pc' = pc /\ sleeping' = sleeping /\ ticks' = ticks /\ asked' = asked
    BY <1>4, Zenon DEF sleepVars, vars, places
  <2>2. StillAsleep
    BY Zenon DEF SleepInv
  <2> QED BY <2>1, <2>2, Zenon DEF StillAsleep
<1> QED BY <1>1, <1>2, <1>3, <1>4, Zenon DEF SleepNext, SleepInv

(* Nobody has asked to sleep at boot. *)
LEMMA SleepInitOK == SleepInit => SleepInv
<1>1. Init => IInv
  BY BootedOK, ConstAssumption, SMTT(30) DEF Init
<1>2. SleepInit => StillAsleep
  BY ConstAssumption, SMTT(30) DEF SleepInit, StillAsleep, Init, Booted, Tid
<1> QED BY <1>1, <1>2, Zenon DEF SleepInit, SleepInv

(* sleep_ms never returns before the deadline it was asked for, for any number
   of threads, any time slice and any sleep times whose deadlines fit in u64. *)
THEOREM NoEarlyReturn == ASSUME NoWrap PROVE SleepSafe => []SleepsAtLeast
<1>1. SleepInv => SleepsAtLeast
  <2> SUFFICES ASSUME SleepInv, NEW t \in Tid, Running(t) PROVE asked[t] <= ticks
    BY Zenon DEF SleepsAtLeast, uptime_ms
  <2>1. t \notin sleeping
    BY OneHomeParts, ZenonT(30) DEF SleepInv, IInv, HomeParts, Running
  <2>2. ticks \in Nat /\ pc[t] = "run"
    BY ConstAssumption, SMTT(30) DEF SleepInv, IInv, TypeOK, Running
  <2> QED BY <2>1, <2>2, SMTT(30) DEF SleepInv, StillAsleep
<1>2. SleepInv /\ [SleepNext]_sleepVars => SleepInv'
  BY SleepNextOK, Zenon
<1> QED BY <1>1, <1>2, SleepInitOK, PTL DEF SleepSafe

----------------------------------------------------------------------------
(* The semaphore *)

(* To the scheduler, every step of the semaphore is a step of some thread, or
   none. *)
LEMMA SemSteps == ASSUME [SemNext]_semAllVars PROVE [Next]_vars
<1>1. SemQ \in Queues
  BY SemAssumption, Zenon
<1>2. ASSUME NEW t \in Tid, acquire(t) PROVE [Next]_vars
  BY <1>1, <1>2, Zenon DEF acquire, Next, Call, Act
<1>3. ASSUME NEW t \in Tid, try_acquire(t) \/ compare_exchange(t) \/ release(t) PROVE [Next]_vars
  BY <1>3, Zenon DEF try_acquire, compare_exchange, release
<1>4. ASSUME NEW t \in Tid, release_wake(t) PROVE [Next]_vars
  BY <1>1, <1>4, Zenon DEF release_wake, Next, Call, Act
<1>5. ASSUME NEW t \in Tid, sem_other(t) PROVE [Next]_vars
  BY <1>5, Zenon DEF sem_other, Next, Call, Act
<1>6. CASE SemSystem
  BY <1>6, Zenon DEF SemSystem, Next, Interrupt, Finish
<1>7. CASE UNCHANGED semAllVars
  BY <1>7, Zenon DEF semAllVars
<1> QED BY <1>2, <1>3, <1>4, <1>5, <1>6, <1>7, Zenon DEF SemNext

(* Counting threads. *)
LEMMA Counting ==
  ASSUME NEW S \in SUBSET Tid, NEW x
  PROVE  /\ Cardinality(S) \in Nat
         /\ x \notin S => Cardinality(S \cup {x}) = Cardinality(S) + 1
         /\ x \in S => Cardinality(S \ {x}) = Cardinality(S) - 1
         /\ x \notin S => S \ {x} = S
<1>1. IsFiniteSet(Tid)
  BY FS_Interval, ConstAssumption, SMTT(30) DEF Tid
<1>2. IsFiniteSet(S)
  BY <1>1, FS_Subset, Zenon
<1>3. Cardinality(S) \in Nat
  BY <1>2, FS_CardinalityType, Zenon
<1>4. x \notin S => Cardinality(S \cup {x}) = Cardinality(S) + 1
  BY <1>2, FS_AddElement, Zenon
<1>5. x \in S => Cardinality(S \ {x}) = Cardinality(S) - 1
  BY <1>2, FS_RemoveElement, Zenon
<1> QED BY <1>3, <1>4, <1>5, Zenon

(* acquire: a permit is taken, or there is none and the thread is parked. *)
LEMMA AcquireOK ==
  ASSUME SemInv, NEW t \in Tid, acquire(t)
  PROVE  SemTypeOK' /\ PermitsConserved' /\ SemWaitersWant' /\ PermitsAwaited'
<1>1. /\ place \in [Tid -> SemAt] /\ count \in Nat /\ cur \in [Tid -> Nat] /\ cur' = cur
      /\ place[t] \in {"out", "want"} /\ current = t
  BY Zenon DEF SemInv, SemTypeOK, acquire, Running
<1>2. /\ waiters \in [Queues -> Seq(Tid)] /\ waiters[SemQ] \in Seq(Tid)
      /\ t \notin Range(waiters[SemQ]) /\ Range(waiters[SemQ]) \subseteq Tid
  BY <1>1, QueueFacts, RangeElements, SemAssumption, Zenon DEF SemInv
<1>3. CASE count > 0 /\ count' = count - 1 /\ place' = [place EXCEPT ![t] = "hold"] /\ UNCHANGED vars
  <2>1. waiters' = waiters
    BY <1>3, Zenon DEF vars, places
  <2>2. SemTypeOK'
    BY <1>1, <1>3, SMTT(30) DEF SemInv, SemTypeOK, SemAt
  <2>3. PermitHolders' = PermitHolders \cup {t} /\ t \notin PermitHolders /\ PermitHolders \subseteq Tid
    BY <1>1, <1>3, Zenon DEF PermitHolders
  <2>4. PermitsConserved'
    BY <1>1, <1>3, <2>3, Counting, SemAssumption, SMTT(30) DEF SemInv, PermitsConserved
  <2>5. SemWaitersWant'
    BY <1>1, <1>2, <1>3, <2>1, Zenon DEF SemInv, SemWaitersWant
  <2>6. Giving' = Giving /\ Giving \subseteq Tid /\ Acquiring' = Acquiring \ {t} /\ Acquiring \subseteq Tid
    BY <1>1, <1>3, <2>1, Zenon DEF Giving, Acquiring
  <2>7. Cardinality(Acquiring) <= Cardinality(Acquiring') + 1
    <3>1. CASE t \in Acquiring
      BY <2>6, <3>1, Counting, SMTT(30)
    <3>2. CASE t \notin Acquiring
      <4>1. Acquiring' = Acquiring
        BY <2>6, <3>2, Zenon
      <4>2. Acquiring \in SUBSET Tid
        BY <2>6, Zenon
      <4>3. Cardinality(Acquiring) \in Nat
        BY <4>2, Counting, ZenonT(60)
      <4> QED BY <4>1, <4>3, SMTT(30)
    <3> QED BY <3>1, <3>2, ZenonT(30)
  <2>8. PermitsAwaited'
    <3>1. Acquiring' \subseteq Tid
      BY <2>6, Zenon
    <3>2. Cardinality(Acquiring) \in Nat /\ Cardinality(Acquiring') \in Nat /\ Cardinality(Giving) \in Nat
      BY <2>6, <3>1, Counting, ZenonT(60)
    <3> QED BY <1>1, <1>3, <2>1, <2>6, <2>7, <3>2, SMTT(30) DEF SemInv, PermitsAwaited
  <2> QED BY <2>2, <2>4, <2>5, <2>8, Zenon
<1>4. CASE count <= 0 /\ place' = [place EXCEPT ![t] = "want"] /\ wait(t, SemQ) /\ UNCHANGED count
  <2>1. SemTypeOK' /\ count' = 0
    BY <1>1, <1>4, SMTT(30) DEF SemInv, SemTypeOK, SemAt
  <2>2. PermitHolders' = PermitHolders
    BY <1>1, <1>4, Zenon DEF PermitHolders
  <2>3. PermitsConserved'
    BY <1>4, <2>2, Zenon DEF SemInv, PermitsConserved
  <2>4. waiters' = [waiters EXCEPT ![SemQ] = Append(waiters[SemQ], t)]
    BY <1>1, <1>4, ZenonT(30) DEF wait, reschedule
  <2>5. waiters'[SemQ] = Append(waiters[SemQ], t)
    BY <1>2, <2>4, SemAssumption, ZenonT(30)
  <2>6. Range(waiters'[SemQ]) = Range(waiters[SemQ]) \cup {t}
    BY <1>2, <2>5, RangeAppend, SMTT(30)
  <2>7. SemWaitersWant'
    BY <1>1, <1>2, <1>4, <2>6, Zenon DEF SemInv, SemWaitersWant
  <2>8. Acquiring' \in SUBSET Tid /\ Giving' \in SUBSET Tid
    BY Zenon DEF Acquiring, Giving
  <2>9. Cardinality(Acquiring') \in Nat /\ Cardinality(Giving') \in Nat
    BY <2>8, Counting, ZenonT(60)
  <2>10. PermitsAwaited'
    BY <2>1, <2>9, SMTT(30) DEF PermitsAwaited
  <2> QED BY <2>1, <2>3, <2>7, <2>10, ZenonT(30)
<1> QED BY <1>3, <1>4, Zenon DEF acquire

(* try_acquire's load and compare-exchange: nobody else is concerned. *)
LEMMA TryAcquireOK ==
  ASSUME SemInv, NEW t \in Tid, try_acquire(t) \/ compare_exchange(t)
  PROVE  SemTypeOK' /\ PermitsConserved' /\ SemWaitersWant' /\ PermitsAwaited'
<1>1. /\ place \in [Tid -> SemAt] /\ count \in Nat /\ cur \in [Tid -> Nat] /\ place[t] \in {"out", "try"}
      /\ place[t] = "try" => cur[t] > 0
  BY Zenon DEF SemInv, SemTypeOK, try_acquire, compare_exchange
<1>2. UNCHANGED vars
  BY Zenon DEF try_acquire, compare_exchange
<1>3. waiters' = waiters
  BY <1>2, Zenon DEF vars, places
<1>4. Range(waiters[SemQ]) \subseteq Tid
  BY QueueFacts, RangeElements, SemAssumption, Zenon DEF SemInv
<1>5. /\ SemTypeOK'
      /\ \E s \in {"out", "try", "hold"} :
           /\ place' = [place EXCEPT ![t] = s]
           /\ IF s = "hold" THEN count' = count - 1 /\ count > 0 ELSE count' = count
  <2>1. CASE try_acquire(t)
    BY <1>1, <2>1, ZenonT(30) DEF SemInv, SemTypeOK, try_acquire, SemAt
  <2>2. CASE compare_exchange(t) /\ count = cur[t]
    BY <1>1, <2>2, SMTT(30) DEF SemInv, SemTypeOK, compare_exchange, SemAt
  <2>3. CASE compare_exchange(t) /\ count # cur[t] /\ count > 0
    <3>1. place' = place /\ place[t] = "try" /\ count' = count /\ cur' = [cur EXCEPT ![t] = count]
      BY <1>1, <2>3, SMTT(30) DEF compare_exchange
    <3>2. place' = [place EXCEPT ![t] = "try"]
      BY <1>1, <3>1, Zenon
    <3> QED BY <1>1, <2>3, <3>1, <3>2, Zenon DEF SemInv, SemTypeOK
  <2>4. CASE compare_exchange(t) /\ count # cur[t] /\ count <= 0
    BY <1>1, <2>4, SMTT(30) DEF SemInv, SemTypeOK, compare_exchange, SemAt
  <2> QED BY <1>1, <2>1, <2>2, <2>3, <2>4, SMTT(30)
<1>6. PICK s \in {"out", "try", "hold"} :
        /\ place' = [place EXCEPT ![t] = s]
        /\ IF s = "hold" THEN count' = count - 1 /\ count > 0 ELSE count' = count
  BY <1>5, ZenonT(60)
<1>7. Acquiring' = Acquiring /\ Giving' = Giving /\ Acquiring \in SUBSET Tid /\ Giving \in SUBSET Tid
  BY <1>1, <1>3, <1>6, Zenon DEF Acquiring, Giving
<1>8. PermitsConserved'
  <2>1. CASE s = "hold"
    <3>1. PermitHolders' = PermitHolders \cup {t} /\ t \notin PermitHolders /\ PermitHolders \in SUBSET Tid
      BY <1>1, <1>6, <2>1, Zenon DEF PermitHolders
    <3> QED BY <1>1, <1>6, <2>1, <3>1, Counting, SemAssumption, SMTT(30) DEF SemInv, PermitsConserved
  <2>2. CASE s # "hold"
    <3>1. PermitHolders' = PermitHolders
      BY <1>1, <1>6, <2>2, ZenonT(30) DEF PermitHolders
    <3> QED BY <1>6, <2>2, <3>1, Zenon DEF SemInv, PermitsConserved
  <2> QED BY <2>1, <2>2, Zenon
<1>9. SemWaitersWant'
  BY <1>1, <1>3, <1>4, <1>6, ZenonT(30) DEF SemInv, SemWaitersWant
<1>10. PermitsAwaited'
  <2>1. Cardinality(Acquiring) \in Nat /\ Cardinality(Giving) \in Nat
    BY <1>7, Counting, ZenonT(60)
  <2> QED BY <1>1, <1>3, <1>6, <1>7, <2>1, SMTT(30) DEF SemInv, PermitsAwaited
<1> QED BY <1>5, <1>8, <1>9, <1>10, Zenon

(* release, the permit: the thread that gives it back will wake a waiter. *)
LEMMA ReleaseOK ==
  ASSUME SemInv, NEW t \in Tid, release(t)
  PROVE  SemTypeOK' /\ PermitsConserved' /\ SemWaitersWant' /\ PermitsAwaited'
<1>1. /\ place \in [Tid -> SemAt] /\ count \in Nat /\ cur \in [Tid -> Nat] /\ place[t] = "hold"
      /\ count' = count + 1 /\ place' = [place EXCEPT ![t] = "give"] /\ cur' = cur /\ UNCHANGED vars
  BY Zenon DEF SemInv, SemTypeOK, release
<1>2. waiters' = waiters
  BY <1>1, Zenon DEF vars, places
<1>3. Range(waiters[SemQ]) \subseteq Tid
  BY QueueFacts, RangeElements, SemAssumption, ZenonT(30) DEF SemInv
<1>4. SemTypeOK'
  BY <1>1, SMTT(30) DEF SemInv, SemTypeOK, SemAt
<1>5. PermitHolders' = PermitHolders \ {t} /\ t \in PermitHolders /\ PermitHolders \in SUBSET Tid
  BY <1>1, Zenon DEF PermitHolders
<1>6. Giving' = Giving \cup {t} /\ t \notin Giving /\ Giving \in SUBSET Tid
  BY <1>1, Zenon DEF Giving
<1>7. Acquiring' = Acquiring /\ Acquiring \in SUBSET Tid
  BY <1>1, <1>2, Zenon DEF Acquiring
<1>8. PermitsConserved'
  BY <1>1, <1>5, Counting, SemAssumption, SMTT(30) DEF SemInv, PermitsConserved
<1>9. SemWaitersWant'
  BY <1>1, <1>2, <1>3, Zenon DEF SemInv, SemWaitersWant
<1>10. PermitsAwaited'
  <2>1. /\ Cardinality(Acquiring) \in Nat /\ Cardinality(Giving) \in Nat
        /\ Cardinality(Giving') = Cardinality(Giving) + 1
    BY <1>6, <1>7, Counting, ZenonT(60)
  <2> QED BY <1>1, <1>2, <1>7, <2>1, SMTT(30) DEF SemInv, PermitsAwaited
<1> QED BY <1>4, <1>8, <1>9, <1>10, Zenon

(* release, the wakeup: the thread at the head of the queue will test again. *)
LEMMA ReleaseWakeOK ==
  ASSUME SemInv, NEW t \in Tid, release_wake(t)
  PROVE  SemTypeOK' /\ PermitsConserved' /\ SemWaitersWant' /\ PermitsAwaited'
<1>1. /\ place \in [Tid -> SemAt] /\ count \in Nat /\ cur \in [Tid -> Nat] /\ place[t] = "give"
      /\ count' = count /\ place' = [place EXCEPT ![t] = "out"] /\ cur' = cur
  BY Zenon DEF SemInv, SemTypeOK, release_wake
<1>2. /\ waiters \in [Queues -> Seq(Tid)] /\ SemQ \in Queues /\ waiters[SemQ] \in Seq(Tid)
      /\ IsInjective(waiters[SemQ]) /\ Range(waiters[SemQ]) \subseteq Tid
  BY QueueFacts, RangeElements, SemAssumption, Zenon DEF SemInv
<1>3. SemTypeOK'
  BY <1>1, Zenon DEF SemInv, SemTypeOK, SemAt
<1>4. PermitHolders' = PermitHolders
  BY <1>1, Zenon DEF PermitHolders
<1>5. PermitsConserved'
  BY <1>1, <1>4, ZenonT(30) DEF SemInv, PermitsConserved
<1>6. CASE wake_one(t, SemQ)
  <2> DEFINE h == Head(waiters[SemQ])
  <2>1. waiters' = [waiters EXCEPT ![SemQ] = SubSeq(waiters[SemQ], 2, Len(waiters[SemQ]))] /\ waiters[SemQ] # <<>>
    BY <1>6, SMTT(30) DEF wake_one, take_waiters
  <2>2. waiters'[SemQ] = Tail(waiters[SemQ])
    BY <1>2, <2>1, SMTT(30)
  <2>3. Range(waiters'[SemQ]) = Range(waiters[SemQ]) \ {h} /\ h \in Range(waiters[SemQ])
    BY <1>2, <2>1, <2>2, RangeHeadTail, ZenonT(60)
  <2>4. SemWaitersWant'
    BY <1>1, <1>2, <2>3, Zenon DEF SemInv, SemWaitersWant
  <2> HIDE DEF h
  <2>5. h \in Tid /\ place[h] = "want" /\ h # t
    BY <1>1, <1>2, <2>3, Zenon DEF SemInv, SemWaitersWant
  <2>6. Acquiring' = Acquiring \cup {h} /\ h \notin Acquiring /\ Acquiring \in SUBSET Tid
    BY <1>1, <2>3, <2>5, Zenon DEF Acquiring
  <2>7. Giving' = Giving \ {t} /\ t \in Giving /\ Giving \in SUBSET Tid
    BY <1>1, Zenon DEF Giving
  <2>8. /\ Cardinality(Acquiring) \in Nat /\ Cardinality(Acquiring') = Cardinality(Acquiring) + 1
        /\ Cardinality(Giving) \in Nat /\ Cardinality(Giving') = Cardinality(Giving) - 1
    BY <2>6, <2>7, Counting, ZenonT(60)
  <2>9. PermitsAwaited'
    BY <1>1, <2>1, <2>8, SMTT(30) DEF SemInv, PermitsAwaited
  <2> QED BY <1>3, <1>5, <2>4, <2>9, Zenon
<1>7. CASE waiters[SemQ] = <<>> /\ UNCHANGED vars
  <2>1. waiters'[SemQ] = <<>>
    BY <1>7, Zenon DEF vars, places
  <2> QED BY <1>3, <1>5, <2>1, RangeEmpty, Zenon DEF SemWaitersWant, PermitsAwaited
<1> QED BY <1>6, <1>7, Zenon DEF release_wake

(* Steps that concern neither the count nor the queue. *)
LEMMA SemOtherOK ==
  ASSUME SemInv, UNCHANGED semVars, waiters' = waiters
  PROVE  SemTypeOK' /\ PermitsConserved' /\ SemWaitersWant' /\ PermitsAwaited'
<1>1. count' = count /\ place' = place /\ cur' = cur
  BY Zenon DEF semVars
<1>2. SemTypeOK' /\ PermitsConserved' /\ SemWaitersWant'
  BY <1>1, Zenon DEF SemInv, SemTypeOK, PermitsConserved, PermitHolders, SemWaitersWant
<1>3. PermitsAwaited'
  BY <1>1, Zenon DEF SemInv, PermitsAwaited, Acquiring, Giving
<1> QED BY <1>2, <1>3, Zenon

(* Every step of the semaphore model keeps its invariant. *)
LEMMA SemNextOK == ASSUME SemInv, [SemNext]_semAllVars PROVE SemInv'
<1>1. IInv'
  BY SemSteps, NextOK, Zenon DEF SemInv
<1>2. SemTypeOK' /\ PermitsConserved' /\ SemWaitersWant' /\ PermitsAwaited'
  <2>1. ASSUME NEW t \in Tid, \/ acquire(t) \/ try_acquire(t) \/ compare_exchange(t)
                              \/ release(t) \/ release_wake(t)
        PROVE  SemTypeOK' /\ PermitsConserved' /\ SemWaitersWant' /\ PermitsAwaited'
    BY <2>1, AcquireOK, TryAcquireOK, ReleaseOK, ReleaseWakeOK, Zenon
  <2>2. ASSUME NEW t \in Tid, sem_other(t) PROVE UNCHANGED semVars /\ waiters' = waiters
    BY <2>2, QueueKept, Zenon DEF sem_other
  <2>3. SemSystem => UNCHANGED semVars /\ waiters' = waiters
    BY QueueKept, Zenon DEF SemSystem
  <2>4. UNCHANGED semAllVars => UNCHANGED semVars /\ waiters' = waiters
    BY Zenon DEF semAllVars, vars, places
  <2> QED BY <2>1, <2>2, <2>3, <2>4, SemOtherOK, Zenon DEF SemNext
<1> QED BY <1>1, <1>2, Zenon DEF SemInv

(* Semaphore::new: all the permits are there and nobody waits. *)
LEMMA SemInitOK == ASSUME SemInit PROVE SemInv
<1>1. /\ count = Permits /\ place = [t \in Tid |-> "out"] /\ cur = [t \in Tid |-> 0]
      /\ Booted(SemWorkers + 1)
  BY Zenon DEF SemInit
<1>2. SemWorkers + 1 \in Nat /\ 1 <= SemWorkers + 1 /\ SemWorkers + 1 <= MaxId /\ SemWorkers + 1 <= MaxSlots
  BY ConstAssumption, SemAssumption, SMTT(30)
<1>3. IInv
  BY <1>1, <1>2, BootedOK, Zenon
<1>4. waiters[SemQ] = <<>>
  BY <1>1, SemAssumption, Zenon DEF Booted
<1>5. SemTypeOK
  BY <1>1, SemAssumption, Zenon DEF SemTypeOK, SemAt
<1>6. PermitHolders = {}
  BY <1>1, Zenon DEF PermitHolders
<1>7. PermitsConserved
  BY <1>1, <1>6, FS_EmptySet, SemAssumption, SMTT(30) DEF PermitsConserved
<1>8. SemWaitersWant /\ PermitsAwaited
  BY <1>4, RangeEmpty, Zenon DEF SemWaitersWant, PermitsAwaited
<1> QED BY <1>3, <1>5, <1>7, <1>8, Zenon DEF SemInv

(* The inductive invariant, scheduler included. *)
THEOREM SemInvariant == SemSafe => []SemInv
<1>1. SemInit => SemInv
  BY SemInitOK, Zenon
<1>2. SemInv /\ [SemNext]_semAllVars => SemInv'
  BY SemNextOK, Zenon
<1> QED BY <1>1, <1>2, PTL DEF SemSafe

(* Permits are neither lost nor made up, for any number of threads and permits. *)
THEOREM PermitsAreConserved == SemSafe => []PermitsConserved
<1>1. SemInv => PermitsConserved
  BY Zenon DEF SemInv
<1> QED BY <1>1, SemInvariant, PTL

(* While threads are parked in acquire, every free permit has a thread on its
   way to it or to waking one of them: release loses no wakeup. *)
THEOREM NoPermitForgotten == SemSafe => []PermitsAwaited
<1>1. SemInv => PermitsAwaited
  BY Zenon DEF SemInv
<1> QED BY <1>1, SemInvariant, PTL

-----------------------------------------------------------------------------
(* The blocking mutex                                                        *)

(* Only threads inside lock() are parked on the mutex's queue. *)
WaitersWant == \A t \in Range(waiters[Q]) : at[t] = "want"

MInv == IInv /\ MutexTypeOK /\ MutualExclusion /\ WaitersWant /\ NoLostWakeup

(* To the scheduler, every step of the mutex is a step of some thread, or none. *)
LEMMA SchedulerSteps == ASSUME [MutexNext]_allVars PROVE [Next]_vars
<1>1. Q \in Queues
  BY MutexAssumption, Zenon
<1>2. ASSUME NEW t \in Tid, lock(t) PROVE [Next]_vars
  BY <1>1, <1>2, Zenon DEF lock, Next, Call, Act
<1>3. ASSUME NEW t \in Tid, try_lock(t) \/ unlock(t) PROVE [Next]_vars
  BY <1>3, Zenon DEF try_lock, unlock
<1>4. ASSUME NEW t \in Tid, unlock_wake(t) PROVE [Next]_vars
  BY <1>1, <1>4, Zenon DEF unlock_wake, Next, Call, Act
<1>5. ASSUME NEW t \in Tid, other(t) PROVE [Next]_vars
  BY <1>5, Zenon DEF other, Next, Call, Act
<1>6. CASE System
  BY <1>6, Zenon DEF System, Next, Interrupt, Finish
<1>7. CASE UNCHANGED allVars
  BY <1>7, Zenon DEF allVars
<1> QED BY <1>2, <1>3, <1>4, <1>5, <1>6, <1>7, Zenon DEF MutexNext

(* lock: the swap takes the lock, or the thread is parked. *)
LEMMA LockOK ==
  ASSUME MInv, NEW t \in Tid, lock(t)
  PROVE  MutexTypeOK' /\ MutualExclusion' /\ WaitersWant' /\ NoLostWakeup'
<1>1. at \in [Tid -> At] /\ current = t /\ at[t] \in {"out", "want"} /\ locked' = TRUE
  BY Zenon DEF MInv, MutexTypeOK, lock, Running
<1>2. NoLostWakeup'
  BY <1>1, Zenon DEF NoLostWakeup
<1>3. CASE ~locked /\ at' = [at EXCEPT ![t] = "hold"] /\ UNCHANGED vars
  <2>1. Holders' = {t}
    BY <1>1, <1>3, Zenon DEF MInv, MutualExclusion, Holders
  <2>2. WaitersWant'
    BY <1>1, <1>3, QueueFacts, MutexAssumption, SMTT(30) DEF MInv, WaitersWant, vars, places
  <2> QED BY <1>1, <1>2, <1>3, <2>1, <2>2, Zenon DEF MutexTypeOK, MutualExclusion, At
<1>4. CASE locked /\ at' = [at EXCEPT ![t] = "want"] /\ wait(t, Q)
  <2>1. Holders' = Holders
    BY <1>1, <1>4, Zenon DEF Holders
  <2>2. waiters' = [waiters EXCEPT ![Q] = Append(waiters[Q], t)]
    BY <1>1, <1>4, Zenon DEF wait, reschedule
  <2>3. Range(waiters'[Q]) = Range(waiters[Q]) \cup {t}
    BY <2>2, QueueFacts, MutexAssumption, RangeAppend, SMTT(30) DEF MInv
  <2>4. Range(waiters[Q]) \subseteq Tid
    BY QueueFacts, MutexAssumption, RangeElements, Zenon DEF MInv
  <2>5. WaitersWant'
    BY <1>1, <1>4, <2>3, <2>4, Zenon DEF MInv, WaitersWant
  <2> QED BY <1>1, <1>2, <1>4, <2>1, <2>5, Zenon DEF MInv, MutexTypeOK, MutualExclusion, At
<1> QED BY <1>3, <1>4, Zenon DEF lock

(* try_lock takes a free lock. *)
LEMMA TryLockOK ==
  ASSUME MInv, NEW t \in Tid, try_lock(t)
  PROVE  MutexTypeOK' /\ MutualExclusion' /\ WaitersWant' /\ NoLostWakeup'
<1>1. /\ at \in [Tid -> At] /\ at[t] = "out" /\ ~locked /\ locked' = TRUE
      /\ at' = [at EXCEPT ![t] = "hold"] /\ waiters' = waiters
  BY Zenon DEF MInv, MutexTypeOK, try_lock, vars, places
<1>2. Holders' = {t}
  BY <1>1, Zenon DEF MInv, MutualExclusion, Holders
<1>3. Range(waiters[Q]) \subseteq Tid
  BY QueueFacts, MutexAssumption, RangeElements, Zenon DEF MInv
<1>4. WaitersWant'
  BY <1>1, <1>3, Zenon DEF MInv, WaitersWant
<1> QED BY <1>1, <1>2, <1>4, Zenon DEF MutexTypeOK, MutualExclusion, NoLostWakeup, At

(* Releasing the lock: whoever did it still has to wake a waiter. *)
LEMMA UnlockOK ==
  ASSUME MInv, NEW t \in Tid, unlock(t)
  PROVE  MutexTypeOK' /\ MutualExclusion' /\ WaitersWant' /\ NoLostWakeup'
<1>1. /\ at \in [Tid -> At] /\ at[t] = "hold" /\ locked' = FALSE
      /\ at' = [at EXCEPT ![t] = "drop"] /\ waiters' = waiters
  BY Zenon DEF MInv, MutexTypeOK, unlock, vars, places
<1>2. Holders' = {}
  BY <1>1, Zenon DEF MInv, MutualExclusion, Holders
<1>3. Range(waiters[Q]) \subseteq Tid
  BY QueueFacts, MutexAssumption, RangeElements, Zenon DEF MInv
<1>4. WaitersWant'
  BY <1>1, <1>3, Zenon DEF MInv, WaitersWant
<1>5. t \in Dropping'
  BY <1>1, Zenon DEF Dropping
<1> QED BY <1>1, <1>2, <1>4, <1>5, Zenon DEF MutexTypeOK, MutualExclusion, NoLostWakeup, At

(* The wakeup: the thread at the head of the queue will retry. *)
LEMMA UnlockWakeOK ==
  ASSUME MInv, NEW t \in Tid, unlock_wake(t)
  PROVE  MutexTypeOK' /\ MutualExclusion' /\ WaitersWant' /\ NoLostWakeup'
<1>1. /\ at \in [Tid -> At] /\ at[t] = "drop" /\ locked' = locked
      /\ at' = [at EXCEPT ![t] = "out"] /\ Holders' = Holders
  BY Zenon DEF MInv, MutexTypeOK, unlock_wake, Holders
<1>2. MutexTypeOK' /\ MutualExclusion'
  BY <1>1, Zenon DEF MInv, MutexTypeOK, MutualExclusion, At
<1>3. /\ waiters \in [Queues -> Seq(Tid)] /\ Q \in Queues /\ waiters[Q] \in Seq(Tid)
      /\ IsInjective(waiters[Q]) /\ Range(waiters[Q]) \subseteq Tid
  BY QueueFacts, MutexAssumption, RangeElements, Zenon DEF MInv
<1>4. CASE wake_one(t, Q)
  <2>1. waiters' = [waiters EXCEPT ![Q] = SubSeq(waiters[Q], 2, Len(waiters[Q]))] /\ waiters[Q] # <<>>
    BY <1>4, SMTT(30) DEF wake_one, take_waiters
  <2>2. waiters'[Q] = Tail(waiters[Q])
    BY <1>3, <2>1, SMTT(30)
  <2>3. Range(waiters'[Q]) = Range(waiters[Q]) \ {Head(waiters[Q])} /\ Head(waiters[Q]) \in Range(waiters[Q])
    BY <1>3, <2>1, <2>2, RangeHeadTail, Zenon
  <2>4. WaitersWant'
    BY <1>1, <1>3, <2>3, Zenon DEF MInv, WaitersWant
  <2>5. Head(waiters[Q]) \in Retrying'
    BY <1>1, <1>3, <2>3, Zenon DEF MInv, WaitersWant, Retrying
  <2> QED BY <1>2, <2>4, <2>5, Zenon DEF NoLostWakeup
<1>5. CASE waiters[Q] = <<>> /\ UNCHANGED vars
  <2>1. waiters'[Q] = <<>>
    BY <1>5, Zenon DEF vars, places
  <2> QED BY <1>2, <2>1, RangeEmpty, Zenon DEF WaitersWant, NoLostWakeup
<1> QED BY <1>4, <1>5, Zenon DEF unlock_wake

(* Steps that concern neither the lock nor the queue. *)
LEMMA OtherOK ==
  ASSUME MInv, UNCHANGED mutexVars, waiters' = waiters
  PROVE  MutexTypeOK' /\ MutualExclusion' /\ WaitersWant' /\ NoLostWakeup'
<1>1. locked' = locked /\ at' = at
  BY Zenon DEF mutexVars
<1>2. MutexTypeOK' /\ MutualExclusion' /\ WaitersWant'
  BY <1>1, Zenon DEF MInv, MutexTypeOK, MutualExclusion, Holders, WaitersWant
<1>3. NoLostWakeup'
  BY <1>1, Zenon DEF MInv, NoLostWakeup, Retrying, Dropping
<1> QED BY <1>2, <1>3, Zenon

(* Every step preserves the invariant. *)
LEMMA MutexNextOK == ASSUME MInv, [MutexNext]_allVars PROVE MInv'
<1>1. IInv'
  BY SchedulerSteps, NextOK, Zenon DEF MInv
<1>2. MutexTypeOK' /\ MutualExclusion' /\ WaitersWant' /\ NoLostWakeup'
  <2>1. ASSUME NEW t \in Tid, lock(t) \/ try_lock(t) \/ unlock(t) \/ unlock_wake(t)
        PROVE  MutexTypeOK' /\ MutualExclusion' /\ WaitersWant' /\ NoLostWakeup'
    BY <2>1, LockOK, TryLockOK, UnlockOK, UnlockWakeOK, Zenon
  <2>2. ASSUME NEW t \in Tid, other(t) PROVE UNCHANGED mutexVars /\ waiters' = waiters
    BY <2>2, QueueKept, Zenon DEF other
  <2>3. System => UNCHANGED mutexVars /\ waiters' = waiters
    BY QueueKept, Zenon DEF System
  <2>4. UNCHANGED allVars => UNCHANGED mutexVars /\ waiters' = waiters
    BY Zenon DEF allVars, vars, places
  <2> QED BY <2>1, <2>2, <2>3, <2>4, OtherOK, Zenon DEF MutexNext
<1> QED BY <1>1, <1>2, Zenon DEF MInv

(* Boot leaves the lock free and nobody waiting. *)
LEMMA MutexInitOK == MutexInit => MInv
<1> SUFFICES ASSUME MutexInit PROVE MInv
  BY Zenon
<1>1. locked = FALSE /\ at = [t \in Tid |-> "out"] /\ Booted(Workers + 1)
  BY Zenon DEF MutexInit
<1>2. Workers + 1 \in Nat /\ 1 <= Workers + 1 /\ Workers + 1 <= MaxId /\ Workers + 1 <= MaxSlots
  BY MutexAssumption, ConstAssumption, SMTT(30)
<1>3. IInv
  BY <1>1, <1>2, BootedOK, Zenon
<1>4. waiters[Q] = <<>>
  BY <1>1, MutexAssumption, Zenon DEF Booted
<1>5. MutexTypeOK /\ MutualExclusion
  BY <1>1, Zenon DEF MutexTypeOK, At, MutualExclusion, Holders
<1>6. WaitersWant /\ NoLostWakeup
  BY <1>4, RangeEmpty, Zenon DEF WaitersWant, NoLostWakeup
<1> QED BY <1>3, <1>5, <1>6, Zenon DEF MInv

(* The inductive invariant, scheduler included. *)
THEOREM MutexInvariant == MutexSafe => []MInv
BY MutexInitOK, MutexNextOK, PTL DEF MutexSafe

(* Two guards never exist at once, and the flag says whether one does. *)
THEOREM Exclusion == MutexSafe => []MutualExclusion
<1>1. MInv => MutualExclusion
  BY Zenon DEF MInv
<1> QED BY <1>1, MutexInvariant, PTL

(* While the lock is free and threads are parked on it, somebody is on the way
   to wake one of them or to take the lock. *)
THEOREM WakeupKept == MutexSafe => []NoLostWakeup
<1>1. MInv => NoLostWakeup
  BY Zenon DEF MInv
<1> QED BY <1>1, MutexInvariant, PTL

(* Who owns the abstract mutex, before and after a step. *)
LEMMA OwnerFacts ==
  /\ MutualExclusion => (Holders = {} => Owner = None) /\ \A t \in Holders : Owner = t
  /\ MutualExclusion' => (Holders' = {} => Owner' = None) /\ \A t \in Holders' : Owner' = t
<1>1. MutualExclusion => (Holders = {} => Owner = None) /\ \A t \in Holders : Owner = t
  BY Zenon DEF MutualExclusion, Holders, Owner
<1>2. MutualExclusion' => (Holders' = {} => Owner' = None) /\ \A t \in Holders' : Owner' = t
  BY Zenon DEF MutualExclusion, Holders, Owner
<1> QED BY <1>1, <1>2, Zenon

(* Every step of the mutex is a step of the abstract one, or leaves its owner. *)
LEMMA MutexStep ==
  ASSUME MInv, MInv', [MutexNext]_allVars
  PROVE  [Abstract!Next]_Owner
<1>0. at \in [Tid -> At] /\ MutualExclusion /\ MutualExclusion'
  BY Zenon DEF MInv, MutexTypeOK
<1>1. ASSUME NEW t \in Tid, ~locked, at' = [at EXCEPT ![t] = "hold"] PROVE Abstract!Enter(t)
  <2>1. Holders = {} /\ t \in Holders'
    BY <1>0, <1>1, Zenon DEF MutualExclusion, Holders
  <2> QED BY <1>0, <2>1, OwnerFacts, Zenon DEF Abstract!Enter
<1>2. ASSUME NEW t \in Tid, unlock(t) PROVE Abstract!Leave(t)
  <2>1. t \in Holders /\ locked' = FALSE
    BY <1>2, Zenon DEF unlock, Holders
  <2>2. Holders' = {}
    BY <1>0, <2>1, Zenon DEF MutualExclusion
  <2> QED BY <1>0, <2>1, <2>2, OwnerFacts, Zenon DEF Abstract!Leave
<1>3. ASSUME Holders' = Holders PROVE Owner' = Owner
  <2>1. CASE Holders = {}
    BY <1>0, <1>3, <2>1, OwnerFacts, Zenon
  <2>2. CASE Holders # {}
    BY <1>0, <1>3, <2>2, OwnerFacts, Zenon
  <2> QED BY <2>1, <2>2, Zenon
<1>4. ASSUME NEW t \in Tid, lock(t) PROVE Abstract!Enter(t) \/ Owner' = Owner
  <2>1. CASE ~locked /\ at' = [at EXCEPT ![t] = "hold"]
    BY <1>1, <2>1, Zenon
  <2>2. CASE at' = [at EXCEPT ![t] = "want"] /\ at[t] \in {"out", "want"}
    BY <1>0, <1>3, <2>2, Zenon DEF Holders
  <2> QED BY <1>4, <2>1, <2>2, Zenon DEF lock
<1>5. ASSUME NEW t \in Tid, try_lock(t) PROVE Abstract!Enter(t)
  BY <1>1, <1>5, Zenon DEF try_lock
<1>6. ASSUME NEW t \in Tid, unlock_wake(t) PROVE Owner' = Owner
  BY <1>0, <1>3, <1>6, Zenon DEF unlock_wake, Holders
<1>7. ASSUME UNCHANGED mutexVars PROVE Owner' = Owner
  BY <1>3, <1>7, Zenon DEF mutexVars, Holders
<1>8. (\E t \in Tid : other(t)) \/ System \/ UNCHANGED allVars => UNCHANGED mutexVars
  BY Zenon DEF other, System, allVars
<1> QED BY <1>2, <1>4, <1>5, <1>6, <1>7, <1>8, Zenon DEF MutexNext, Abstract!Next

(* The blocking mutex implements the abstract one. *)
THEOREM Refinement == MutexSafe => ImplementsMutex
<1>1. MutexInit => Abstract!Init
  BY Zenon DEF MutexInit, Abstract!Init, Owner, Holders
<1>2. MInv /\ MInv' /\ [MutexNext]_allVars => [Abstract!Next]_Owner
  BY MutexStep, Zenon
<1> QED BY <1>1, <1>2, MutexInvariant, PTL DEF MutexSafe, ImplementsMutex, Abstract!Spec
=============================================================================
