------------------------------- MODULE Scheduler -------------------------------
(***************************************************************************)
(* The preemptive round-robin thread scheduler of src/src/scheduler.rs:    *)
(* thread creation and stack slots, the ready queue, sleeping, exiting and *)
(* reaping, wait queues, and the timer tick that preempts.                 *)
(*                                                                         *)
(* One core runs everything.  A step of the model is either one section    *)
(* that runs with interrupts off (an IrqMutex critical section, a timer    *)
(* interrupt, the context switch) or one access to shared state made with  *)
(* interrupts on; the timer may fire between any two steps of a thread.    *)
(* A thread is named by its id; thread 0 is the boot thread and thread 1   *)
(* the idle thread that `init` creates.                                    *)
(***************************************************************************)
EXTENDS Integers, Sequences, FiniteSets, Functions

CONSTANTS
  MaxId,        \* bound: the highest thread id the model creates
  MaxSlots,     \* MAX_SLOTS, the number of kernel stack slots
  Queues,       \* the WaitQueues of the system
  SliceTicks,   \* slice_ticks, the length of a time slice in ticks
  SleepTimes,   \* the arguments sleep_ms is called with
  MaxTicks,     \* bound: the clock stops advancing here
  Word          \* 2^64 in the code: where u64 arithmetic wraps around

ASSUME ConstAssumption ==
  /\ MaxId \in Nat /\ MaxId >= 1
  /\ MaxSlots \in Nat /\ MaxSlots >= 1
  /\ SliceTicks \in Nat /\ SliceTicks >= 1
  /\ SleepTimes \subseteq Nat
  /\ MaxTicks \in Nat
  /\ Word \in Nat /\ MaxTicks < Word

Tid == 0..MaxId
Slot == 0..(MaxSlots - 1)
None == -1              \* Option::None, and the kernel's own page tables in cr3
BootId == 0
IdleId == 1

VARIABLES
  (* SCHED: the state behind the scheduler lock *)
  current, ready, sleeping, idle, zombies, free_slots, next_slot, next_id,
  (* the Thread boxes on the heap, and their fields *)
  threads, stack_slot, wake_at, user,
  (* WaitQueue.waiters *)
  waiters,
  (* locals of a thread that is inside spawn, sleep_ms, wake_one or wake_all *)
  pc, child, woken,
  (* SLICE_TICKS and pit::TICKS *)
  slice_ticks, ticks,
  (* the CPU: where it is in a context switch, whose stack RSP is on, whose
     page tables CR3 selects, and the stack TSS.rsp0 names *)
  phase, stack, cr3, rsp0

places == <<current, ready, sleeping, idle, zombies, waiters>>
creation == <<free_slots, next_slot, next_id, threads, stack_slot, user, child>>
cpu == <<phase, stack, cr3, rsp0>>
vars == <<places, creation, wake_at, pc, woken, slice_ticks, ticks, cpu>>

Pc == {"run", "create", "sleep", "wake"}
Phase == {"run", "switch", "reap"}

(* The boot thread running, the idle thread parked, and threads 2..n spawned
   by the boot thread and not yet run. *)
Booted(n) ==
  /\ current = BootId /\ idle = IdleId
  /\ ready = [i \in 1..(n - 1) |-> i + 1]
  /\ sleeping = {} /\ zombies = {}
  /\ waiters = [q \in Queues |-> <<>>]
  /\ free_slots = <<>> /\ next_slot = n /\ next_id = n + 1
  /\ threads = 0..n /\ user = {}
  /\ stack_slot = [t \in Tid |-> IF t \in 1..n THEN t - 1 ELSE None]
  /\ wake_at = [t \in Tid |-> 0]
  /\ pc = [t \in Tid |-> "run"]
  /\ child = [t \in Tid |-> None]
  /\ woken = [t \in Tid |-> <<>>]
  /\ slice_ticks = 0 /\ ticks = 0
  /\ phase = "run" /\ stack = BootId /\ cr3 = None /\ rsp0 = None

(* The state `init` leaves. *)
Init == Booted(1)

(* Thread t executes kernel code with interrupts on, outside any call. *)
Running(t) == phase = "run" /\ current = t /\ pc[t] = "run"

(* Likewise, but inside the call whose locals pc[t] names. *)
Inside(t, call) == phase = "run" /\ current = t /\ pc[t] = call

-----------------------------------------------------------------------------
(* The orders in which the elements of S may be listed. *)
Orders(S) == UNION {Bijection(1..n, S) : n \in 0..(MaxId + 1)}

(* pit::uptime_ms at 1000 Hz, the rate main.rs programs. *)
uptime_ms(at) == at

(* mutant: one tick early *)
Due_early(at) == {t \in sleeping : wake_at[t] <= uptime_ms(at) + 1}

(* The sleepers that wake_sleepers moves to the ready queue at tick `at`.
   The order swap_remove leaves them in is kept open. *)
Due(at) == {t \in sleeping : wake_at[t] <= uptime_ms(at)}

(* Whether reschedule puts the current thread back in the ready queue. *)
requeues(how) == how = "Yield" /\ current # IdleId

(* mutant: a kernel thread keeps running on the last process's page tables *)
cr3_for_lazy(next) == IF next \in user THEN next ELSE cr3

(* The page tables reschedule activates: the thread's own or the kernel's. *)
cr3_for(next) == IF next \in user THEN next ELSE None

(* The kernel stack reschedule puts in the TSS; the boot thread has no slot. *)
rsp0_for(next) == IF stack_slot[next] # None THEN stack_slot[next] ELSE rsp0

(* reschedule(how): take `current` off the CPU and pick the next thread.
   Ends just before switch_context, with interrupts off; `at` is the tick
   count it sees, `q` the queue of Next::Block. *)
reschedule(how, q, at) ==
  \E due \in Orders(Due(at)) :
    LET queued   == ready \o due
        runnable == IF requeues(how) THEN Append(queued, current) ELSE queued
        parked   == IF how = "Yield" /\ ~requeues(how) THEN current ELSE idle
        next     == IF runnable # <<>> THEN Head(runnable) ELSE parked
    IN  /\ next # None                        \* expect("no idle thread")
        /\ ready' = IF runnable # <<>> THEN Tail(runnable) ELSE <<>>
        /\ idle' = IF runnable # <<>> THEN parked ELSE None
        /\ sleeping' = (sleeping \ Due(at))
                         \cup (IF how = "Sleep" THEN {current} ELSE {})
        /\ zombies' = zombies \cup (IF how = "Exit" THEN {current} ELSE {})
        /\ waiters' = IF how = "Block"
                        THEN [waiters EXCEPT ![q] = Append(@, current)]
                        ELSE waiters
        /\ current' = next
        /\ cr3' = cr3_for(next)
        /\ rsp0' = rsp0_for(next)
        /\ phase' = IF next = current THEN "run" ELSE "switch"
        /\ slice_ticks' = 0
        /\ UNCHANGED stack

(* switch_context: RSP moves to the stack of the thread just chosen. *)
switch_context ==
  /\ phase = "switch"
  /\ phase' = "reap"
  /\ stack' = current
  /\ UNCHANGED <<places, creation, wake_at, pc, woken, slice_ticks, ticks, cr3, rsp0>>

(* mutant: zombies are freed before the CPU has left their stack *)
Switched_early == phase \in {"switch", "reap"}

(* switch_context has returned, on the incoming thread's stack. *)
Switched == phase = "reap"

(* The zombies finish_switch takes off the list: all of them. *)
taken == zombies

(* mutant: unmap_stack without giving the slot back *)
slots_of_leaked(dead) == {}

(* The stack slots free_thread gives back; the boot thread has none. *)
slots_of(dead) == {stack_slot[t] : t \in dead} \ {None}

(* finish_switch, free_thread: the incoming thread frees the zombies, gives
   their stack slots back, and interrupts come on again. *)
finish_switch ==
  /\ Switched
  /\ phase' = "run"
  /\ zombies' = zombies \ taken
  /\ threads' = threads \ taken
  /\ \E freed \in Orders(slots_of(taken)) : free_slots' = free_slots \o freed
  /\ UNCHANGED <<current, ready, sleeping, idle, waiters, next_slot, next_id,
                 stack_slot, user, child, wake_at, pc, woken, slice_ticks,
                 ticks, stack, cr3, rsp0>>

-----------------------------------------------------------------------------
(* yield_now; the idle thread does nothing else. *)
yield_now(t) ==
  /\ Running(t)
  /\ reschedule("Yield", None, ticks)
  /\ UNCHANGED <<creation, wake_at, pc, woken, ticks>>

(* sleep_ms, first half: the deadline is computed before interrupts go off. *)
sleep_ms(t, ms) ==
  /\ Running(t) /\ t # IdleId
  /\ wake_at' = [wake_at EXCEPT ![t] = (uptime_ms(ticks) + ms) % Word]
  /\ pc' = [pc EXCEPT ![t] = "sleep"]
  /\ UNCHANGED <<places, creation, woken, slice_ticks, ticks, cpu>>

(* sleep_ms, second half: reschedule(Next::Sleep(..)). *)
sleep_park(t) ==
  /\ Inside(t, "sleep")
  /\ reschedule("Sleep", None, ticks)
  /\ pc' = [pc EXCEPT ![t] = "run"]
  /\ UNCHANGED <<creation, wake_at, woken, ticks>>

(* exit: the thread parks itself on the zombie list and never runs again. *)
exit(t) ==
  /\ Running(t) /\ t # IdleId
  /\ reschedule("Exit", None, ticks)
  /\ UNCHANGED <<creation, wake_at, pc, woken, ticks>>

(* WaitQueue::wait, and the blocking branch of WaitQueue::wait_until. *)
wait(t, q) ==
  /\ Running(t) /\ t # IdleId
  /\ reschedule("Block", q, ticks)
  /\ UNCHANGED <<creation, wake_at, pc, woken, ticks>>

(* mutant: the waiters are read but not removed *)
take_waiters_peek(t, q, n) ==
  /\ woken' = [woken EXCEPT ![t] = SubSeq(waiters[q], 1, n)]
  /\ pc' = [pc EXCEPT ![t] = "wake"]
  /\ UNCHANGED <<places, creation, wake_at, slice_ticks, ticks, cpu>>

(* The first n waiters of q leave the queue for a local of thread t. *)
take_waiters(t, q, n) ==
  /\ woken' = [woken EXCEPT ![t] = SubSeq(waiters[q], 1, n)]
  /\ waiters' = [waiters EXCEPT ![q] = SubSeq(@, n + 1, Len(@))]
  /\ pc' = [pc EXCEPT ![t] = "wake"]
  /\ UNCHANGED <<current, ready, sleeping, idle, zombies, creation, wake_at,
                 slice_ticks, ticks, cpu>>

(* WaitQueue::wake_one up to the release of the queue's lock. *)
wake_one(t, q) ==
  /\ Running(t) /\ t # IdleId
  /\ waiters[q] # <<>>
  /\ take_waiters(t, q, 1)

(* WaitQueue::wake_all up to the release of the queue's lock. *)
wake_all(t, q) ==
  /\ Running(t) /\ t # IdleId
  /\ waiters[q] # <<>>
  /\ take_waiters(t, q, Len(waiters[q]))

(* wake_one and wake_all, the rest: the woken threads join the ready queue. *)
push_woken(t) ==
  /\ Inside(t, "wake")
  /\ ready' = ready \o woken[t]
  /\ woken' = [woken EXCEPT ![t] = <<>>]
  /\ pc' = [pc EXCEPT ![t] = "run"]
  /\ UNCHANGED <<current, sleeping, idle, zombies, waiters, creation, wake_at,
                 slice_ticks, ticks, cpu>>

(* create_thread's test for a kernel stack slot. *)
slot_available == free_slots # <<>> \/ next_slot < MaxSlots

(* create_thread under the scheduler lock: a free stack slot if there is one,
   else a new one, and a new id. *)
take_slot ==
  /\ next_id <= MaxId
  /\ slot_available
  /\ stack_slot' = [stack_slot EXCEPT ![next_id] =
                      IF free_slots # <<>> THEN free_slots[Len(free_slots)] ELSE next_slot]
  /\ free_slots' = IF free_slots # <<>> THEN SubSeq(free_slots, 1, Len(free_slots) - 1) ELSE free_slots
  /\ next_slot' = IF free_slots # <<>> THEN next_slot ELSE next_slot + 1
  /\ next_id' = next_id + 1

(* create_thread takes a slot; it, and the address space if isUser, belong to
   the caller until the new thread is queued. *)
create_thread(t, isUser) ==
  /\ Running(t) /\ t # IdleId
  /\ take_slot
  /\ child' = [child EXCEPT ![t] = next_id]
  /\ user' = IF isUser THEN user \cup {next_id} ELSE user
  /\ pc' = [pc EXCEPT ![t] = "create"]
  /\ UNCHANGED <<places, threads, wake_at, woken, slice_ticks, ticks, cpu>>

(* create_thread succeeds and spawn or spawn_user queues the thread. *)
spawn(t) ==
  /\ Inside(t, "create")
  /\ threads' = threads \cup {child[t]}
  /\ ready' = Append(ready, child[t])
  /\ child' = [child EXCEPT ![t] = None]
  /\ pc' = [pc EXCEPT ![t] = "run"]
  /\ UNCHANGED <<current, sleeping, idle, zombies, waiters, free_slots,
                 next_slot, next_id, stack_slot, user, wake_at, woken,
                 slice_ticks, ticks, cpu>>

(* create_thread runs out of frames: what was mapped is unmapped again and
   the slot goes back; the id is lost. *)
spawn_fails(t) ==
  /\ Inside(t, "create")
  /\ free_slots' = Append(free_slots, stack_slot[child[t]])
  /\ stack_slot' = [stack_slot EXCEPT ![child[t]] = None]
  /\ user' = user \ {child[t]}
  /\ child' = [child EXCEPT ![t] = None]
  /\ pc' = [pc EXCEPT ![t] = "run"]
  /\ UNCHANGED <<places, next_slot, next_id, threads, wake_at, woken,
                 slice_ticks, ticks, cpu>>

(* mutant: only sleepers end a slice *)
need_resched_no_slice(at) == Due(at) # {}

(* tick's decision, NEED_RESCHED: a sleeper is due, or the slice is used up
   and somebody else is ready. *)
need_resched(at) ==
  Due(at) # {} \/ (slice_ticks + 1 >= SliceTicks /\ ready # <<>>)

(* The timer interrupt: pit::on_tick, tick, the end of interrupt and
   preempt_if_needed, all with interrupts off. *)
tick ==
  LET at   == IF ticks < MaxTicks THEN ticks + 1 ELSE ticks
      used == slice_ticks + 1
  IN  /\ phase = "run"
      /\ ticks' = at
      /\ \/ /\ need_resched(at)
            /\ reschedule("Yield", None, at)
         \/ /\ ~need_resched(at)
            /\ slice_ticks' = IF used < SliceTicks THEN used ELSE SliceTicks
            /\ UNCHANGED <<places, cpu>>
      /\ UNCHANGED <<creation, wake_at, pc, woken>>

-----------------------------------------------------------------------------
(* What thread t may do next when it runs outside any call. *)
Act(t) ==
  \/ yield_now(t)
  \/ exit(t)
  \/ \E q \in Queues : wait(t, q) \/ wake_one(t, q) \/ wake_all(t, q)
  \/ \E isUser \in BOOLEAN : create_thread(t, isUser)

Call(t) == Act(t) \/ \E ms \in SleepTimes : sleep_ms(t, ms)

(* The rest of a call that thread t is inside of. *)
Finish(t) == sleep_park(t) \/ push_woken(t) \/ spawn(t) \/ spawn_fails(t)

(* The timer interrupt and the steps of a context switch. *)
Interrupt == tick \/ switch_context \/ finish_switch

Next == (\E t \in Tid : Call(t) \/ Finish(t)) \/ Interrupt

(* The timer keeps firing, a context switch runs to its end, and a thread
   that is given the CPU again and again gets to the end of its call: between
   two ticks the CPU executes many instructions. *)
Fairness ==
  /\ WF_vars(tick)
  /\ WF_vars(switch_context)
  /\ WF_vars(finish_switch)
  /\ \A t \in Tid : SF_vars(Finish(t))

Spec == Init /\ [][Next]_vars
FairSpec == Spec /\ Fairness

-----------------------------------------------------------------------------
TypeOK ==
  /\ current \in Tid /\ idle \in {IdleId, None}
  /\ ready \in Seq(Tid) /\ sleeping \subseteq Tid /\ zombies \subseteq Tid
  /\ waiters \in [Queues -> Seq(Tid)]
  /\ free_slots \in Seq(Slot) /\ next_slot \in 0..MaxSlots
  /\ next_id \in 2..(MaxId + 1)
  /\ threads \subseteq Tid /\ user \subseteq Tid
  /\ stack_slot \in [Tid -> Slot \cup {None}]
  /\ wake_at \in [Tid -> Nat]
  /\ pc \in [Tid -> Pc]
  /\ child \in [Tid -> Tid \cup {None}]
  /\ woken \in [Tid -> Seq(Tid)]
  /\ slice_ticks \in 0..SliceTicks /\ ticks \in 0..MaxTicks
  /\ phase \in Phase /\ stack \in Tid /\ cr3 \in Tid \cup {None}
  /\ rsp0 \in Slot \cup {None}

(* The elements of a family of sequences; that none of them occurs twice. *)
Elements(f) == UNION {Range(f[a]) : a \in DOMAIN f}
Separate(f) ==
  \A a, b \in DOMAIN f :
    IsInjective(f[a]) /\ (a # b => Range(f[a]) \cap Range(f[b]) = {})

Blocked == Elements(waiters)
Limbo == Elements(woken)
Homes == <<{current}, Range(ready), sleeping, {idle} \ {None}, zombies, Blocked, Limbo>>

(* A Box<Thread> is moved, never copied or dropped on the way: every thread
   that exists is in exactly one place -- the CPU, the ready queue, the
   sleepers, the idle slot, the zombies, a wait queue, or a local of a thread
   that is in the middle of wake_one or wake_all -- and at one position of it. *)
OneHome ==
  /\ threads = UNION Range(Homes)
  /\ LET home == Homes
     IN  \A i, j \in 1..7 : i # j => home[i] \cap home[j] = {}
  /\ IsInjective(ready) /\ Separate(waiters) /\ Separate(woken)

(* reschedule's expect("scheduler: no idle thread") cannot fail: the idle
   thread is on the CPU or parked, whatever yields, sleeps, blocks or exits. *)
IdleAvailable == current = IdleId \/ idle = IdleId

(* The threads that hold a kernel stack slot: those that exist and those that
   create_thread is still building. *)
SlotOwners == threads \cup ({child[t] : t \in Tid} \ {None})

(* Stack slots are neither leaked nor handed out twice: every slot ever taken
   is on the free list once, or is the stack of exactly one thread. *)
SlotsAccounted ==
  /\ IsInjective(free_slots)
  /\ \A a, b \in SlotOwners : stack_slot[a] = stack_slot[b] /\ stack_slot[a] # None => a = b
  /\ \A a \in SlotOwners : stack_slot[a] \notin Range(free_slots)
  /\ 0..(next_slot - 1) = Range(free_slots) \cup ({stack_slot[a] : a \in SlotOwners} \ {None})

(* The stack the CPU is on is never that of a thread already freed, and its
   slot is never on the free list, so no new thread can be given the same
   pages while they are in use; and a thread that exited is reaped before any
   thread runs again. *)
StackInUseIsOwned ==
  /\ stack \in threads
  /\ stack_slot[stack] \notin Range(free_slots)
  /\ phase # "switch" => stack = current
  /\ phase = "run" => zombies = {}

(* CR3 never selects the page tables of an address space already torn down;
   and whenever a thread that owns an address space runs, CR3 selects it and
   TSS.rsp0 (where its next trap lands) is the top of its own kernel stack. *)
AddressSpaceInUse ==
  /\ cr3 # None => cr3 \in threads \cap user
  /\ phase = "run" /\ current \in user =>
       cr3 = current /\ rsp0 = stack_slot[current]

(* Every thread that could run does: one in the ready queue, since the timer
   ends the slice of a thread that never yields; a sleeper whose deadline the
   clock reaches; and one taken off a wait queue, even if its waker is
   preempted before it has queued it. *)
NoStarvation ==
  \A t \in Tid :
    \/ t \in Range(ready)
    \/ t \in sleeping /\ wake_at[t] <= MaxTicks
    \/ t \in Limbo
      ~> current = t
=============================================================================
