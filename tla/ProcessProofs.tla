---------------------------- MODULE ProcessProofs ----------------------------
(***************************************************************************)
(* Processes, for any number of them: no process is ever half there, and   *)
(* every exit status is delivered once, to the parent.                     *)
(***************************************************************************)
EXTENDS Process, SchedulerProofs

Doing == {"new", "user", "closed", "recorded", "wait", "poll"}

(* The record of process t while it has the status `ended` says, and what
   wait4 makes of it. *)
Record(t) == [pid |-> t, parent |-> born[t], status |-> ended[t]]
Delivered(t) == [by |-> born[t], pid |-> t, status |-> ended[t]]

ProcTypeOK ==
  /\ doing \in [Tid -> Doing] /\ arg \in [Tid -> Nat \cup {None}]
  /\ born \in [Tid -> Tid \cup {None}] /\ ended \in [Tid -> Nat \cup {None}]

(* The table holds the processes ever started whose status has not been
   delivered, each with its parent and the status it has ended with. *)
TableExact ==
  /\ \A r \in procs : r.pid \in user /\ r = Record(r.pid) /\ Delivered(r.pid) \notin reaped
  /\ \A t \in user : Record(t) \in procs \/ Delivered(t) \in reaped
  /\ \A x \in reaped : x.pid \in user /\ x = Delivered(x.pid) /\ ended[x.pid] # None

(* Where a process is in its life: it has a status once exit_current has
   recorded it, and its thread is there until then. *)
LifeInOrder ==
  /\ \A t \in Tid : t \in user <=> born[t] # None
  /\ \A t \in Tid : ended[t] # None <=> doing[t] = "recorded"
  /\ \A t \in Tid : doing[t] # "new" => t \in user
  /\ \A t \in Tid : doing[t] = "closed" => arg[t] # None
  /\ \A t \in user : doing[t] = "recorded" \/ t \in threads \ zombies

(* Descriptors belong to processes that have not begun to exit, and a new
   process has the three standard streams. *)
FilesOwned ==
  /\ \A f \in files : f[1] \in user /\ doing[f[1]] \notin {"closed", "recorded"}
  /\ \A t \in user : doing[t] = "new" => {f \in files : f[1] = t} = {<<t, fd>> : fd \in 0..2}

ProcInv == IInv /\ ProcTypeOK /\ TableExact /\ LifeInOrder /\ FilesOwned

-----------------------------------------------------------------------------
(* spawn_with's section builds the thread and queues it at once. *)
LEMMA SpawnWithHome == ASSUME IInv, NEW t \in Tid, spawn_with(t) PROVE IInv'
<1> DEFINE c == next_id
<1>1. /\ take_slot /\ threads' = threads \cup {c} /\ user' = user \cup {c} /\ ready' = Append(ready, c)
      /\ UNCHANGED <<current, sleeping, idle, zombies, waiters, child, wake_at, pc, woken,
                     slice_ticks, ticks, cpu>>
  BY Zenon DEF spawn_with
<1>2. c \in 2..(MaxId + 1) /\ c <= MaxId /\ child \in [Tid -> Tid \cup {None}]
  BY <1>1, Zenon DEF IInv, TypeOK, take_slot
<1>3. SlotOwners' = SlotOwners \cup {c}
  BY <1>1, Zenon DEF SlotOwners
<1>4. /\ SlotsAccounted'
      /\ free_slots' \in Seq(Slot) /\ next_slot' \in 0..MaxSlots
      /\ stack_slot' \in [Tid -> Slot \cup {None}] /\ stack_slot'[c] # None
      /\ \A s \in Tid \ {c} : stack_slot'[s] = stack_slot[s]
      /\ c \in Tid \ SlotOwners /\ next_id' = c + 1
  BY <1>1, <1>3, TakeSlotOK, Zenon
<1>5. c \notin threads /\ \A s \in Tid : child[s] # c
  <2>1. c # None
    BY <1>4, TidFacts, Zenon
  <2> QED BY <1>4, <2>1, Zenon DEF SlotOwners
<1>6. HomeParts /\ ready \in Seq(Tid)
  BY OneHomeParts, Zenon DEF IInv, TypeOK
<1> HIDE DEF c
<1>7. c \notin Range(ready)
  BY <1>5, <1>6, Zenon DEF HomeParts
<1>8. ready' \in Seq(Tid) /\ Range(ready') = Range(ready) \cup {c} /\ IsInjective(ready')
  BY <1>1, <1>4, <1>6, <1>7, RangeAppend, SMTT(60) DEF HomeParts
<1>9. HomeParts'
  BY <1>1, <1>5, <1>6, <1>8, SMTT(60) DEF HomeParts, Blocked, Limbo
<1>10. OneHome' /\ IdleAvailable'
  BY <1>1, <1>9, OneHomePrimed, ZenonT(30) DEF IInv, IdleAvailable
<1>11. TypeOK'
  <2>1. next_id' \in 2..(MaxId + 1)
    BY <1>2, <1>4, ConstAssumption, SMTT(30)
  <2> QED BY <1>1, <1>4, <1>8, <2>1, ZenonT(60) DEF IInv, TypeOK, cpu
<1>12. IdsInOrder'
  <2>1. 0..(next_id' - 1) = 0..(c - 1) \cup {c} /\ 2..(next_id' - 1) = 2..(c - 1) \cup {c}
    BY <1>2, <1>4, SMTT(30)
  <2>2. SlotOwners \subseteq Tid
    BY SMTT(30) DEF IInv, TypeOK, SlotOwners
  <2> QED BY <1>1, <1>3, <1>4, <2>1, <2>2, Zenon DEF IInv, IdsInOrder, c
<1>13. ChildrenApart' /\ WokenInside'
  BY <1>1, <1>5, ZenonT(60) DEF IInv, ChildrenApart, WokenInside
<1>14. CpuFollows'
  <2>1. current \in threads /\ current \in Tid /\ current # c
    BY <1>5, OneHomeParts, Zenon DEF IInv, HomeParts, TypeOK
  <2> QED BY <1>1, <1>4, <2>1, ZenonT(60) DEF IInv, CpuFollows, cpu
<1> QED BY <1>4, <1>10, <1>11, <1>12, <1>13, <1>14, Zenon DEF IInv

(* spawn_with gives the slot back when it fails: only an id is used up. *)
LEMMA SpawnWithFailsHome == ASSUME IInv, NEW t \in Tid, spawn_with_fails(t) PROVE IInv'
<1>1. /\ next_id <= MaxId /\ next_id' = next_id + 1 /\ slot_available
      /\ \/ free_slots' = free_slots /\ next_slot' = next_slot
         \/ free_slots = <<>> /\ free_slots' = <<next_slot>> /\ next_slot' = next_slot + 1
      /\ UNCHANGED <<places, threads, stack_slot, user, child, wake_at, pc, woken,
                     slice_ticks, ticks, cpu>>
  BY Zenon DEF spawn_with_fails
<1>2. /\ free_slots \in Seq(Slot) /\ next_slot \in 0..MaxSlots /\ next_id \in 2..(MaxId + 1)
      /\ stack_slot \in [Tid -> Slot \cup {None}]
  BY Zenon DEF IInv, TypeOK
<1>3. OneHome' /\ IdleAvailable'
  BY <1>1, StayHome, Zenon
<1>4. SlotOwners' = SlotOwners
  BY <1>1, Zenon DEF SlotOwners
<1> DEFINE owned == {stack_slot[a] : a \in SlotOwners} \ {None}
<1>5. owned' = owned
  BY <1>1, <1>4, Zenon
<1>6. /\ free_slots' \in Seq(Slot) /\ next_slot' \in 0..MaxSlots /\ IsInjective(free_slots')
      /\ 0..(next_slot' - 1) = Range(free_slots') \cup owned
      /\ \A a \in SlotOwners : stack_slot[a] \notin Range(free_slots')
  <2>1. /\ IsInjective(free_slots) /\ 0..(next_slot - 1) = Range(free_slots) \cup owned
        /\ \A a \in SlotOwners : stack_slot[a] \notin Range(free_slots)
    BY Zenon DEF IInv, SlotsAccounted
  <2>2. CASE free_slots' = free_slots /\ next_slot' = next_slot
    BY <1>2, <2>1, <2>2, Zenon
  <2>3. CASE free_slots = <<>> /\ free_slots' = <<next_slot>> /\ next_slot' = next_slot + 1
    <3>1. next_slot \in Slot /\ next_slot' \in 0..MaxSlots
      BY <1>1, <1>2, <2>3, ConstAssumption, SMTT(30) DEF slot_available, Slot
    <3>2. Range(free_slots) = {}
      BY <2>3, RangeEmpty, Zenon
    <3>3. free_slots' = Append(free_slots, next_slot)
      BY <2>3, SMTT(30)
    <3>4. free_slots' \in Seq(Slot) /\ Range(free_slots') = {next_slot} /\ IsInjective(free_slots')
      BY <1>2, <2>1, <3>1, <3>2, <3>3, RangeAppend, SMTT(30)
    <3>5. owned = 0..(next_slot - 1)
      BY <2>1, <3>2, Zenon
    <3>6. 0..(next_slot' - 1) = 0..(next_slot - 1) \cup {next_slot} /\ next_slot \notin 0..(next_slot - 1)
      BY <1>2, <2>3, SMTT(30)
    <3>7. next_slot # None
      BY <1>2, SMTT(30) DEF None
    <3>8. \A a \in SlotOwners : stack_slot[a] # next_slot
      BY <3>5, <3>6, <3>7, Zenon
    <3> QED BY <3>1, <3>4, <3>5, <3>6, <3>8, ZenonT(60)
  <2> QED BY <1>1, <2>2, <2>3, Zenon
<1>7. SlotsAccounted'
  <2>1. \A a, b \in SlotOwners : stack_slot[a] = stack_slot[b] /\ stack_slot[a] # None => a = b
    BY Zenon DEF IInv, SlotsAccounted
  <2>2. stack_slot' = stack_slot
    BY <1>1, Zenon
  <2> QED BY <1>4, <1>5, <1>6, <2>1, <2>2, ZenonT(60) DEF SlotsAccounted
<1>8. TypeOK'
  <2>1. next_id' \in 2..(MaxId + 1)
    BY <1>1, <1>2, ConstAssumption, SMTT(30)
  <2> QED BY <1>1, <1>6, <2>1, ZenonT(60) DEF IInv, TypeOK, places, cpu
<1>9. IdsInOrder'
  <2>1. 0..(next_id - 1) \subseteq 0..(next_id' - 1) /\ 2..(next_id - 1) \subseteq 2..(next_id' - 1)
    BY <1>1, <1>2, SMTT(30)
  <2> QED BY <1>1, <1>4, <2>1, Zenon DEF IInv, IdsInOrder
<1>10. ChildrenApart' /\ WokenInside'
  BY <1>1, Zenon DEF IInv, ChildrenApart, WokenInside
<1>11. CpuFollows'
  BY <1>1, Zenon DEF IInv, CpuFollows, cpu, places
<1> QED BY <1>3, <1>7, <1>8, <1>9, <1>10, <1>11, Zenon DEF IInv

(* All other steps are steps of the scheduler, or none. *)
LEMMA ProcessHomes == ASSUME IInv, [ProcNext]_allVars PROVE IInv'
<1>1. ASSUME NEW t \in Tid,
             \/ sys_open(t) \/ \E fd \in Closable : sys_close(t, fd)
             \/ \E pid \in 2..MaxId \cup {AnyChild} : sys_waitpid(t, pid)
             \/ user_thread_main(t) \/ record_status(t) \/ take_child_exit_status(t)
      PROVE  UNCHANGED vars
  BY <1>1, Zenon DEF sys_open, sys_close, sys_waitpid, user_thread_main, record_status,
                     take_child_exit_status
<1>2. ASSUME NEW t \in Tid, \/ sys_exit(t) \/ sys_kill(t)
                            \/ \E vector \in Vectors : kill_user_process(t, vector)
      PROVE  UNCHANGED vars
  BY <1>2, Zenon DEF sys_exit, sys_kill, kill_user_process, exit_current
<1>3. ASSUME NEW t \in Tid, thread_exit(t) \/ wait_yield(t) \/ other(t) PROVE Next
  BY <1>3, Zenon DEF thread_exit, wait_yield, other, Next, Call, Act
<1>4. System => Next
  BY Zenon DEF System, Next, Interrupt
<1>5. UNCHANGED allVars => UNCHANGED vars
  BY Zenon DEF allVars
<1> QED BY <1>1, <1>2, <1>3, <1>4, <1>5, NextOK, SpawnWithHome, SpawnWithFailsHome, Zenon
        DEF ProcNext, Continue

-----------------------------------------------------------------------------
ProcPart == ProcTypeOK /\ TableExact /\ LifeInOrder /\ FilesOwned

(* A step of the scheduler: threads that are not zombies are not freed, and only
   one that has recorded its status becomes a zombie. *)
LEMMA ScheduledOK ==
  ASSUME ProcInv, UNCHANGED procVars, user' = user,
         \A t \in user : doing[t] # "recorded" /\ t \in threads \ zombies => t \in threads' \ zombies'
  PROVE  ProcPart'
<1>1. /\ procs' = procs /\ files' = files /\ doing' = doing /\ arg' = arg
      /\ born' = born /\ ended' = ended /\ reaped' = reaped
  BY Zenon DEF procVars, tables, locals, history
<1>2. ProcTypeOK' /\ TableExact' /\ FilesOwned'
  BY <1>1, Zenon DEF ProcInv, ProcTypeOK, TableExact, FilesOwned, Record, Delivered
<1>3. LifeInOrder'
  BY <1>1, Zenon DEF ProcInv, LifeInOrder
<1> QED BY <1>2, <1>3, Zenon DEF ProcPart

(* What a step of the scheduler does to the threads of processes. *)
LEMMA ThreadsStay ==
  ASSUME IInv
  PROVE  /\ tick \/ switch_context \/ finish_switch =>
              user' = user /\ threads \ zombies \subseteq threads' \ zombies'
         /\ \A t \in Tid : yield_now(t) =>
              user' = user /\ threads \ zombies \subseteq threads' \ zombies'
         /\ \A t \in Tid : exit(t) =>
              user' = user /\ (threads \ zombies) \ {t} \subseteq threads' \ zombies'
<1>1. ASSUME NEW n, reschedule("Yield", None, n) PROVE zombies' = zombies
  BY <1>1, Zenon DEF reschedule
<1>2. tick => user' = user /\ threads' = threads /\ zombies' = zombies
  BY <1>1, Zenon DEF tick, creation, places
<1>3. switch_context => user' = user /\ threads' = threads /\ zombies' = zombies
  BY Zenon DEF switch_context, creation, places
<1>4. finish_switch => user' = user /\ threads \ zombies \subseteq threads' \ zombies'
  BY Zenon DEF finish_switch, taken
<1>5. ASSUME NEW t \in Tid, yield_now(t) PROVE user' = user /\ threads' = threads /\ zombies' = zombies
  BY <1>1, <1>5, Zenon DEF yield_now, creation
<1>6. ASSUME NEW t \in Tid, exit(t)
      PROVE  user' = user /\ threads' = threads /\ zombies' = zombies \cup {t}
  <2>1. reschedule("Exit", None, ticks) /\ current = t /\ UNCHANGED creation
    BY <1>6, Zenon DEF exit, Running
  <2>2. zombies' = zombies \cup {t}
    BY <2>1, Zenon DEF reschedule
  <2> QED BY <2>1, <2>2, Zenon DEF creation
<1> QED BY <1>2, <1>3, <1>4, <1>5, <1>6, Zenon

(* A new process: its record, its descriptors and its thread appear at once. *)
LEMMA SpawnWithOK == ASSUME ProcInv, NEW t \in Tid, spawn_with(t) PROVE ProcPart'
<1>0. PICK n : n = next_id
  BY Zenon
<1>1. /\ threads' = threads \cup {n} /\ user' = user \cup {n} /\ zombies' = zombies
      /\ files' = init_process_files(n) /\ procs' = register(n, t)
      /\ born' = [born EXCEPT ![n] = t]
      /\ doing' = doing /\ arg' = arg /\ ended' = ended /\ reaped' = reaped
  BY <1>0, Zenon DEF spawn_with, locals
<1>2. n \in Tid /\ n \notin user /\ n \notin threads /\ n \notin zombies
  <2>1. n \in 2..(MaxId + 1) /\ n <= MaxId
    BY <1>0, Zenon DEF spawn_with, take_slot, ProcInv, IInv, TypeOK
  <2>2. n \in Tid /\ n \notin 0..(n - 1) /\ n \notin 2..(n - 1)
    BY <2>1, ConstAssumption, SMTT(30) DEF Tid
  <2>3. threads \subseteq 0..(n - 1) /\ user \subseteq 2..(n - 1)
    BY <1>0, Zenon DEF ProcInv, IInv, IdsInOrder, SlotOwners
  <2>4. zombies \subseteq threads
    BY OneHomeParts, Zenon DEF ProcInv, IInv, HomeParts
  <2> QED BY <2>2, <2>3, <2>4, Zenon
<1>3. /\ born \in [Tid -> Tid \cup {None}] /\ ended \in [Tid -> Nat \cup {None}]
      /\ born[n] = None /\ doing[n] = "new" /\ ended[n] = None
  BY <1>2, Zenon DEF ProcInv, ProcTypeOK, LifeInOrder
<1>4. procs' = procs \cup {[pid |-> n, parent |-> t, status |-> None]}
  BY <1>1, <1>2, Zenon DEF ProcInv, TableExact, register
<1>5. born'[n] = t /\ \A u \in Tid \ {n} : born'[u] = born[u]
  BY <1>1, <1>2, <1>3, Zenon
<1>6. user \subseteq Tid
  BY Zenon DEF ProcInv, IInv, TypeOK
<1>7. \A u \in user : Record(u)' = Record(u) /\ Delivered(u)' = Delivered(u)
  BY <1>1, <1>2, <1>5, <1>6, Zenon DEF Record, Delivered
<1>8. Record(n)' = [pid |-> n, parent |-> t, status |-> None]
  BY <1>1, <1>3, <1>5, Zenon DEF Record
<1>9. Delivered(n)' \notin reaped'
  <2>1. Delivered(n)'.pid = n
    BY Zenon DEF Delivered
  <2> QED BY <1>1, <1>2, <2>1, Zenon DEF ProcInv, TableExact
<1>10. TableExact'
  <2>1. ASSUME NEW r \in procs' PROVE r.pid \in user' /\ r = Record(r.pid)' /\ Delivered(r.pid)' \notin reaped'
    <3>1. CASE r \in procs
      BY <1>1, <1>7, <3>1, Zenon DEF ProcInv, TableExact
    <3>2. CASE r = [pid |-> n, parent |-> t, status |-> None]
      <4>1. r.pid = n
        BY <3>2, Zenon
      <4> QED BY <1>1, <1>8, <1>9, <3>2, <4>1, Zenon
    <3> QED BY <1>4, <3>1, <3>2, Zenon
  <2>2. ASSUME NEW u \in user' PROVE Record(u)' \in procs' \/ Delivered(u)' \in reaped'
    BY <1>1, <1>4, <1>7, <1>8, Zenon DEF ProcInv, TableExact
  <2>3. ASSUME NEW x \in reaped' PROVE x.pid \in user' /\ x = Delivered(x.pid)' /\ ended'[x.pid] # None
    BY <1>1, <1>7, Zenon DEF ProcInv, TableExact
  <2> QED BY <2>1, <2>2, <2>3, Zenon DEF TableExact
<1>11. ProcTypeOK'
  BY <1>1, <1>2, <1>3, Zenon DEF ProcInv, ProcTypeOK, Doing
<1>12. LifeInOrder'
  <2>1. t # None
    BY TidFacts, Zenon
  <2> QED BY <1>1, <1>2, <1>3, <1>5, <2>1, ZenonT(60) DEF ProcInv, LifeInOrder
<1>13. FilesOwned'
  <2>1. files' = {f \in files : f[1] # n} \cup {<<n, fd>> : fd \in 0..2}
    BY <1>1, Zenon DEF init_process_files
  <2>2. \A f \in {<<n, fd>> : fd \in 0..2} : f[1] = n
    BY SMTT(30)
  <2> DEFINE new == {<<n, fd>> : fd \in 0..2}
  <2> HIDE DEF new
  <2>3. {f \in files' : f[1] = n} = new
    BY <2>1, <2>2, Zenon DEF new
  <2>4. \A u \in user : {f \in files' : f[1] = u} = {f \in files : f[1] = u}
    BY <1>2, <2>1, <2>2, Zenon
  <2>5. \A f \in files' : f[1] \in user' /\ doing'[f[1]] \notin {"closed", "recorded"}
    BY <1>1, <1>3, <2>1, <2>2, Zenon DEF ProcInv, FilesOwned
  <2>6. ASSUME NEW u \in user', doing'[u] = "new"
        PROVE  {f \in files' : f[1] = u} = {<<u, fd>> : fd \in 0..2}
    <3>1. CASE u = n
      BY <2>3, <3>1, Zenon DEF new
    <3>2. CASE u \in user
      BY <1>1, <2>4, <2>6, <3>2, Zenon DEF ProcInv, FilesOwned
    <3> QED BY <1>1, <3>1, <3>2, Zenon
  <2> QED BY <2>5, <2>6, Zenon DEF FilesOwned
<1> QED BY <1>10, <1>11, <1>12, <1>13, Zenon DEF ProcPart

(* A step of a process that has its record in the table and its thread, and
   that changes neither: only where it is in its life, its descriptors and its
   arguments. *)
LEMMA StepOK ==
  ASSUME ProcInv, NEW t \in user, NEW d \in Doing \ {"new", "recorded"}, NEW a \in Nat \cup {None},
         doing[t] # "recorded", d = "closed" => a # None /\ \A f \in files' : f[1] # t,
         \A f \in files' : f \in files \/ (f[1] = t /\ d # "closed"),
         \A u \in user \ {t} : {f \in files' : f[1] = u} = {f \in files : f[1] = u},
         UNCHANGED vars, doing' = [doing EXCEPT ![t] = d], arg' = [arg EXCEPT ![t] = a],
         born' = born, ended' = ended
  PROVE  /\ ProcTypeOK' /\ LifeInOrder' /\ FilesOwned'
         /\ procs' = procs /\ reaped' = reaped => TableExact'
<1>1. user' = user /\ threads' = threads /\ zombies' = zombies
  BY Zenon DEF vars, places, creation
<1>2. t \in Tid /\ doing \in [Tid -> Doing] /\ arg \in [Tid -> Nat \cup {None}]
  BY Zenon DEF ProcInv, IInv, TypeOK, ProcTypeOK
<1>3. /\ doing'[t] = d /\ arg'[t] = a
      /\ \A u \in Tid \ {t} : doing'[u] = doing[u] /\ arg'[u] = arg[u]
  BY <1>2, Zenon
<1>4. ProcTypeOK'
  BY <1>2, Zenon DEF ProcInv, ProcTypeOK
<1>5. LifeInOrder'
  <2>1. \A u \in Tid : u \in user' <=> born'[u] # None
    BY <1>1, Zenon DEF ProcInv, LifeInOrder
  <2>2. ASSUME NEW u \in Tid
        PROVE  /\ ended'[u] # None <=> doing'[u] = "recorded"
               /\ doing'[u] # "new" => u \in user'
               /\ doing'[u] = "closed" => arg'[u] # None
    BY <1>1, <1>2, <1>3, ZenonT(30) DEF ProcInv, LifeInOrder
  <2>3. ASSUME NEW u \in user' PROVE doing'[u] = "recorded" \/ u \in threads' \ zombies'
    <3>1. u \in Tid
      BY <1>1, Zenon DEF ProcInv, IInv, TypeOK
    <3> QED BY <1>1, <1>2, <1>3, <3>1, Zenon DEF ProcInv, LifeInOrder
  <2> QED BY <2>1, <2>2, <2>3, Zenon DEF LifeInOrder
<1>6. FilesOwned'
  <2>1. ASSUME NEW f \in files' PROVE f[1] \in user' /\ doing'[f[1]] \notin {"closed", "recorded"}
    <3>1. CASE f[1] = t
      BY <1>1, <1>3, <3>1, Zenon
    <3>2. CASE f \in files /\ f[1] # t
      <4>1. f[1] \in user /\ doing[f[1]] \notin {"closed", "recorded"}
        BY <3>2, Zenon DEF ProcInv, FilesOwned
      <4>2. f[1] \in Tid
        BY <4>1, Zenon DEF ProcInv, IInv, TypeOK
      <4> QED BY <1>1, <1>3, <3>2, <4>1, <4>2, Zenon
    <3> QED BY <3>1, <3>2, Zenon
  <2>2. ASSUME NEW u \in user', doing'[u] = "new"
        PROVE  {f \in files' : f[1] = u} = {<<u, fd>> : fd \in 0..2}
    <3>1. u \in Tid /\ u # t /\ u \in user
      BY <1>1, <1>3, <2>2, Zenon DEF ProcInv, IInv, TypeOK
    <3> QED BY <1>3, <2>2, <3>1, ZenonT(60) DEF ProcInv, FilesOwned
  <2> QED BY <2>1, <2>2, Zenon DEF FilesOwned
<1>7. procs' = procs /\ reaped' = reaped => TableExact'
  BY <1>1, Zenon DEF ProcInv, TableExact, Record, Delivered
<1> QED BY <1>4, <1>5, <1>6, <1>7, Zenon

(* Entering user mode, opening and closing descriptors, asking to wait. *)
LEMMA CallsOK ==
  ASSUME ProcInv, NEW t \in Tid,
         \/ user_thread_main(t) \/ sys_open(t)
         \/ \E fd \in Closable : sys_close(t, fd)
         \/ \E pid \in 2..MaxId \cup {AnyChild} : sys_waitpid(t, pid)
  PROVE  ProcPart'
<1>1. doing \in [Tid -> Doing] /\ arg \in [Tid -> Nat \cup {None}] /\ user \subseteq Tid
  BY Zenon DEF ProcInv, IInv, TypeOK, ProcTypeOK
<1>2. doing = [doing EXCEPT ![t] = doing[t]] /\ arg = [arg EXCEPT ![t] = arg[t]]
  BY <1>1, Zenon
<1>3. doing[t] \in Doing /\ arg[t] \in Nat \cup {None}
  BY <1>1, Zenon
<1>4. CASE user_thread_main(t)
  <2>1. t \in user /\ doing[t] = "new" /\ doing' = [doing EXCEPT ![t] = "user"] /\ UNCHANGED vars
        /\ files' = files /\ procs' = procs /\ arg' = arg /\ born' = born /\ ended' = ended /\ reaped' = reaped
    BY <1>4, Zenon DEF user_thread_main, tables, history
  <2>2. "user" \in Doing \ {"new", "recorded"}
    BY Zenon DEF Doing
  <2>3. "user" # "closed" /\ "new" # "recorded"
    BY Zenon
  <2>4. \A u \in user \ {t} : {f \in files' : f[1] = u} = {f \in files : f[1] = u}
    BY <2>1, Zenon
  <2>5. \A f \in files' : f \in files
    BY <2>1, Zenon
  <2> QED BY <1>2, <1>3, <2>1, <2>2, <2>3, <2>4, <2>5, StepOK, ZenonT(60) DEF ProcPart
<1>5. CASE sys_open(t)
  <2>1. t \in user /\ doing[t] = "user" /\ UNCHANGED vars
        /\ procs' = procs /\ doing' = doing /\ arg' = arg /\ born' = born /\ ended' = ended /\ reaped' = reaped
    BY <1>5, Zenon DEF sys_open, InUser, locals, history
  <2>2. PICK fd : files' = files \cup {<<t, fd>>}
    BY <1>5, Zenon DEF sys_open
  <2>3. "user" \in Doing \ {"new", "recorded"}
    BY Zenon DEF Doing
  <2>4. \A f \in files' : f \in files \/ f[1] = t
    BY <2>2, SMTT(30)
  <2>5. \A u \in user \ {t} : {f \in files' : f[1] = u} = {f \in files : f[1] = u}
    BY <2>2, SMTT(30)
  <2> QED BY <1>2, <1>3, <2>1, <2>3, <2>4, <2>5, StepOK, SMTT(30) DEF ProcPart
<1>6. ASSUME NEW fd \in Closable, sys_close(t, fd) PROVE ProcPart'
  <2>1. t \in user /\ doing[t] = "user" /\ UNCHANGED vars /\ files' = files \ {<<t, fd>>}
        /\ procs' = procs /\ doing' = doing /\ arg' = arg /\ born' = born /\ ended' = ended /\ reaped' = reaped
    BY <1>6, Zenon DEF sys_close, InUser, locals, history
  <2>3. "user" \in Doing \ {"new", "recorded"}
    BY Zenon DEF Doing
  <2>4. \A f \in files' : f \in files
    BY <2>1, Zenon
  <2>5. \A u \in user \ {t} : {f \in files' : f[1] = u} = {f \in files : f[1] = u}
    BY <2>1, SMTT(30)
  <2> QED BY <1>2, <1>3, <2>1, <2>3, <2>4, <2>5, StepOK, Zenon DEF ProcPart
<1>7. ASSUME NEW pid \in 2..MaxId \cup {AnyChild}, sys_waitpid(t, pid) PROVE ProcPart'
  <2>1. t \in user /\ doing[t] = "user" /\ doing' = [doing EXCEPT ![t] = "wait"]
        /\ arg' = [arg EXCEPT ![t] = pid] /\ UNCHANGED vars
        /\ files' = files /\ procs' = procs /\ born' = born /\ ended' = ended /\ reaped' = reaped
    BY <1>7, Zenon DEF sys_waitpid, InUser, tables, history
  <2>2. "wait" \in Doing \ {"new", "recorded"} /\ pid \in Nat \cup {None}
    BY ConstAssumption, SMTT(30) DEF Doing, AnyChild
  <2>3. "wait" # "closed" /\ "user" # "recorded"
    BY Zenon
  <2>4. \A u \in user \ {t} : {f \in files' : f[1] = u} = {f \in files : f[1] = u}
    BY <2>1, Zenon
  <2>5. \A f \in files' : f \in files
    BY <2>1, Zenon
  <2> QED BY <2>1, <2>2, <2>3, <2>4, <2>5, StepOK, ZenonT(60) DEF ProcPart
<1> QED BY <1>4, <1>5, <1>6, <1>7, Zenon

(* exit_current closes the descriptors first. *)
LEMMA ExitCurrentOK ==
  ASSUME ProcInv, NEW t \in Tid,
         \/ sys_exit(t) \/ sys_kill(t)
         \/ \E vector \in Vectors : kill_user_process(t, vector)
  PROVE  ProcPart'
<1>1. PICK code \in Nat : exit_current(t, code)
  <2>1. CASE sys_exit(t)
    BY <2>1, ProcAssumption, Zenon DEF sys_exit
  <2>2. CASE sys_kill(t)
    <3>1. PICK signal \in Signals : exit_current(t, 128 + signal)
      BY <2>2, Zenon DEF sys_kill
    <3>2. 128 + signal \in Nat
      BY ProcAssumption, SMTT(30)
    <3> QED BY <3>1, <3>2, Zenon
  <2>3. ASSUME NEW vector \in Vectors, kill_user_process(t, vector)
        PROVE  \E code \in Nat : exit_current(t, code)
    <3>1. PICK code : code = IF vector = 14 THEN 139 ELSE 128 + vector
      BY SMTT(30)
    <3>2. exit_current(t, code)
      BY <2>3, <3>1, Zenon DEF kill_user_process
    <3>3. code \in Nat
      BY <3>1, ProcAssumption, SMTT(30)
    <3> QED BY <3>2, <3>3, Zenon
  <2> QED BY <2>1, <2>2, <2>3, Zenon
<1>2. t \in user /\ doing[t] = "user" /\ doing' = [doing EXCEPT ![t] = "closed"]
      /\ arg' = [arg EXCEPT ![t] = code] /\ UNCHANGED vars /\ files' = {f \in files : f[1] # t}
      /\ procs' = procs /\ born' = born /\ ended' = ended /\ reaped' = reaped
  BY <1>1, Zenon DEF exit_current, InUser, history
<1>3. "closed" \in Doing \ {"new", "recorded"} /\ code # None
  BY SMTT(30) DEF Doing, None
<1>4. \A u \in user \ {t} : {f \in files' : f[1] = u} = {f \in files : f[1] = u}
  BY <1>2, Zenon
<1>5. \A f \in files' : f \in files /\ f[1] # t
  BY <1>2, Zenon
<1>6. code \in Nat \cup {None} /\ doing[t] # "recorded"
  BY <1>2, Zenon
<1> QED BY <1>2, <1>3, <1>4, <1>5, <1>6, StepOK, ZenonT(60) DEF ProcPart

(* exit_current's second section: the record is there, so it gets the status. *)
LEMMA RecordStatusOK == ASSUME ProcInv, NEW t \in Tid, record_status(t) PROVE ProcPart'
<1>1. /\ doing[t] = "closed" /\ doing' = [doing EXCEPT ![t] = "recorded"]
      /\ ended' = [ended EXCEPT ![t] = arg[t]]
      /\ UNCHANGED vars /\ files' = files /\ arg' = arg /\ born' = born /\ reaped' = reaped
  BY Zenon DEF record_status
<1>2. user' = user /\ threads' = threads /\ zombies' = zombies
  BY <1>1, Zenon DEF vars, places, creation
<1>3. /\ doing \in [Tid -> Doing] /\ arg \in [Tid -> Nat \cup {None}]
      /\ ended \in [Tid -> Nat \cup {None}] /\ user \subseteq Tid
  BY Zenon DEF ProcInv, IInv, TypeOK, ProcTypeOK
<1>4. "closed" # "new" /\ "closed" # "recorded" /\ "recorded" # "new"
  BY Zenon
<1>5. t \in user /\ ended[t] = None /\ arg[t] # None
  BY <1>1, <1>4, Zenon DEF ProcInv, LifeInOrder
<1>6. Record(t) \in procs /\ Delivered(t) \notin reaped
  <2>1. Delivered(t).pid = t
    BY Zenon DEF Delivered
  <2> QED BY <1>5, <2>1, Zenon DEF ProcInv, TableExact
<1>7. /\ doing'[t] = "recorded" /\ ended'[t] = arg[t]
      /\ \A u \in Tid \ {t} : doing'[u] = doing[u] /\ ended'[u] = ended[u]
  BY <1>1, <1>3, Zenon
<1>8. \A u \in user \ {t} : Record(u)' = Record(u) /\ Delivered(u)' = Delivered(u)
  BY <1>1, <1>3, <1>7, Zenon DEF Record, Delivered
<1>9. Record(t)' = [Record(t) EXCEPT !.status = arg[t]] /\ Record(t).pid = t /\ Record(t)'.pid = t
  BY <1>1, <1>7, SMTT(30) DEF Record
<1>10. /\ Record(t)' \in procs'
       /\ \A r \in procs : r.pid # t => r \in procs'
       /\ \A r \in procs' : r = Record(t)' \/ (r \in procs /\ r.pid # t)
  <2>1. \A r \in procs : r.pid = t => r = Record(t)
    BY Zenon DEF ProcInv, TableExact
  <2>2. procs' = {IF r.pid = t THEN [r EXCEPT !.status = arg[t]] ELSE r : r \in procs}
    BY <1>6, <1>9, Zenon DEF record_status
  <2>3. procs' = {IF r.pid = t THEN Record(t)' ELSE r : r \in procs}
    BY <1>9, <2>1, <2>2, Zenon
  <2> QED BY <1>6, <1>9, <2>3, Zenon
<1>11. Delivered(t)' \notin reaped'
  <2>1. Delivered(t)'.pid = t
    BY Zenon DEF Delivered
  <2> QED BY <1>1, <1>5, <2>1, Zenon DEF ProcInv, TableExact
<1>12. TableExact'
  <2>1. ASSUME NEW r \in procs' PROVE r.pid \in user' /\ r = Record(r.pid)' /\ Delivered(r.pid)' \notin reaped'
    <3>1. CASE r = Record(t)'
      BY <1>2, <1>5, <1>9, <1>11, <3>1, Zenon
    <3>2. CASE r \in procs /\ r.pid # t
      BY <1>1, <1>2, <1>8, <3>2, Zenon DEF ProcInv, TableExact
    <3> QED BY <1>10, <3>1, <3>2, Zenon
  <2>2. ASSUME NEW u \in user' PROVE Record(u)' \in procs' \/ Delivered(u)' \in reaped'
    <3>1. CASE u = t
      BY <1>10, <3>1, Zenon
    <3>2. CASE u # t
      <4>1. u \in user /\ Record(u).pid = u
        BY <1>2, Zenon DEF Record
      <4> QED BY <1>1, <1>8, <1>10, <3>2, <4>1, Zenon DEF ProcInv, TableExact
    <3> QED BY <3>1, <3>2, Zenon
  <2>3. ASSUME NEW x \in reaped' PROVE x.pid \in user' /\ x = Delivered(x.pid)' /\ ended'[x.pid] # None
    <3>1. x.pid \in user /\ x = Delivered(x.pid) /\ ended[x.pid] # None
      BY <1>1, Zenon DEF ProcInv, TableExact
    <3> QED BY <1>2, <1>3, <1>5, <1>7, <1>8, <3>1, Zenon
  <2> QED BY <2>1, <2>2, <2>3, Zenon DEF TableExact
<1>13. ProcTypeOK'
  BY <1>1, <1>3, Zenon DEF ProcInv, ProcTypeOK, Doing
<1>14. LifeInOrder'
  <2>1. \A u \in Tid : u \in user' <=> born'[u] # None
    BY <1>1, <1>2, Zenon DEF ProcInv, LifeInOrder
  <2>2. ASSUME NEW u \in Tid
        PROVE  /\ ended'[u] # None <=> doing'[u] = "recorded"
               /\ doing'[u] # "new" => u \in user'
               /\ doing'[u] = "closed" => arg'[u] # None
    BY <1>1, <1>2, <1>4, <1>5, <1>7, SMTT(30) DEF ProcInv, LifeInOrder
  <2>3. ASSUME NEW u \in user' PROVE doing'[u] = "recorded" \/ u \in threads' \ zombies'
    <3>1. u \in Tid
      BY <1>2, <1>3, Zenon
    <3> QED BY <1>2, <1>7, <3>1, Zenon DEF ProcInv, LifeInOrder
  <2> QED BY <2>1, <2>2, <2>3, Zenon DEF LifeInOrder
<1>15. FilesOwned'
  <2>1. ASSUME NEW f \in files' PROVE f[1] \in user' /\ doing'[f[1]] \notin {"closed", "recorded"}
    <3>1. f[1] \in user /\ doing[f[1]] \notin {"closed", "recorded"}
      BY <1>1, Zenon DEF ProcInv, FilesOwned
    <3>2. f[1] # t /\ f[1] \in Tid
      BY <1>1, <1>3, <3>1, Zenon
    <3> QED BY <1>2, <1>7, <3>1, <3>2, Zenon
  <2>2. ASSUME NEW u \in user', doing'[u] = "new"
        PROVE  {f \in files' : f[1] = u} = {<<u, fd>> : fd \in 0..2}
    <3>1. u \in Tid /\ u # t /\ u \in user
      BY <1>2, <1>3, <1>4, <1>7, <2>2, Zenon
    <3> QED BY <1>1, <1>7, <2>2, <3>1, Zenon DEF ProcInv, FilesOwned
  <2> QED BY <2>1, <2>2, Zenon DEF FilesOwned
<1> QED BY <1>12, <1>13, <1>14, <1>15, Zenon DEF ProcPart

(* wait4 looks at its children: a record leaves the table only as its status is
   delivered to the parent. *)
LEMMA TakeStatusOK == ASSUME ProcInv, NEW t \in Tid, take_child_exit_status(t) PROVE ProcPart'
<1>1. doing[t] = "wait" /\ UNCHANGED vars /\ files' = files /\ born' = born /\ ended' = ended
  BY Zenon DEF take_child_exit_status
<1>2. t \in user /\ doing[t] # "recorded"
  BY <1>1, Zenon DEF ProcInv, LifeInOrder
<1>3. arg \in [Tid -> Nat \cup {None}] /\ arg = [arg EXCEPT ![t] = arg[t]] /\ arg[t] \in Nat \cup {None}
  BY Zenon DEF ProcInv, ProcTypeOK
<1>4. \E d \in {"user", "poll"}, a \in Nat \cup {None} :
        doing' = [doing EXCEPT ![t] = d] /\ arg' = [arg EXCEPT ![t] = a]
  BY <1>3, Zenon DEF take_child_exit_status, wait_returns
<1>5. ProcTypeOK' /\ LifeInOrder' /\ FilesOwned' /\ (procs' = procs /\ reaped' = reaped => TableExact')
  <2>1. PICK d \in {"user", "poll"}, a \in Nat \cup {None} :
          doing' = [doing EXCEPT ![t] = d] /\ arg' = [arg EXCEPT ![t] = a]
    BY <1>4, Zenon
  <2>2. d \in Doing \ {"new", "recorded"} /\ d # "closed"
    BY Zenon DEF Doing
  <2>3. \A u \in user \ {t} : {f \in files' : f[1] = u} = {f \in files : f[1] = u}
    BY <1>1, Zenon
  <2>4. \A f \in files' : f \in files
    BY <1>1, Zenon
  <2> QED BY <1>1, <1>2, <2>1, <2>2, <2>3, <2>4, StepOK, ZenonT(60)
<1>6. ASSUME NEW r \in Children(t), r.status # None, procs' = procs \ {r},
             reaped' = reaped \cup {[by |-> t, pid |-> r.pid, status |-> r.status]}
      PROVE  TableExact'
  <2>1. user' = user
    BY <1>1, Zenon DEF vars, creation
  <2>2. r \in procs /\ r.parent = t
    BY <1>6, Zenon DEF Children
  <2>3. PICK p : p = r.pid
    BY Zenon
  <2>4. p \in user /\ r = Record(p) /\ Delivered(p) \notin reaped
    BY <2>2, <2>3, Zenon DEF ProcInv, TableExact
  <2>5. r.parent = born[p] /\ r.status = ended[p]
    BY <2>4, Zenon DEF Record
  <2>6. [by |-> t, pid |-> r.pid, status |-> r.status] = Delivered(p) /\ ended[p] # None
    BY <1>6, <2>2, <2>3, <2>5, Zenon DEF Delivered
  <2>7. \A u : /\ Record(u)' = Record(u) /\ Delivered(u)' = Delivered(u)
               /\ Record(u).pid = u /\ Delivered(u).pid = u
    BY <1>1, Zenon DEF Record, Delivered
  <2>8. reaped' = reaped \cup {Delivered(p)}
    BY <1>6, <2>6, Zenon
  <2>9. ASSUME NEW s \in procs' PROVE s.pid \in user' /\ s = Record(s.pid)' /\ Delivered(s.pid)' \notin reaped'
    <3>1. s \in procs /\ s # r
      BY <1>6, Zenon
    <3>2. s.pid \in user /\ s = Record(s.pid) /\ Delivered(s.pid) \notin reaped
      BY <3>1, Zenon DEF ProcInv, TableExact
    <3>3. s.pid # p
      BY <2>4, <3>1, <3>2, Zenon
    <3>4. Delivered(s.pid) # Delivered(p)
      BY <2>7, <3>3, Zenon
    <3> QED BY <2>1, <2>7, <2>8, <3>2, <3>4, Zenon
  <2>10. ASSUME NEW u \in user' PROVE Record(u)' \in procs' \/ Delivered(u)' \in reaped'
    <3>1. CASE u = p
      BY <2>7, <2>8, <3>1, Zenon
    <3>2. CASE u # p
      BY <1>6, <2>1, <2>4, <2>7, <2>8, <3>2, ZenonT(60) DEF ProcInv, TableExact
    <3> QED BY <3>1, <3>2, Zenon
  <2>11. ASSUME NEW x \in reaped' PROVE x.pid \in user' /\ x = Delivered(x.pid)' /\ ended'[x.pid] # None
    BY <1>1, <2>1, <2>4, <2>6, <2>7, <2>8, Zenon DEF ProcInv, TableExact
  <2> QED BY <2>9, <2>10, <2>11, Zenon DEF TableExact
<1>7. (procs' = procs /\ reaped' = reaped) \/ TableExact'
  BY <1>6, Zenon DEF take_child_exit_status
<1> QED BY <1>5, <1>7, Zenon DEF ProcPart

(* The steps that the scheduler takes part in. *)
LEMMA SchedulingOK ==
  ASSUME ProcInv
  PROVE  /\ System => ProcPart'
         /\ \A t \in Tid : \/ spawn_with_fails(t) \/ thread_exit(t) \/ other(t) => ProcPart'
<1> USE DEF ProcInv
<1>1. CASE System
  <2>1. (tick \/ switch_context \/ finish_switch) /\ UNCHANGED procVars
    BY <1>1, Zenon DEF System
  <2>2. user' = user /\ threads \ zombies \subseteq threads' \ zombies'
    BY <2>1, ThreadsStay, Zenon
  <2> QED BY <2>1, <2>2, ScheduledOK, Zenon
<1>2. ASSUME NEW t \in Tid, spawn_with_fails(t) PROVE ProcPart'
  <2>1. UNCHANGED procVars /\ user' = user /\ threads' = threads /\ zombies' = zombies
    BY <1>2, Zenon DEF spawn_with_fails, places
  <2> QED BY <2>1, ScheduledOK, Zenon
<1>3. ASSUME NEW t \in Tid, thread_exit(t) PROVE ProcPart'
  <2>1. UNCHANGED procVars /\ doing[t] = "recorded" /\ exit(t)
    BY <1>3, Zenon DEF thread_exit
  <2>2. user' = user /\ (threads \ zombies) \ {t} \subseteq threads' \ zombies'
    BY <2>1, ThreadsStay, Zenon
  <2> QED BY <2>1, <2>2, ScheduledOK, Zenon
<1>4. ASSUME NEW t \in Tid, other(t) PROVE ProcPart'
  <2>1. CASE yield_now(t) /\ UNCHANGED procVars
    <3>1. user' = user /\ threads \ zombies \subseteq threads' \ zombies'
      BY <2>1, ThreadsStay, Zenon
    <3> QED BY <2>1, <3>1, ScheduledOK, Zenon
  <2>2. CASE t = BootId /\ exit(t) /\ UNCHANGED procVars
    <3>1. user' = user /\ (threads \ zombies) \ {t} \subseteq threads' \ zombies'
      BY <2>2, ThreadsStay, Zenon
    <3>2. user \subseteq 2..(next_id - 1)
      BY Zenon DEF IInv, IdsInOrder
    <3>3. BootId \notin user
      BY <3>2, SMTT(30) DEF BootId, IInv, TypeOK
    <3> QED BY <2>2, <3>1, <3>3, ScheduledOK, Zenon
  <2> QED BY <1>4, <2>1, <2>2, Zenon DEF other
<1> QED BY <1>1, <1>2, <1>3, <1>4, Zenon

(* wait4 yields between two looks. *)
LEMMA WaitYieldOK == ASSUME ProcInv, NEW t \in Tid, wait_yield(t) PROVE ProcPart'
<1>1. /\ doing[t] = "poll" /\ doing' = [doing EXCEPT ![t] = "wait"] /\ yield_now(t)
      /\ procs' = procs /\ files' = files /\ arg' = arg /\ born' = born /\ ended' = ended /\ reaped' = reaped
  BY Zenon DEF wait_yield, tables, history
<1>2. user' = user /\ threads \ zombies \subseteq threads' \ zombies'
  BY <1>1, ThreadsStay, Zenon DEF ProcInv
<1>3. doing \in [Tid -> Doing] /\ user \subseteq Tid
  BY Zenon DEF ProcInv, IInv, TypeOK, ProcTypeOK
<1>4. doing'[t] = "wait" /\ \A u \in Tid \ {t} : doing'[u] = doing[u]
  BY <1>1, <1>3, Zenon
<1>5. \A u \in Tid : \A s \in {"new", "closed", "recorded"} : doing'[u] = s <=> doing[u] = s
  BY <1>1, <1>4, Zenon
<1>6. ProcTypeOK'
  BY <1>1, <1>3, Zenon DEF ProcInv, ProcTypeOK, Doing
<1>7. TableExact'
  BY <1>1, <1>2, Zenon DEF ProcInv, TableExact, Record, Delivered
<1>8. LifeInOrder'
  BY <1>1, <1>2, <1>3, <1>5, ZenonT(30) DEF ProcInv, LifeInOrder
<1>9. FilesOwned'
  <2>1. ASSUME NEW f \in files' PROVE f[1] \in user' /\ doing'[f[1]] \notin {"closed", "recorded"}
    <3>1. f[1] \in user /\ doing[f[1]] \notin {"closed", "recorded"}
      BY <1>1, Zenon DEF ProcInv, FilesOwned
    <3> QED BY <1>2, <1>3, <1>5, <3>1, Zenon
  <2>2. ASSUME NEW u \in user', doing'[u] = "new"
        PROVE  {f \in files' : f[1] = u} = {<<u, fd>> : fd \in 0..2}
    BY <1>1, <1>2, <1>3, <1>5, <2>2, Zenon DEF ProcInv, FilesOwned
  <2> QED BY <2>1, <2>2, Zenon DEF FilesOwned
<1> QED BY <1>6, <1>7, <1>8, <1>9, Zenon DEF ProcPart

-----------------------------------------------------------------------------
(* The invariant holds in every state: the table is exact, lives go in order
   and descriptors have owners, whatever the scheduler does in between. *)
THEOREM ProcessInvariant == ProcSafe => []ProcInv
<1>1. ProcInit => ProcInv
  <2> SUFFICES ASSUME ProcInit PROVE ProcInv
    BY Zenon
  <2>1. IInv
    BY BootedOK, ConstAssumption, SMTT(30) DEF ProcInit
  <2>2. user = {}
    BY Zenon DEF ProcInit, Booted
  <2>3. ProcTypeOK
    BY Zenon DEF ProcInit, ProcTypeOK, Doing
  <2>4. LifeInOrder
    BY <2>2, Zenon DEF ProcInit, LifeInOrder, None
  <2> QED BY <2>1, <2>2, <2>3, <2>4, Zenon DEF ProcInv, ProcInit, TableExact, FilesOwned
<1>2. ProcInv /\ [ProcNext]_allVars => ProcInv'
  <2> SUFFICES ASSUME ProcInv, [ProcNext]_allVars PROVE ProcInv'
    BY Zenon
  <2>1. IInv'
    BY ProcessHomes, Zenon DEF ProcInv
  <2>2. ASSUME ProcNext PROVE ProcPart'
    BY <2>2, SpawnWithOK, CallsOK, ExitCurrentOK, RecordStatusOK, TakeStatusOK, WaitYieldOK,
       SchedulingOK, ZenonT(60) DEF ProcNext, Continue
  <2>3. ASSUME UNCHANGED allVars PROVE ProcPart'
    <3>1. UNCHANGED procVars /\ user' = user /\ threads' = threads /\ zombies' = zombies
      BY <2>3, Zenon DEF allVars, vars, places, creation
    <3> QED BY <3>1, ScheduledOK, Zenon
  <2>4. ProcPart'
    BY <2>2, <2>3, Zenon
  <2> QED BY <2>1, <2>4, Zenon DEF ProcInv, ProcPart
<1> QED BY <1>1, <1>2, PTL DEF ProcSafe

(* No process is ever half there, for any number of processes: spawn_with makes
   the thread, the record and the streams at once, and exit_current closes the
   descriptors before the status can be seen. *)
THEOREM ProcessesComplete == ProcSafe => []ProcessComplete
<1>1. ProcInv => ProcessComplete
  <2> SUFFICES ASSUME ProcInv PROVE ProcessComplete
    BY Zenon
  <2>0. user \subseteq Tid
    BY Zenon DEF ProcInv, IInv, TypeOK
  <2>1. ASSUME NEW t \in threads \cap user, doing[t] # "recorded"
        PROVE  [pid |-> t, parent |-> born[t], status |-> None] \in procs
    <3>1. ended[t] = None /\ t \in user
      BY <2>0, <2>1, Zenon DEF ProcInv, LifeInOrder
    <3>2. Delivered(t).pid = t
      BY Zenon DEF Delivered
    <3>3. Record(t) \in procs
      BY <3>1, <3>2, Zenon DEF ProcInv, TableExact
    <3> QED BY <3>1, <3>3, Zenon DEF Record
  <2>2. \A t \in threads \cap user :
          doing[t] = "new" => {f \in files : f[1] = t} = {<<t, fd>> : fd \in 0..2}
    BY Zenon DEF ProcInv, FilesOwned
  <2>3. \A f \in files : f[1] \in threads
    BY Zenon DEF ProcInv, FilesOwned, LifeInOrder
  <2>4. ASSUME NEW r \in procs, r.status # None, NEW f \in files, f[1] = r.pid PROVE FALSE
    <3>1. r.pid \in user /\ r = Record(r.pid)
      BY Zenon DEF ProcInv, TableExact
    <3>2. r.status = ended[r.pid]
      BY <3>1, SMTT(30) DEF Record
    <3>3. doing[r.pid] = "recorded"
      BY <2>0, <2>4, <3>1, <3>2, Zenon DEF ProcInv, LifeInOrder
    <3> QED BY <2>4, <3>3, Zenon DEF ProcInv, FilesOwned
  <2> QED BY <2>1, <2>2, <2>3, <2>4, Zenon DEF ProcessComplete
<1> QED BY <1>1, ProcessInvariant, PTL

(* Every exit status reaches the parent, once and unchanged, for any number of
   processes: the record stays until take_child_exit_status removes it for the
   process that started it. *)
THEOREM StatusesDelivered == ProcSafe => []StatusDelivered
<1>1. ProcInv => StatusDelivered
  <2> SUFFICES ASSUME ProcInv PROVE StatusDelivered
    BY Zenon
  <2>1. ASSUME NEW x \in reaped
        PROVE  x.by = born[x.pid] /\ x.status = ended[x.pid] /\ \A r \in procs : r.pid # x.pid
    <3>1. x = Delivered(x.pid)
      BY Zenon DEF ProcInv, TableExact
    <3>2. x.by = born[x.pid] /\ x.status = ended[x.pid]
      BY <3>1, SMTT(30) DEF Delivered
    <3> QED BY <3>1, <3>2, ZenonT(60) DEF ProcInv, TableExact
  <2>2. \A r, s \in procs : r.pid = s.pid => r = s
    BY Zenon DEF ProcInv, TableExact
  <2>3. ASSUME NEW t \in Tid, ended[t] # None PROVE Record(t) \in procs \/ Delivered(t) \in reaped
    <3>1. doing[t] # "new"
      BY <2>3, Zenon DEF ProcInv, LifeInOrder
    <3> QED BY <3>1, Zenon DEF ProcInv, LifeInOrder, TableExact
  <2> QED BY <2>1, <2>2, <2>3, Zenon DEF StatusDelivered, Record, Delivered
<1> QED BY <1>1, ProcessInvariant, PTL
=============================================================================
