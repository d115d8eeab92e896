------------------------------- MODULE Process -------------------------------
(***************************************************************************)
(* User processes: the process table of src/src/process.rs and the         *)
(* descriptor table of src/src/syscall.rs, on top of the scheduler.  A     *)
(* process is started by exec, opens and closes descriptors, is ended by   *)
(* exit, a signal it sends itself or a CPU exception, and its status is    *)
(* collected by its parent with wait4.  Every step may be preempted.       *)
(***************************************************************************)
EXTENDS Scheduler

CONSTANTS
  Codes,        \* the arguments of the exit system call (already & 0xff): within 0..255
  Signals,      \* which of SIGKILL (9) and SIGTERM (15) processes use
  Vectors,      \* the exception vectors user code can raise: within 0..31
  MaxFd,        \* bound: the highest descriptor a process opens
  Closable      \* bound: the descriptors processes close one by one

ASSUME ProcAssumption == Codes \subseteq Nat /\ Signals \subseteq Nat /\ Vectors \subseteq Nat

VARIABLES
  procs,     \* PROCS: the records, which all have different pids
  files,     \* OPEN_FILES: the <<pid, fd>> pairs
  doing,     \* where each thread is in exit_current, wait4 or its start
  arg,       \* locals: the exit status, or the pid wait4 was asked for
  born,      \* history: the parent of every pid ever started
  ended,     \* history: the status each process ended with
  reaped     \* history: what wait4 delivered

tables == <<procs, files>>
locals == <<doing, arg>>
history == <<born, ended, reaped>>
procVars == <<tables, locals, history>>
allVars == <<vars, procVars>>

AnyChild == None        \* wait4's pid argument 0 or u64::MAX

ProcInit ==
  /\ Booted(1)
  /\ procs = {} /\ files = {}
  /\ doing = [t \in Tid |-> "new"]
  /\ arg = [t \in Tid |-> None]
  /\ born = [t \in Tid |-> None] /\ ended = [t \in Tid |-> None]
  /\ reaped = {}

(* Thread t runs its process's kernel code outside any system call. *)
InUser(t) == Running(t) /\ t \in user /\ doing[t] = "user"

-----------------------------------------------------------------------------
(* mutant: off by one *)
init_process_files_two(pid) ==
  {f \in files : f[1] # pid} \cup {<<pid, fd>> : fd \in 0..1}

(* init_process_files: exactly the three standard streams. *)
init_process_files(pid) ==
  {f \in files : f[1] # pid} \cup {<<pid, fd>> : fd \in 0..2}

(* register: a new record, or a new parent for a record that exists. *)
register(pid, parent) ==
  IF \E r \in procs : r.pid = pid
    THEN {IF r.pid = pid THEN [r EXCEPT !.parent = parent] ELSE r : r \in procs}
    ELSE procs \cup {[pid |-> pid, parent |-> parent, status |-> None]}

(* spawn_with from irq_save on: the thread, its descriptors and its record
   appear in one section with interrupts off.  The caller is the boot thread
   (start_init) or a process (exec). *)
spawn_with(t) ==
  /\ Running(t) /\ (t = BootId \/ InUser(t))
  /\ take_slot
  /\ threads' = threads \cup {next_id}
  /\ user' = user \cup {next_id}
  /\ ready' = Append(ready, next_id)
  /\ files' = init_process_files(next_id)
  /\ procs' = register(next_id, t)
  /\ born' = [born EXCEPT ![next_id] = t]
  /\ UNCHANGED <<current, sleeping, idle, zombies, waiters, child, wake_at, pc,
                 woken, slice_ticks, ticks, cpu, locals, ended, reaped>>

(* spawn_with when create_thread finds no frames (SpawnError::NoThread): the
   stack slot goes back on the free list and the id is used up. *)
spawn_with_fails(t) ==
  /\ Running(t) /\ (t = BootId \/ InUser(t))
  /\ next_id <= MaxId
  /\ slot_available
  /\ next_id' = next_id + 1
  /\ \/ free_slots # <<>> /\ UNCHANGED <<free_slots, next_slot>>
     \/ /\ free_slots = <<>>
        /\ free_slots' = <<next_slot>> /\ next_slot' = next_slot + 1
  /\ UNCHANGED <<places, threads, stack_slot, user, child, wake_at, pc, woken,
                 slice_ticks, ticks, cpu, procVars>>

(* thread_start and user_thread_main: the first time a process's thread runs
   it goes to user mode. *)
user_thread_main(t) ==
  /\ Running(t) /\ t \in user /\ doing[t] = "new"
  /\ doing' = [doing EXCEPT ![t] = "user"]
  /\ UNCHANGED <<vars, tables, arg, history>>

(* sys_open's last section: the lowest descriptor from 3 that is not in use. *)
sys_open(t) ==
  /\ InUser(t)
  /\ \E fd \in 3..MaxFd :
       /\ <<t, fd>> \notin files
       /\ \A lower \in 3..(fd - 1) : <<t, lower>> \in files
       /\ files' = files \cup {<<t, fd>>}
  /\ UNCHANGED <<vars, procs, locals, history>>

sys_close(t, fd) ==
  /\ InUser(t) /\ <<t, fd>> \in files
  /\ files' = files \ {<<t, fd>>}
  /\ UNCHANGED <<vars, procs, locals, history>>

-----------------------------------------------------------------------------
(* exit_current, first section: close_process_files. *)
exit_current(t, code) ==
  /\ InUser(t)
  /\ files' = {f \in files : f[1] # t}
  /\ doing' = [doing EXCEPT ![t] = "closed"]
  /\ arg' = [arg EXCEPT ![t] = code]
  /\ UNCHANGED <<vars, procs, history>>

(* exit_current, second section: the status goes into the record, or into a
   new record without a parent if there is none. *)
record_status(t) ==
  /\ Running(t) /\ doing[t] = "closed"
  /\ procs' = IF \E r \in procs : r.pid = t
                THEN {IF r.pid = t THEN [r EXCEPT !.status = arg[t]] ELSE r : r \in procs}
                ELSE procs \cup {[pid |-> t, parent |-> 0, status |-> arg[t]]}
  /\ doing' = [doing EXCEPT ![t] = "recorded"]
  /\ ended' = [ended EXCEPT ![t] = arg[t]]
  /\ UNCHANGED <<vars, files, arg, born, reaped>>

(* exit_current, the end: scheduler::exit. *)
thread_exit(t) ==
  /\ doing[t] = "recorded" /\ exit(t)
  /\ UNCHANGED procVars

(* SYS_EXIT; sys_kill with SIGKILL (9) or SIGTERM (15) to oneself. *)
sys_exit(t) == \E code \in Codes : exit_current(t, code)
sys_kill(t) == \E signal \in Signals : exit_current(t, 128 + signal)

(* The exception handler ends the process: 139 for a page fault. *)
kill_user_process(t, vector) ==
  exit_current(t, IF vector = 14 THEN 139 ELSE 128 + vector)

-----------------------------------------------------------------------------
(* wait4 for one child or any, past its argument checks. *)
sys_waitpid(t, pid) ==
  /\ InUser(t)
  /\ doing' = [doing EXCEPT ![t] = "wait"]
  /\ arg' = [arg EXCEPT ![t] = pid]
  /\ UNCHANGED <<vars, tables, history>>

(* mutant: any process with the pid will do *)
Children_of_anyone(t) == {r \in procs : arg[t] = AnyChild \/ r.pid = arg[t]}

(* The records wait4 is about: the caller's children, one or all. *)
Children(t) == {r \in procs : r.parent = t /\ (arg[t] = AnyChild \/ r.pid = arg[t])}

wait_returns(t) ==
  /\ doing' = [doing EXCEPT ![t] = "user"]
  /\ arg' = [arg EXCEPT ![t] = None]

(* take_child_exit_status under the PROCS lock: no such child (ECHILD), an
   exited child whose record is removed, or nothing yet -- then WNOHANG
   returns and the plain wait4 goes on to yield. *)
take_child_exit_status(t) ==
  /\ Running(t) /\ doing[t] = "wait"
  /\ \/ /\ Children(t) = {}
        /\ wait_returns(t)
        /\ UNCHANGED <<procs, reaped>>
     \/ \E r \in Children(t) :
          /\ r.status # None
          /\ procs' = procs \ {r}
          /\ reaped' = reaped \cup {[by |-> t, pid |-> r.pid, status |-> r.status]}
          /\ wait_returns(t)
     \/ /\ Children(t) # {}
        /\ \A r \in Children(t) : r.status = None
        /\ \/ wait_returns(t)
           \/ doing' = [doing EXCEPT ![t] = "poll"] /\ UNCHANGED arg
        /\ UNCHANGED <<procs, reaped>>
  /\ UNCHANGED <<vars, files, born, ended>>

(* mutant: the loop yields without looking again *)
wait_yield_only(t) == doing[t] = "poll" /\ yield_now(t) /\ UNCHANGED procVars

(* wait4 yields and looks again. *)
wait_yield(t) ==
  /\ doing[t] = "poll" /\ yield_now(t)
  /\ doing' = [doing EXCEPT ![t] = "wait"]
  /\ UNCHANGED <<tables, arg, history>>

(* SYS_SCHED_YIELD, the idle thread, and the boot thread's end. *)
other(t) ==
  /\ \/ (t = IdleId \/ InUser(t)) /\ yield_now(t)
     \/ t = BootId /\ exit(t)
  /\ UNCHANGED procVars

System == (tick \/ switch_context \/ finish_switch) /\ UNCHANGED procVars

(* A process's next step when it is inside a call that must end. *)
Continue(t) ==
  \/ user_thread_main(t) \/ record_status(t) \/ thread_exit(t)
  \/ take_child_exit_status(t) \/ wait_yield(t)

ProcNext ==
  \/ \E t \in Tid :
       \/ spawn_with(t) \/ spawn_with_fails(t) \/ sys_open(t)
       \/ \E fd \in Closable : sys_close(t, fd)
       \/ sys_exit(t) \/ sys_kill(t)
       \/ \E vector \in Vectors : kill_user_process(t, vector)
       \/ \E pid \in 2..MaxId \cup {AnyChild} : sys_waitpid(t, pid)
       \/ Continue(t) \/ other(t)
  \/ System

ProcSafe == ProcInit /\ [][ProcNext]_allVars

-----------------------------------------------------------------------------
(* A process is never half there, neither when it starts nor when it ends.
   While its thread has not recorded a status its record is in the table, with
   its parent and no status, so wait4 neither misses it nor returns early; when
   the thread is about to enter user mode for the first time it has exactly its
   three standard streams; once its status can be seen no descriptors are left,
   and none belong to a pid whose thread is gone. *)
ProcessComplete ==
  /\ \A t \in threads \cap user :
       /\ doing[t] # "recorded" =>
            [pid |-> t, parent |-> born[t], status |-> None] \in procs
       /\ doing[t] = "new" =>
            {f \in files : f[1] = t} = {<<t, fd>> : fd \in 0..2}
  /\ \A f \in files : f[1] \in threads
  /\ \A r \in procs : r.status # None => \A f \in files : f[1] # r.pid

(* wait4 delivers a status to the parent only, once, and the one the process
   ended with; and until then the record is kept. *)
StatusDelivered ==
  /\ \A x \in reaped : /\ x.by = born[x.pid]
                       /\ x.status = ended[x.pid]
                       /\ \A r \in procs : r.pid # x.pid
  /\ \A r, s \in procs : r.pid = s.pid => r = s
  /\ \A t \in Tid :
       ended[t] # None =>
         \/ [pid |-> t, parent |-> born[t], status |-> ended[t]] \in procs
         \/ [by |-> born[t], pid |-> t, status |-> ended[t]] \in reaped

(* A wait4 whose child has ended returns. *)
WaitReturns ==
  \A t \in Tid \ {IdleId, BootId} :
    doing[t] \in {"wait", "poll"} /\ (\E r \in Children(t) : r.status # None)
      ~> doing[t] = "user"
=============================================================================
