------------------------------ MODULE Files -------------------------------
(***************************************************************************)
(* File system calls of several processes over one NVMe volume, down to    *)
(* the locks they take: the descriptor table (syscall.rs OPEN_FILES), the  *)
(* mount table (vfs.rs MOUNTS) and the command queue of the block device   *)
(* (nvme.rs Shared.queue), on one CPU.                                     *)
(*                                                                         *)
(* OPEN_FILES and MOUNTS are IrqMutexes: whoever holds one runs with       *)
(* interrupts off, so nothing else runs and the clock stands still.  The   *)
(* queue lock is a plain spin lock.  Calls through the VFS take it inside  *)
(* MOUNTS; sys_list_block_devices and Fat32::mount take it on their own,   *)
(* with interrupts on.                                                     *)
(*                                                                         *)
(* The volume holds one file, a sequence of chunks named after their       *)
(* writers; a call of the VFS that reaches the volume is one command, for  *)
(* its reads and writes and the flush at its end.                          *)
(***************************************************************************)
EXTENDS Naturals, Sequences, FiniteSets

CONSTANTS
    Procs,        \* processes
    Prefixes,     \* mount points
    Flags,        \* open flags tried: subsets of {"rdwr", "creat", "trunc", "append"}
    QSIZE,        \* entries of the completion queue
    MaxCalls,     \* bound: system calls
    MaxErrors,    \* bound: commands the device fails
    MaxTimeouts   \* bound: commands that outlast TIMEOUT_MS

None == "none"
ASSUME FilesAssumption == None \notin Procs \cup Prefixes /\ QSIZE \in Nat \ {0}

VARIABLES
    cpu,        \* the running process
    irq,        \* its interrupts are on
    held,       \* who holds "files" (OPEN_FILES), "mounts" (MOUNTS), "queue"
    call,       \* each process's system call in progress
    fds,        \* each process's descriptors (at most one)
    file,       \* the file on the volume: [there, data]
    mounts,     \* where the volume is mounted
    queue,      \* the driver's side of the completion queue: [head, phase]
    dev,        \* the device's side: [pending, tail, phase]
    cq,         \* its entries: [phase, of, current, ok]
    calls, errors, timeouts,
    clobbered,  \* an append replaced a chunk
    foreign     \* a command was ended by another command's completion

files == <<fds, file, clobbered>>
driver == <<queue, dev, cq, errors, timeouts, foreign>>
vars == <<cpu, irq, held, call, files, mounts, driver, calls>>

\* `at` is the next thing the call does, `io` where it is in a command.
Idle == [at |-> "user", io |-> None, flags |-> {}, size |-> 0, prefix |-> None]

----------------------------------------------------------------------------
(* The block device                                                        *)

\* Queue::submit: the command is the device's.
submit(p) ==
    dev' = [dev EXCEPT !.pending = Append(@, [of |-> p, current |-> TRUE])]

(* mutant: the phase bit is kept when the head wraps *)
advance_same_phase == [queue EXCEPT !.head = (@ + 1) % QSIZE]

\* Queue::submit takes the entry at head once it has the expected phase bit
\* for this command's completion, whatever command it belongs to.
Completed == cq[queue.head].phase = queue.phase
advance == IF queue.head + 1 = QSIZE THEN [head |-> 0, phase |-> 1 - queue.phase]
           ELSE [queue EXCEPT !.head = @ + 1]

complete(p) ==
    /\ Completed
    /\ queue' = advance
    /\ foreign' = (foreign \/ cq[queue.head].of # p \/ ~cq[queue.head].current)
    /\ UNCHANGED <<dev, cq, errors, timeouts>>

\* The device ends its oldest command, with success or with an error.
device(ok) ==
    /\ dev.pending # <<>>
    /\ ok \/ errors < MaxErrors
    /\ errors' = IF ok THEN errors ELSE errors + 1
    /\ cq' = [cq EXCEPT ![dev.tail] = [phase |-> dev.phase, of |-> Head(dev.pending).of,
                                       current |-> Head(dev.pending).current, ok |-> ok]]
    /\ dev' = [pending |-> Tail(dev.pending),
               tail |-> (dev.tail + 1) % QSIZE,
               phase |-> IF dev.tail + 1 = QSIZE THEN 1 - dev.phase ELSE dev.phase]
    /\ UNCHANGED <<cpu, irq, held, call, files, mounts, queue, calls, timeouts, foreign>>

----------------------------------------------------------------------------
(* What the calls do to the file, by the stage they are in                 *)

\* The call's path routes to the volume; sync goes to every mount.
Mounted(c) == IF c.at = "sync" THEN mounts # {} ELSE c.prefix \in mounts
TheFd(p) == CHOOSE f \in fds[p] : TRUE

\* The stages that go through the VFS, and those that use the device alone.
VfsStages == {"open_size", "open_create", "open_trunc", "append_size", "write_at", "read_at",
              "remove", "sync"}
RawStages == {"mount_probe", "lsblk"}

\* The file after chunk p is written at an offset: a gap reads as zeros.
Written(p, at) ==
    [there |-> TRUE,
     data |-> [i \in 1..(IF at < Len(file.data) THEN Len(file.data) ELSE at + 1) |->
                 IF i = at + 1 THEN p ELSE IF i <= Len(file.data) THEN file.data[i] ELSE "zero"]]

\* sys_open goes on to truncate or to the descriptor.
opened(c) == IF "trunc" \in c.flags THEN [c EXCEPT !.at = "open_trunc"]
             ELSE [c EXCEPT !.at = "open_fd"]

\* A stage that failed: only O_CREAT goes on after file_size failed.
failed(p) ==
    LET c == call[p]
    IN  IF c.at = "open_size" /\ "creat" \in c.flags THEN [c EXCEPT !.at = "open_create"] ELSE Idle

\* A stage that did what it came for.
succeeded(p) ==
    LET c == call[p]
    IN  CASE c.at = "open_size" -> opened([c EXCEPT !.size = Len(file.data)])
          [] c.at = "open_create" -> opened(c)
          [] c.at = "open_trunc" -> [c EXCEPT !.at = "open_fd"]
          [] c.at = "append_size" -> [c EXCEPT !.at = "write_at", !.size = Len(file.data)]
          [] c.at = "mount_probe" -> [c EXCEPT !.at = "mount_add"]
          [] OTHER -> Idle

\* Whether the file allows it: create_file wants it absent, the rest there.
Possible(at) ==
    CASE at \in {"sync", "mount_probe", "lsblk"} -> TRUE
      [] at = "open_create" -> ~file.there
      [] OTHER -> file.there

\* The file after the stage's change.
FileAfter(p) ==
    LET c == call[p]
    IN  CASE c.at \in {"open_create", "open_trunc"} -> [there |-> TRUE, data |-> <<>>]
          [] c.at = "remove" -> [there |-> FALSE, data |-> <<>>]
          [] c.at = "write_at" -> Written(p, c.size)
          [] OTHER -> file

effect(p) ==
    LET c == call[p]
    IN  /\ file' = FileAfter(p)
        /\ clobbered' =
             (clobbered \/ (c.at = "write_at" /\ TheFd(p).append /\ c.size < Len(file.data)))

\* sys_write and sys_read move the descriptor past what they wrote or read.
move(p) ==
    LET c == call[p]
        to(n) == [fds EXCEPT ![p] = {[TheFd(p) EXCEPT !.offset = n]}]
    IN  fds' = CASE c.at = "write_at" -> to(c.size + 1)
                 [] c.at = "read_at" -> to(IF c.size < Len(file.data) THEN c.size + 1 ELSE c.size)
                 [] OTHER -> fds

----------------------------------------------------------------------------
(* System calls                                                            *)

At(p, stages) == cpu = p /\ call[p].io = None /\ call[p].at \in stages
goto(p, c) == call' = [call EXCEPT ![p] = c]

\* A system call starts, with interrupts on.
enter(p, c) ==
    /\ At(p, {"user"}) /\ calls < MaxCalls
    /\ calls' = calls + 1
    /\ goto(p, c)
    /\ UNCHANGED <<cpu, irq, held, files, mounts, driver>>

sys_open(p) ==
    \E fl \in Flags, x \in Prefixes :
        fds[p] = {} /\ enter(p, [Idle EXCEPT !.at = "open_size", !.flags = fl, !.prefix = x])
sys_write(p) == fds[p] # {} /\ enter(p, [Idle EXCEPT !.at = "write_check"])
sys_read(p) == fds[p] # {} /\ enter(p, [Idle EXCEPT !.at = "read_check"])
sys_path_mutation(p) == \E x \in Prefixes : enter(p, [Idle EXCEPT !.at = "remove", !.prefix = x])
sys_sync(p) == enter(p, [Idle EXCEPT !.at = "sync"])
sys_mount(p) == \E x \in Prefixes : enter(p, [Idle EXCEPT !.at = "mount_probe", !.prefix = x])
sys_list_block_devices(p) == enter(p, [Idle EXCEPT !.at = "lsblk"])

\* sys_close, and close_process_files when a process ends.
sys_close(p) ==
    /\ At(p, {"user"}) /\ fds[p] # {}
    /\ fds' = [fds EXCEPT ![p] = {}]
    /\ UNCHANGED <<cpu, irq, held, call, file, clobbered, mounts, driver, calls>>

\* The first section of sys_write and sys_read looks at the descriptor.
\* sys_write keeps the offset it read there.
check_fd(p) ==
    LET c == call[p]
        f == TheFd(p)
    IN  /\ At(p, {"write_check", "read_check"})
        /\ goto(p, CASE c.at = "read_check" -> [c EXCEPT !.at = "read", !.prefix = f.prefix]
                     [] c.at = "write_check" /\ ~f.writable -> Idle
                     [] OTHER -> [c EXCEPT !.at = "write", !.prefix = f.prefix, !.size = f.offset])
        /\ UNCHANGED <<cpu, irq, held, files, mounts, driver, calls>>

(* mutant: an append writes where its descriptor stood in the first section *)
SecondSection_stale(c, f) ==
    IF c.at = "read" THEN [c EXCEPT !.at = "read_at", !.size = f.offset]
    ELSE [c EXCEPT !.at = "write_at"]

\* Both then lock OPEN_FILES for the rest of the call; an append asks for
\* the size under that lock.
SecondSection(c, f) ==
    CASE c.at = "read" -> [c EXCEPT !.at = "read_at", !.size = f.offset]
      [] c.at = "write" /\ f.append -> [c EXCEPT !.at = "append_size"]
      [] OTHER -> [c EXCEPT !.at = "write_at"]

lock_files(p) ==
    /\ At(p, {"write", "read"}) /\ held["files"] = None
    /\ held' = [held EXCEPT !["files"] = p]
    /\ irq' = FALSE
    /\ goto(p, SecondSection(call[p], TheFd(p)))
    /\ UNCHANGED <<cpu, files, mounts, driver, calls>>

\* A stage ends and the call goes on as c: the queue and MOUNTS are given
\* up, OPEN_FILES too at the end of the call, and interrupts are on again
\* unless OPEN_FILES is still held.
stage_ends(p, c) ==
    /\ goto(p, [c EXCEPT !.io = None])
    /\ held' = [k \in DOMAIN held |->
                  IF held[k] = p /\ (k = "files" => c.at = "user") THEN None ELSE held[k]]
    /\ irq' = (held'["files"] # p)

\* vfs::*: MOUNTS is locked, interrupts go off; a path under no mount is
\* one of the boot archive, which has no such file and is read-only.
lock_mounts(p) ==
    /\ At(p, VfsStages) /\ held["mounts"] = None
    /\ IF Mounted(call[p])
       THEN /\ held' = [held EXCEPT !["mounts"] = p]
            /\ irq' = FALSE
            /\ goto(p, [call[p] EXCEPT !.io = "queue"])
       ELSE stage_ends(p, failed(p))
    /\ UNCHANGED <<cpu, files, mounts, driver, calls>>

\* NvmeDisk locks the queue when it is free, and spins while it is not.
lock_queue(p) ==
    /\ At(p, RawStages) \/ (cpu = p /\ call[p].io = "queue")
    /\ held["queue"] = None
    /\ held' = [held EXCEPT !["queue"] = p]
    /\ submit(p)
    /\ goto(p, [call[p] EXCEPT !.io = "wait"])
    /\ UNCHANGED <<cpu, irq, files, mounts, queue, cq, calls, errors, timeouts, foreign>>

\* The command ends, and with it the stage.  When it fails the file may
\* have changed all the same: the write went through and the flush after it
\* did not.
finish(p) ==
    LET ok == cq[queue.head].ok
        possible == Possible(call[p].at)
    IN  /\ cpu = p /\ call[p].io = "wait"
        /\ complete(p)
        /\ stage_ends(p, IF ok /\ possible THEN succeeded(p) ELSE failed(p))
        /\ \/ ok /\ possible /\ effect(p) /\ move(p)
           \/ ~(ok /\ possible) /\ UNCHANGED files
           \/ ~ok /\ possible /\ effect(p) /\ UNCHANGED fds
        /\ UNCHANGED <<cpu, mounts, calls>>

\* The command outlasts TIMEOUT_MS by the clock, which runs only with
\* interrupts on; its completion, when it comes, stays in the queue.
time_out(p) ==
    LET late(e) == IF e.of = p THEN [e EXCEPT !.current = FALSE] ELSE e
    IN  /\ cpu = p /\ irq /\ call[p].io = "wait" /\ ~Completed /\ timeouts < MaxTimeouts
        /\ timeouts' = timeouts + 1
        /\ dev' = [dev EXCEPT !.pending = [i \in DOMAIN dev.pending |-> late(dev.pending[i])]]
        /\ cq' = [i \in DOMAIN cq |-> late(cq[i])]
        /\ stage_ends(p, failed(p))
        /\ UNCHANGED <<cpu, files, mounts, queue, calls, errors, foreign>>

\* sys_open's last section enters the descriptor.
open_fd(p) ==
    LET c == call[p]
    IN  /\ At(p, {"open_fd"})
        /\ fds' = [fds EXCEPT ![p] =
              {[prefix |-> c.prefix, append |-> "append" \in c.flags, writable |-> "rdwr" \in c.flags,
                offset |-> IF "append" \in c.flags /\ "trunc" \notin c.flags THEN c.size ELSE 0]}]
        /\ goto(p, Idle)
        /\ UNCHANGED <<cpu, irq, held, file, clobbered, mounts, driver, calls>>

(* mutant: only the mount point is compared *)
Taken_prefix(x) == x \in mounts

\* mount_fat32_inner once Fat32::mount has read the volume: the check that
\* neither the point nor the volume is taken and the push are one section.
Taken(x) == mounts # {}

mount_add(p) ==
    /\ At(p, {"mount_add"})
    /\ mounts' = IF Taken(call[p].prefix) THEN mounts ELSE mounts \cup {call[p].prefix}
    /\ goto(p, Idle)
    /\ UNCHANGED <<cpu, irq, held, files, driver, calls>>

\* The timer interrupt switches to another process.
preempt(p) ==
    /\ irq /\ cpu # p
    /\ cpu' = p
    /\ UNCHANGED <<irq, held, call, files, mounts, driver, calls>>

----------------------------------------------------------------------------
Init ==
    /\ cpu \in Procs
    /\ irq = TRUE
    /\ held = [k \in {"files", "mounts", "queue"} |-> None]
    /\ call = [p \in Procs |-> Idle]
    /\ fds = [p \in Procs |-> {}]
    /\ file = [there |-> FALSE, data |-> <<>>]
    /\ mounts \in {{}} \cup {{x} : x \in Prefixes}   \* not mounted yet, or by an earlier program
    /\ queue = [head |-> 0, phase |-> 1]
    /\ dev = [pending |-> <<>>, tail |-> 0, phase |-> 1]
    /\ cq = [i \in 0..QSIZE-1 |-> [phase |-> 0, of |-> None, current |-> FALSE, ok |-> FALSE]]
    /\ calls = 0 /\ errors = 0 /\ timeouts = 0
    /\ clobbered = FALSE /\ foreign = FALSE

Begin(p) ==
    \/ sys_open(p) \/ sys_write(p) \/ sys_read(p) \/ sys_path_mutation(p) \/ sys_sync(p)
    \/ sys_mount(p) \/ sys_list_block_devices(p) \/ sys_close(p)
Step(p) ==
    \/ check_fd(p) \/ lock_files(p) \/ lock_mounts(p) \/ lock_queue(p) \/ finish(p)
    \/ open_fd(p) \/ mount_add(p)
Next ==
    \/ \E ok \in BOOLEAN : device(ok)
    \/ \E p \in Procs : Begin(p) \/ Step(p) \/ time_out(p) \/ preempt(p)

FilesSafe == Init /\ [][Next]_vars

\* The timer keeps handing the CPU to every process it may, a process that
\* has the CPU goes on, and the device ends its commands.
FilesFair ==
    /\ FilesSafe
    /\ WF_vars(device(TRUE))
    /\ \A p \in Procs : SF_vars(Step(p)) /\ SF_vars(preempt(p))

----------------------------------------------------------------------------
(* Properties                                                              *)

\* An append never lands on a chunk that is already in the file, whatever
\* the other processes write, truncate or remove meanwhile: the size it
\* appends at is still the size when it writes (sys_write holds OPEN_FILES
\* across the two VFS calls).
AppendsKept == ~clobbered

\* As long as no command has timed out, every command is ended by its own
\* completion, across the wraps of the completion queue, failed commands
\* included (Queue::submit goes by the phase bit and checks no command id).
OwnCompletion == timeouts = 0 => ~foreign

\* The volume is mounted at one place at most, however the two halves of
\* concurrent mount calls interleave: Fat32::mount runs before MOUNTS is
\* locked.
MountedOnce == Cardinality(mounts) <= 1

\* Interrupts come back on again and again: a system call takes as long as
\* it likes without stalling the timer (comment in syscall_dispatch).
TimerRuns == []<>irq
=============================================================================
