----------------------------- MODULE FilesProofs -----------------------------
(***************************************************************************)
(* The file system calls for any number of processes, mount points and     *)
(* completion queue entries: appends are kept, commands are ended by their *)
(* own completions, and the volume is mounted once.                        *)
(***************************************************************************)
EXTENDS Files, FiniteSetTheorems, SequenceTheorems, TLAPS

Stage == {"user", "open_fd", "write_check", "read_check", "write", "read", "mount_add"}
           \cup VfsStages \cup RawStages
Call == [at : Stage, io : {None, "queue", "wait"}, flags : Flags \cup {{}}, size : Nat,
         prefix : Prefixes \cup {None}]
Fd == [prefix : Prefixes \cup {None}, append : BOOLEAN, writable : BOOLEAN, offset : Nat]
Chunk == Procs \cup {"zero"}
Place == 0..(QSIZE - 1)
Bit == {0, 1}
Command == [of : Procs, current : BOOLEAN]

TypeOK ==
    /\ cpu \in Procs /\ irq \in BOOLEAN
    /\ held \in [{"files", "mounts", "queue"} -> Procs \cup {None}]
    /\ call \in [Procs -> Call]
    /\ fds \in [Procs -> SUBSET Fd]
    /\ file \in [there : BOOLEAN, data : Seq(Chunk)]
    /\ queue \in [head : Place, phase : Bit]
    /\ dev \in [pending : Seq(Command), tail : Place, phase : Bit]
    /\ cq \in [Place -> [phase : Bit, of : Procs \cup {None}, current : BOOLEAN, ok : BOOLEAN]]
    /\ timeouts \in Nat

(* The stages that use the descriptor, and those of them that run under the
   OPEN_FILES lock. *)
UsesFd == {"write_check", "read_check", "write", "read", "append_size", "write_at", "read_at"}
UnderFiles == {"append_size", "write_at", "read_at"}

(* Whoever holds OPEN_FILES has the CPU to itself, and the calls that rely on
   the lock hold it. *)
FilesLocked ==
    /\ held["files"] # None => cpu = held["files"] /\ ~irq
    /\ \A p \in Procs : call[p].at \in UnderFiles => held["files"] = p

(* A call that uses the descriptor finds one. *)
FdOpen == \A p \in Procs : call[p].at \in UsesFd => fds[p] # {}

(* An append that is about to write has the size the file has now. *)
SizeFresh ==
    \A p \in Procs : call[p].at = "write_at" /\ TheFd(p).append => call[p].size = Len(file.data)

(* The queue is locked by the process that waits for its command. *)
QueueLocked == \A p \in Procs : call[p].io = "wait" <=> held["queue"] = p

(* The entries the device has written in its current round have its phase bit,
   those it has still to write have the other one. *)
PhasesSplit ==
    \A i \in Place : cq[i].phase = IF i < dev.tail THEN dev.phase ELSE 1 - dev.phase

(* The driver looks at the entry the device writes next: no command is under
   way, or the one of the process that has the queue; or the device has ended
   that one and is a step ahead. *)
SamePlace == queue.head = dev.tail /\ queue.phase = dev.phase
StepAhead ==
    /\ advance = [head |-> dev.tail, phase |-> dev.phase]
    /\ cq[queue.head].phase = queue.phase
    /\ cq[queue.head].of = held["queue"] /\ cq[queue.head].current
InStep ==
    \/ held["queue"] = None /\ dev.pending = <<>> /\ SamePlace
    \/ /\ held["queue"] # None
       /\ dev.pending = <<[of |-> held["queue"], current |-> TRUE]>> /\ SamePlace
    \/ held["queue"] # None /\ dev.pending = <<>> /\ StepAhead

(* The volume is mounted nowhere or at one point. *)
OneMount == mounts = {} \/ \E x : mounts = {x}

FilePart == FilesLocked /\ FdOpen /\ SizeFresh /\ AppendsKept
QueuePart == QueueLocked /\ PhasesSplit /\ (timeouts = 0 => InStep /\ ~foreign)

IInv == TypeOK /\ FilePart /\ QueuePart /\ OneMount

----------------------------------------------------------------------------
(* The process on the CPU is the only one that may be under OPEN_FILES. *)
LEMMA OthersOutside ==
  ASSUME IInv, NEW p \in Procs, cpu = p
  PROVE  /\ held["files"] \in {None, p}
         /\ \A q \in Procs : q # p => call[q].at \notin UnderFiles
BY FilesAssumption, ZenonT(30) DEF IInv, TypeOK, FilePart, FilesLocked

(* An open descriptor is there, and it is one. *)
LEMMA FdThere == ASSUME TypeOK, NEW p \in Procs, fds[p] # {} PROVE TheFd(p) \in Fd
<1>1. TheFd(p) \in fds[p]
  BY Zenon DEF TheFd
<1> QED BY <1>1, Zenon DEF TypeOK

(* A step of a call that leaves locks, file and driver alone, and may change the
   descriptor. *)
LEMMA LocalOK ==
  ASSUME IInv, NEW p \in Procs, cpu = p, call[p].io = None,
         NEW c \in Call, c.io = None, c.at \notin UnderFiles, call' = [call EXCEPT ![p] = c],
         NEW S \in SUBSET Fd, fds' = [fds EXCEPT ![p] = S], c.at \in UsesFd => S # {},
         UNCHANGED <<cpu, irq, held, file, clobbered, driver>>
  PROVE  TypeOK' /\ FilePart' /\ QueuePart'
<1>1. TypeOK'
  BY Zenon DEF IInv, TypeOK, driver
<1>2. FilesLocked' /\ AppendsKept'
  BY Zenon DEF IInv, TypeOK, FilePart, FilesLocked, AppendsKept
<1>3. FdOpen'
  BY Zenon DEF IInv, TypeOK, FilePart, FdOpen
<1>4. \A q \in Procs : call'[q].at # "write_at"
  BY OthersOutside, SMTT(30) DEF IInv, TypeOK, UnderFiles
<1>5. SizeFresh'
  BY <1>4, Zenon DEF SizeFresh
<1>6. QueueLocked'
  BY ZenonT(30) DEF IInv, TypeOK, QueuePart, QueueLocked
<1>7. PhasesSplit' /\ (timeouts' = 0 => InStep' /\ ~foreign')
  BY Zenon DEF IInv, QueuePart, PhasesSplit, InStep, SamePlace, StepAhead, advance, driver
<1> QED BY <1>1, <1>2, <1>3, <1>5, <1>6, <1>7, SMTT(30) DEF FilePart, QueuePart

(* A system call that starts: sys_open to sys_list_block_devices. *)
LEMMA EnterOK ==
  ASSUME IInv, NEW p \in Procs, NEW c \in Call, enter(p, c),
         c.io = None, c.at \notin UnderFiles, c.at \in UsesFd => fds[p] # {}
  PROVE  IInv'
<1>1. /\ cpu = p /\ call[p].io = None /\ call' = [call EXCEPT ![p] = c] /\ mounts' = mounts
      /\ UNCHANGED <<cpu, irq, held, fds, file, clobbered, driver>>
  BY Zenon DEF enter, At, goto, files
<1>2. fds[p] \in SUBSET Fd /\ fds' = [fds EXCEPT ![p] = fds[p]]
  BY <1>1, Zenon DEF IInv, TypeOK
<1>3. TypeOK' /\ FilePart' /\ QueuePart'
  BY <1>1, <1>2, LocalOK, Zenon
<1> QED BY <1>1, <1>3, Zenon DEF IInv, OneMount

(* A system call begins: a call that uses a descriptor finds one open. *)
LEMMA BeginOK == ASSUME IInv, NEW p \in Procs, Begin(p) PROVE IInv'
<1>1. Idle \in Call
  BY Zenon DEF Idle, Call, Stage
<1>2. ASSUME NEW at \in Stage, at \notin UnderFiles, at \in UsesFd => fds[p] # {},
             enter(p, [Idle EXCEPT !.at = at])
      PROVE  IInv'
  <2>1. [Idle EXCEPT !.at = at] \in Call /\ [Idle EXCEPT !.at = at].io = None
        /\ [Idle EXCEPT !.at = at].at = at
    BY Zenon DEF Idle, Call
  <2> QED BY <1>2, <2>1, EnterOK, ZenonT(30)
<1>3. ASSUME NEW at \in Stage, at \notin UnderFiles, at \in UsesFd => fds[p] # {},
             NEW fl \in Flags \cup {{}}, NEW x \in Prefixes,
             enter(p, [Idle EXCEPT !.at = at, !.flags = fl, !.prefix = x])
      PROVE  IInv'
  <2> DEFINE c == [Idle EXCEPT !.at = at, !.flags = fl, !.prefix = x]
  <2>1. c \in Call /\ c.io = None /\ c.at = at
    BY Zenon DEF Idle, Call
  <2> QED BY <1>3, <2>1, EnterOK, ZenonT(30)
<1>4. ASSUME NEW at \in Stage, at \notin UnderFiles, at \in UsesFd => fds[p] # {},
             NEW x \in Prefixes, enter(p, [Idle EXCEPT !.at = at, !.prefix = x])
      PROVE  IInv'
  <2> DEFINE c == [Idle EXCEPT !.at = at, !.prefix = x]
  <2>1. c \in Call /\ c.io = None /\ c.at = at
    BY Zenon DEF Idle, Call
  <2> QED BY <1>4, <2>1, EnterOK, ZenonT(30)
<1>5. CASE sys_open(p)
  BY <1>3, <1>5, Zenon DEF sys_open, Stage, VfsStages, UnderFiles, UsesFd
<1>6. CASE sys_write(p) \/ sys_read(p)
  BY <1>2, <1>6, Zenon DEF sys_write, sys_read, Stage, UnderFiles, UsesFd
<1>7. CASE sys_path_mutation(p) \/ sys_mount(p)
  BY <1>4, <1>7, ZenonT(30) DEF sys_path_mutation, sys_mount, Stage, VfsStages, RawStages, UnderFiles, UsesFd
<1>8. CASE sys_sync(p) \/ sys_list_block_devices(p)
  BY <1>2, <1>8, Zenon DEF sys_sync, sys_list_block_devices, Stage, VfsStages, RawStages, UnderFiles, UsesFd
<1>9. CASE sys_close(p)
  <2>1. /\ cpu = p /\ call[p].io = None /\ call[p].at = "user" /\ fds' = [fds EXCEPT ![p] = {}]
        /\ UNCHANGED <<cpu, irq, held, call, file, clobbered, mounts, driver>>
    BY <1>9, Zenon DEF sys_close, At
  <2>2. call[p] \in Call /\ call' = [call EXCEPT ![p] = call[p]]
    BY <2>1, Zenon DEF IInv, TypeOK
  <2>3. {} \in SUBSET Fd /\ call[p].at \notin UnderFiles /\ call[p].at \notin UsesFd
    BY <2>1, Zenon DEF UnderFiles, UsesFd
  <2>4. TypeOK' /\ FilePart' /\ QueuePart'
    BY <2>1, <2>2, <2>3, LocalOK, ZenonT(30)
  <2> QED BY <2>1, <2>4, Zenon DEF IInv, OneMount
<1> QED BY <1>5, <1>6, <1>7, <1>8, <1>9, Zenon DEF Begin

(* The first section of sys_write and sys_read: the descriptor it looks at is open. *)
LEMMA CheckFdOK == ASSUME IInv, NEW p \in Procs, check_fd(p) PROVE IInv'
<1>1. /\ cpu = p /\ call[p].io = None /\ call[p].at \in {"write_check", "read_check"}
      /\ UNCHANGED <<cpu, irq, held, fds, file, clobbered, mounts, driver>>
  BY Zenon DEF check_fd, At, files
<1>2. call[p] \in Call /\ fds[p] # {}
  BY <1>1, Zenon DEF IInv, TypeOK, FilePart, FdOpen, UsesFd
<1>3. TheFd(p) \in Fd
  BY <1>2, FdThere, Zenon DEF IInv
<1>4. PICK c \in Call : /\ c.io = None /\ c.at \in {"user", "write", "read"}
                        /\ call' = [call EXCEPT ![p] = c]
  <2>1. Idle \in Call /\ Idle.io = None /\ Idle.at = "user"
    BY Zenon DEF Idle, Call, Stage
  <2>2. /\ [call[p] EXCEPT !.at = "read", !.prefix = TheFd(p).prefix] \in Call
        /\ [call[p] EXCEPT !.at = "write", !.prefix = TheFd(p).prefix, !.size = TheFd(p).offset] \in Call
    BY <1>2, <1>3, Zenon DEF Call, Fd, Stage
  <2>3. \/ call' = [call EXCEPT ![p] = Idle]
        \/ call' = [call EXCEPT ![p] = [call[p] EXCEPT !.at = "read", !.prefix = TheFd(p).prefix]]
        \/ call' = [call EXCEPT ![p] = [call[p] EXCEPT !.at = "write", !.prefix = TheFd(p).prefix,
                                                       !.size = TheFd(p).offset]]
    BY <1>1, Zenon DEF check_fd, goto
  <2> QED BY <1>1, <1>2, <2>1, <2>2, <2>3, ZenonT(30) DEF Call
<1>5. fds[p] \in SUBSET Fd /\ fds' = [fds EXCEPT ![p] = fds[p]]
  BY <1>1, Zenon DEF IInv, TypeOK
<1>6. TypeOK' /\ FilePart' /\ QueuePart'
  BY <1>1, <1>2, <1>4, <1>5, LocalOK, ZenonT(30) DEF UnderFiles
<1> QED BY <1>1, <1>6, Zenon DEF IInv, OneMount

(* The last section of sys_open enters a descriptor of the process itself. *)
LEMMA OpenFdOK == ASSUME IInv, NEW p \in Procs, open_fd(p) PROVE IInv'
<1>1. /\ cpu = p /\ call[p].io = None /\ call' = [call EXCEPT ![p] = Idle]
      /\ UNCHANGED <<cpu, irq, held, file, clobbered, mounts, driver>>
  BY Zenon DEF open_fd, At, goto
<1>2. PICK S \in SUBSET Fd : fds' = [fds EXCEPT ![p] = S]
  <2>1. call[p] \in Call
    BY Zenon DEF IInv, TypeOK
  <2> DEFINE f == [prefix |-> call[p].prefix, append |-> "append" \in call[p].flags,
                   writable |-> "rdwr" \in call[p].flags,
                   offset |-> IF "append" \in call[p].flags /\ "trunc" \notin call[p].flags
                              THEN call[p].size ELSE 0]
  <2>2. f \in Fd
    BY <2>1, SMTT(30) DEF Fd, Call
  <2>3. fds' = [fds EXCEPT ![p] = {f}]
    BY Zenon DEF open_fd
  <2> QED BY <2>2, <2>3, Zenon
<1>3. Idle \in Call /\ Idle.io = None /\ Idle.at = "user"
  BY Zenon DEF Idle, Call, Stage
<1>4. TypeOK' /\ FilePart' /\ QueuePart'
  BY <1>1, <1>2, <1>3, LocalOK, Zenon DEF UnderFiles, UsesFd
<1> QED BY <1>1, <1>4, Zenon DEF IInv, OneMount

(* The check that nothing is mounted and the push are one step. *)
LEMMA MountAddOK == ASSUME IInv, NEW p \in Procs, mount_add(p) PROVE IInv'
<1>1. /\ cpu = p /\ call[p].io = None /\ call' = [call EXCEPT ![p] = Idle]
      /\ UNCHANGED <<cpu, irq, held, fds, file, clobbered, driver>>
  BY Zenon DEF mount_add, At, goto, files
<1>2. fds[p] \in SUBSET Fd /\ fds' = [fds EXCEPT ![p] = fds[p]]
  BY <1>1, Zenon DEF IInv, TypeOK
<1>3. Idle \in Call /\ Idle.io = None /\ Idle.at = "user"
  BY Zenon DEF Idle, Call, Stage
<1>4. TypeOK' /\ FilePart' /\ QueuePart'
  BY <1>1, <1>2, <1>3, LocalOK, Zenon DEF UnderFiles, UsesFd
<1>5. OneMount'
  BY Zenon DEF IInv, mount_add, Taken, OneMount
<1> QED BY <1>4, <1>5, Zenon DEF IInv

(* lock_files: whoever runs takes OPEN_FILES and is alone from now on. *)
LEMMA LockFilesOK == ASSUME IInv, NEW p \in Procs, lock_files(p) PROVE IInv'
<1>1. /\ cpu = p /\ call[p].io = None /\ call[p].at \in {"write", "read"}
      /\ held' = [held EXCEPT !["files"] = p] /\ irq' = FALSE
      /\ call' = [call EXCEPT ![p] = SecondSection(call[p], TheFd(p))]
      /\ UNCHANGED <<cpu, fds, file, clobbered, mounts, driver>>
  BY Zenon DEF lock_files, At, goto, files
<1>2. call[p] \in Call /\ fds[p] # {}
  BY <1>1, Zenon DEF IInv, TypeOK, FilePart, FdOpen, UsesFd
<1>3. TheFd(p) \in Fd
  BY <1>2, FdThere, Zenon DEF IInv
<1>4. PICK c \in Call : /\ c.io = None /\ c.at \in UnderFiles
                        /\ c.at = "write_at" => ~TheFd(p).append
                        /\ call' = [call EXCEPT ![p] = c]
  <2>1. SecondSection(call[p], TheFd(p)) \in
          {[call[p] EXCEPT !.at = "read_at", !.size = TheFd(p).offset],
           [call[p] EXCEPT !.at = "append_size"], [call[p] EXCEPT !.at = "write_at"]}
    BY Zenon DEF SecondSection
  <2>2. SecondSection(call[p], TheFd(p)) = [call[p] EXCEPT !.at = "write_at"] =>
          ~TheFd(p).append
    BY <1>1, <1>2, Zenon DEF SecondSection, Call
  <2>3. /\ [call[p] EXCEPT !.at = "read_at", !.size = TheFd(p).offset] \in Call
        /\ [call[p] EXCEPT !.at = "append_size"] \in Call
        /\ [call[p] EXCEPT !.at = "write_at"] \in Call
    BY <1>2, <1>3, ZenonT(30) DEF Call, Fd, Stage, VfsStages
  <2> QED BY <1>1, <1>2, <2>1, <2>2, <2>3, ZenonT(30) DEF Call, UnderFiles
<1>5. TypeOK'
  <2>1. irq' \in BOOLEAN
    BY <1>1, Zenon
  <2> QED BY <1>1, <1>4, <2>1, SMTT(30) DEF IInv, TypeOK, driver
<1>6. FilesLocked' /\ AppendsKept'
  BY <1>1, <1>4, OthersOutside, ZenonT(30) DEF IInv, TypeOK, FilePart, FilesLocked, AppendsKept
<1>7. FdOpen'
  BY <1>1, <1>2, Zenon DEF IInv, TypeOK, FilePart, FdOpen
<1>8. SizeFresh'
  <2>1. TheFd(p)' = TheFd(p)
    BY <1>1, Zenon DEF TheFd
  <2> QED BY <1>1, <1>4, <2>1, OthersOutside, SMTT(30) DEF IInv, TypeOK, SizeFresh, UnderFiles
<1>9. QueuePart'
  <2>1. held'["queue"] = held["queue"] /\ \A q \in Procs : call'[q].io = call[q].io
    BY <1>1, <1>4, Zenon DEF IInv, TypeOK
  <2> QED BY <1>1, <2>1, ZenonT(30) DEF IInv, QueuePart, QueueLocked, PhasesSplit, InStep, SamePlace,
                            StepAhead, advance, driver
<1> QED BY <1>1, <1>5, <1>6, <1>7, <1>8, <1>9, Zenon DEF IInv, FilePart, OneMount

----------------------------------------------------------------------------
(* Where a call goes on after a stage: it comes under OPEN_FILES only from
   append_size, where the lock is held, with the size the file has. *)
LEMMA FailedStage ==
  ASSUME TypeOK, NEW p \in Procs
  PROVE  failed(p) \in Call /\ failed(p).at \in {"user", "open_create"}
<1>1. call[p] \in Call
  BY Zenon DEF TypeOK
<1> QED BY <1>1, Zenon DEF failed, Call, Idle, Stage, VfsStages

(* After a stage that succeeded, only the size lookup of an append goes on under
   the table's lock, and it carries the size the file has. *)
LEMMA SucceededStage ==
  ASSUME TypeOK, NEW p \in Procs
  PROVE  /\ succeeded(p) \in Call
         /\ succeeded(p).at \in UsesFd =>
              /\ call[p].at = "append_size" /\ succeeded(p).at = "write_at"
              /\ succeeded(p).size = Len(file.data)
<1>1. call[p] \in Call /\ Len(file.data) \in Nat
  BY SMTT(30) DEF TypeOK
<1>2. Idle \in Call /\ Idle.at \notin UsesFd
  BY Zenon DEF Idle, Call, Stage, UsesFd
<1>3. ASSUME NEW c \in Call PROVE opened(c) \in Call /\ opened(c).at \notin UsesFd
  BY <1>3, Zenon DEF opened, Call, Stage, VfsStages, UsesFd
<1>4. CASE call[p].at = "open_size"
  <2>1. [call[p] EXCEPT !.size = Len(file.data)] \in Call
    BY <1>1, Zenon DEF Call
  <2>2. succeeded(p) = opened([call[p] EXCEPT !.size = Len(file.data)])
    BY <1>4, Zenon DEF succeeded
  <2> QED BY <1>3, <2>1, <2>2, Zenon
<1>5. CASE call[p].at = "open_create"
  <2>1. succeeded(p) = opened(call[p])
    BY <1>5, Zenon DEF succeeded
  <2> QED BY <1>1, <1>3, <2>1, Zenon
<1>6. CASE call[p].at \in {"open_trunc", "append_size", "mount_probe"}
  BY <1>1, <1>6, ZenonT(30) DEF succeeded, Call, Stage, VfsStages, UsesFd
<1>7. CASE call[p].at \notin {"open_size", "open_create", "open_trunc", "append_size", "mount_probe"}
  <2>1. succeeded(p) = Idle
    BY <1>7, Zenon DEF succeeded
  <2> QED BY <1>2, <2>1, Zenon
<1> QED BY <1>4, <1>5, <1>6, <1>7, Zenon

(* The end of a stage: the queue is given up, OPEN_FILES only at the end of the
   call. *)
LEMMA StageEndsOK ==
  ASSUME IInv, NEW p \in Procs, cpu = p, cpu' = cpu, NEW c \in Call, stage_ends(p, c),
         c.at \in UnderFiles => held["files"] = p
  PROVE  /\ irq' \in BOOLEAN
         /\ held' \in [{"files", "mounts", "queue"} -> Procs \cup {None}]
         /\ call' \in [Procs -> Call] /\ call'[p].at = c.at /\ call'[p].size = c.size
         /\ \A q \in Procs : q # p => call'[q] = call[q]
         /\ FilesLocked' /\ QueueLocked'
         /\ held'["queue"] = IF held["queue"] = p THEN None ELSE held["queue"]
<1>1. /\ call' = [call EXCEPT ![p] = [c EXCEPT !.io = None]]
      /\ held' = [k \in DOMAIN held |->
                    IF held[k] = p /\ (k = "files" => c.at = "user") THEN None ELSE held[k]]
      /\ irq' = (held'["files"] # p)
  BY Zenon DEF stage_ends, goto
<1>2. [c EXCEPT !.io = None] \in Call /\ [c EXCEPT !.io = None].at = c.at
      /\ [c EXCEPT !.io = None].size = c.size /\ [c EXCEPT !.io = None].io = None
  BY Zenon DEF Call
<1>3. held \in [{"files", "mounts", "queue"} -> Procs \cup {None}] /\ call \in [Procs -> Call]
  BY Zenon DEF IInv, TypeOK
<1>4. /\ held' \in [{"files", "mounts", "queue"} -> Procs \cup {None}]
      /\ held'["queue"] = IF held["queue"] = p THEN None ELSE held["queue"]
      /\ held'["files"] = IF held["files"] = p /\ c.at = "user" THEN None ELSE held["files"]
  BY <1>1, <1>3, Zenon
<1>5. /\ call' \in [Procs -> Call] /\ call'[p].at = c.at /\ call'[p].size = c.size
      /\ call'[p].io = None /\ \A q \in Procs : q # p => call'[q] = call[q]
  BY <1>1, <1>2, <1>3, ZenonT(30)
<1>6. FilesLocked'
  BY <1>1, <1>4, <1>5, OthersOutside, ZenonT(30) DEF FilesLocked, UnderFiles
<1>7. QueueLocked'
  BY <1>4, <1>5, FilesAssumption, SMTT(30) DEF IInv, QueuePart, QueueLocked, None
<1> QED BY <1>1, <1>4, <1>5, <1>6, <1>7, ZenonT(30)

(* The driver's state while nobody takes or gives up the queue. *)
LEMMA QueueKept ==
  ASSUME IInv, held'["queue"] = held["queue"], UNCHANGED driver
  PROVE  PhasesSplit' /\ (timeouts' = 0 => InStep' /\ ~foreign')
BY Zenon DEF IInv, QueuePart, PhasesSplit, InStep, SamePlace, StepAhead, advance, driver

(* vfs::*: with MOUNTS free the call takes it, or fails for want of a mount. *)
LEMMA LockMountsOK == ASSUME IInv, NEW p \in Procs, lock_mounts(p) PROVE IInv'
<1>1. /\ cpu = p /\ call[p].io = None /\ call[p].at \in VfsStages
      /\ UNCHANGED <<cpu, fds, file, clobbered, mounts, driver>>
  BY Zenon DEF lock_mounts, At, files
<1>2. call[p] \in Call /\ held["queue"] # p
  BY <1>1, Zenon DEF IInv, TypeOK, QueuePart, QueueLocked, None
<1>3. CASE /\ held' = [held EXCEPT !["mounts"] = p] /\ irq' = FALSE
           /\ call' = [call EXCEPT ![p] = [call[p] EXCEPT !.io = "queue"]]
  <2>1. /\ held' \in [{"files", "mounts", "queue"} -> Procs \cup {None}]
        /\ held'["queue"] = held["queue"] /\ held'["files"] = held["files"]
    BY <1>3, Zenon DEF IInv, TypeOK
  <2>2. /\ call' \in [Procs -> Call] /\ call'[p].io = "queue"
        /\ \A q \in Procs : call'[q].at = call[q].at /\ call'[q].size = call[q].size
        /\ \A q \in Procs : q # p => call'[q] = call[q]
    <3>1. [call[p] EXCEPT !.io = "queue"] \in Call
      BY <1>2, Zenon DEF Call
    <3> QED BY <1>2, <1>3, <3>1, ZenonT(30) DEF IInv, TypeOK, Call
  <2>3. irq' \in BOOLEAN
    BY <1>3, Zenon
  <2>4. TypeOK'
    BY <1>1, <2>1, <2>2, <2>3, Zenon DEF IInv, TypeOK, driver
  <2>5. FilesLocked' /\ FdOpen' /\ AppendsKept'
    BY <1>1, <1>3, <2>1, <2>2, OthersOutside, Zenon
   DEF IInv, FilePart, FilesLocked, FdOpen, AppendsKept
  <2>6. SizeFresh'
    <3>1. \A q \in Procs : TheFd(q)' = TheFd(q)
      BY <1>1, Zenon DEF TheFd
    <3> QED BY <1>1, <2>2, <3>1, Zenon DEF IInv, FilePart, SizeFresh
  <2>7. QueueLocked'
    BY <1>1, <1>2, <2>1, <2>2, ZenonT(30) DEF IInv, QueuePart, QueueLocked
  <2> QED BY <1>1, <2>1, <2>4, <2>5, <2>6, <2>7, QueueKept, Zenon DEF IInv, FilePart, QueuePart, OneMount
<1>4. CASE stage_ends(p, failed(p))
  <2>1. failed(p) \in Call /\ failed(p).at \in {"user", "open_create"}
    BY FailedStage, Zenon DEF IInv
  <2>2. failed(p).at \notin UnderFiles /\ failed(p).at \notin UsesFd
    BY <2>1, Zenon DEF UnderFiles, UsesFd
  <2>3. /\ irq' \in BOOLEAN
        /\ held' \in [{"files", "mounts", "queue"} -> Procs \cup {None}]
        /\ call' \in [Procs -> Call] /\ call'[p].at = failed(p).at
        /\ \A q \in Procs : q # p => call'[q] = call[q]
        /\ FilesLocked' /\ QueueLocked' /\ held'["queue"] = held["queue"]
    BY <1>1, <1>2, <1>4, <2>1, <2>2, StageEndsOK, Zenon
  <2>4. TypeOK'
    BY <1>1, <2>3, Zenon DEF IInv, TypeOK, driver
  <2>5. FdOpen' /\ AppendsKept'
    BY <1>1, <2>2, <2>3, ZenonT(30) DEF IInv, FilePart, FdOpen, AppendsKept
  <2>6. \A q \in Procs : call'[q].at # "write_at"
    BY <1>1, <2>2, <2>3, OthersOutside, ZenonT(30) DEF UnderFiles
  <2> QED BY <1>1, <2>3, <2>4, <2>5, <2>6, QueueKept, Zenon
   DEF IInv, FilePart, QueuePart, OneMount, SizeFresh
<1> QED BY <1>3, <1>4, Zenon DEF lock_mounts, goto

(* The queue is taken when it is free: the new command is the only one under way. *)
LEMMA LockQueueOK == ASSUME IInv, NEW p \in Procs, lock_queue(p) PROVE IInv'
<1>1. /\ cpu = p /\ held["queue"] = None /\ held' = [held EXCEPT !["queue"] = p]
      /\ dev' = [dev EXCEPT !.pending = Append(dev.pending, [of |-> p, current |-> TRUE])]
      /\ call' = [call EXCEPT ![p] = [call[p] EXCEPT !.io = "wait"]]
      /\ UNCHANGED <<cpu, irq, fds, file, clobbered, mounts, queue, cq, timeouts, foreign>>
  BY Zenon DEF lock_queue, At, submit, goto, files
<1>2. /\ held' \in [{"files", "mounts", "queue"} -> Procs \cup {None}]
      /\ held'["queue"] = p /\ held'["files"] = held["files"]
  BY <1>1, Zenon DEF IInv, TypeOK
<1>3. /\ call' \in [Procs -> Call] /\ call'[p].io = "wait"
      /\ \A q \in Procs : call'[q].at = call[q].at /\ call'[q].size = call[q].size
      /\ \A q \in Procs : q # p => call'[q] = call[q]
  <2>1. call[p] \in Call
    BY Zenon DEF IInv, TypeOK
  <2>2. [call[p] EXCEPT !.io = "wait"] \in Call
    BY <2>1, Zenon DEF Call
  <2> QED BY <1>1, <2>1, <2>2, ZenonT(30) DEF IInv, TypeOK, Call
<1>4. /\ dev' \in [pending : Seq(Command), tail : Place, phase : Bit]
      /\ dev'.tail = dev.tail /\ dev'.phase = dev.phase
      /\ dev'.pending = Append(dev.pending, [of |-> p, current |-> TRUE])
  <2>1. [of |-> p, current |-> TRUE] \in Command
    BY Zenon DEF Command
  <2>2. dev \in [pending : Seq(Command), tail : Place, phase : Bit]
    BY Zenon DEF IInv, TypeOK
  <2>3. Append(dev.pending, [of |-> p, current |-> TRUE]) \in Seq(Command)
    BY <2>1, <2>2, SMTT(30)
  <2> QED BY <1>1, <2>2, <2>3, Zenon
<1>5. TypeOK'
  BY <1>1, <1>2, <1>3, <1>4, ZenonT(30) DEF IInv, TypeOK
<1>6. FilesLocked' /\ FdOpen' /\ AppendsKept'
  BY <1>1, <1>2, <1>3, ZenonT(30) DEF IInv, FilePart, FilesLocked, FdOpen, AppendsKept
<1>7. SizeFresh'
  <2>1. \A q \in Procs : TheFd(q)' = TheFd(q)
    BY <1>1, Zenon DEF TheFd
  <2> QED BY <1>1, <1>3, <2>1, SMTT(30) DEF IInv, FilePart, SizeFresh
<1>8. QueueLocked'
  BY <1>1, <1>2, <1>3, FilesAssumption, Zenon DEF IInv, QueuePart, QueueLocked
<1>9. PhasesSplit'
  BY <1>1, <1>4, Zenon DEF IInv, QueuePart, PhasesSplit
<1>10. timeouts' = 0 => InStep' /\ ~foreign'
  <2> SUFFICES ASSUME timeouts = 0 PROVE InStep' /\ ~foreign'
    BY <1>1, Zenon
  <2>1. dev.pending = <<>> /\ SamePlace /\ ~foreign
    BY <1>1, Zenon DEF IInv, QueuePart, InStep
  <2>2. dev'.pending = <<[of |-> p, current |-> TRUE]>>
    BY <1>4, <2>1, SMTT(30)
  <2> QED BY <1>1, <1>2, <1>4, <2>1, <2>2, FilesAssumption, Zenon DEF InStep, SamePlace
<1> QED BY <1>1, <1>5, <1>6, <1>7, <1>8, <1>9, <1>10, Zenon DEF IInv, FilePart, QueuePart, OneMount

(* The timer hands the CPU over only with interrupts on, when OPEN_FILES is free. *)
LEMMA PreemptOK == ASSUME IInv, NEW p \in Procs, preempt(p) PROVE IInv'
<1>1. irq /\ cpu' = p /\ UNCHANGED <<irq, held, call, fds, file, clobbered, mounts, driver>>
  BY Zenon DEF preempt, files
<1>2. TypeOK'
  BY <1>1, Zenon DEF IInv, TypeOK, driver
<1>3. FilesLocked' /\ FdOpen' /\ AppendsKept'
  BY <1>1, Zenon DEF IInv, FilePart, FilesLocked, FdOpen, AppendsKept
<1>4. SizeFresh'
  <2>1. \A q \in Procs : TheFd(q)' = TheFd(q)
    BY <1>1, Zenon DEF TheFd
  <2> QED BY <1>1, <2>1, Zenon DEF IInv, FilePart, SizeFresh
<1>5. QueueLocked'
  BY <1>1, Zenon DEF IInv, QueuePart, QueueLocked
<1> QED BY <1>1, <1>2, <1>3, <1>4, <1>5, QueueKept, Zenon DEF IInv, FilePart, QueuePart, OneMount

(* The file and the descriptors after a stage. *)
LEMMA EffectType ==
  ASSUME TypeOK, NEW p \in Procs
  PROVE  FileAfter(p) \in [there : BOOLEAN, data : Seq(Chunk)]
<1>1. /\ call[p] \in Call /\ file \in [there : BOOLEAN, data : Seq(Chunk)]
      /\ Len(file.data) \in Nat /\ \A i \in 1..Len(file.data) : file.data[i] \in Chunk
  BY SMTT(30) DEF TypeOK
<1>2. <<>> \in Seq(Chunk)
  BY SMTT(30)
<1>3. ASSUME NEW n \in Nat PROVE Written(p, n) \in [there : BOOLEAN, data : Seq(Chunk)]
  <2> DEFINE m == IF n < Len(file.data) THEN Len(file.data) ELSE n + 1
             d == [i \in 1..m |->
                     IF i = n + 1 THEN p ELSE IF i <= Len(file.data) THEN file.data[i] ELSE "zero"]
  <2>1. m \in Nat
    BY <1>1, SMTT(30)
  <2>2. \A i \in 1..m : d[i] \in Chunk
    BY <1>1, <2>1, SMTT(30) DEF Chunk
  <2>3. d \in [1..m -> Chunk]
    BY <2>2, Zenon
  <2>4. d \in Seq(Chunk)
    BY <2>1, <2>3, SeqDef, SMTT(30)
  <2>5. Written(p, n) = [there |-> TRUE, data |-> d]
    BY Zenon DEF Written
  <2> QED BY <2>4, <2>5, SMTT(30)
<1>4. call[p].size \in Nat
  BY <1>1, Zenon DEF Call
<1>5. CASE call[p].at \in {"open_create", "open_trunc", "remove"}
  BY <1>2, <1>5, Zenon DEF FileAfter
<1>6. CASE call[p].at = "write_at"
  <2>1. FileAfter(p) = Written(p, call[p].size)
    BY <1>6, Zenon DEF FileAfter
  <2> QED BY <1>3, <1>4, <2>1, Zenon
<1>7. CASE call[p].at \notin {"open_create", "open_trunc", "remove", "write_at"}
  <2>1. FileAfter(p) = file
    BY <1>7, Zenon DEF FileAfter
  <2> QED BY <1>1, <2>1, Zenon
<1> QED BY <1>5, <1>6, <1>7, ZenonT(30)

(* Moving the offset touches the caller's own descriptor, and never closes it. *)
LEMMA MoveType ==
  ASSUME IInv, NEW p \in Procs, move(p)
  PROVE  /\ fds' \in [Procs -> SUBSET Fd] /\ \A q \in Procs : q # p => fds'[q] = fds[q]
         /\ fds[p] # {} => fds'[p] # {}
         /\ call[p].at \notin {"write_at", "read_at"} => fds' = fds
<1>1. call[p] \in Call /\ Len(file.data) \in Nat /\ fds \in [Procs -> SUBSET Fd]
  BY SMTT(30) DEF IInv, TypeOK
<1>2. CASE call[p].at \in {"write_at", "read_at"}
  <2>1. TheFd(p) \in Fd
    BY <1>2, FdThere, Zenon DEF IInv, FilePart, FdOpen, UsesFd
  <2>2. PICK n \in Nat : fds' = [fds EXCEPT ![p] = {[TheFd(p) EXCEPT !.offset = n]}]
    <3>1. call[p].size \in Nat /\ call[p].size + 1 \in Nat
      BY <1>1, SMTT(30) DEF Call
    <3>2. CASE call[p].at = "write_at"
      BY <3>1, <3>2, Zenon DEF move
    <3>3. CASE call[p].at = "read_at"
      BY <3>1, <3>3, Zenon DEF move
    <3> QED BY <1>2, <3>2, <3>3, Zenon
  <2>3. [TheFd(p) EXCEPT !.offset = n] \in Fd
    BY <2>1, Zenon DEF Fd
  <2> QED BY <1>1, <1>2, <2>2, <2>3, Zenon
<1>3. CASE call[p].at \notin {"write_at", "read_at"}
  <2>1. fds' = fds
    BY <1>3, Zenon DEF move
  <2> QED BY <1>1, <2>1, Zenon
<1> QED BY <1>2, <1>3, Zenon

(* The entry the driver takes is the completion of its own command, and an
   append writes at the end of the file. *)
LEMMA FinishOK == ASSUME IInv, NEW p \in Procs, finish(p) PROVE IInv'
<1> DEFINE c == IF cq[queue.head].ok /\ Possible(call[p].at) THEN succeeded(p) ELSE failed(p)
<1>1. /\ cpu = p /\ call[p].io = "wait" /\ complete(p) /\ stage_ends(p, c)
      /\ UNCHANGED <<cpu, mounts>>
  BY Zenon DEF finish
<1>2. held["queue"] = p
  BY <1>1, Zenon DEF IInv, QueuePart, QueueLocked
<1>3. \/ effect(p) /\ move(p)
      \/ UNCHANGED files
      \/ effect(p) /\ UNCHANGED fds
  BY Zenon DEF finish
<1>4. c \in Call /\ (c.at \in UsesFd => /\ call[p].at = "append_size" /\ c.at = "write_at"
                                        /\ c.size = Len(file.data))
  <2>1. succeeded(p) \in Call /\ (succeeded(p).at \in UsesFd =>
            /\ call[p].at = "append_size" /\ succeeded(p).at = "write_at"
            /\ succeeded(p).size = Len(file.data))
    BY SucceededStage, Zenon DEF IInv
  <2>2. failed(p) \in Call /\ failed(p).at \notin UsesFd
    BY FailedStage, Zenon DEF IInv, UsesFd
  <2> QED BY <2>1, <2>2, Zenon
<1>5. c.at \in UnderFiles => held["files"] = p
  BY <1>4, Zenon DEF IInv, FilePart, FilesLocked, UnderFiles, UsesFd
<1> HIDE DEF c
<1>6. /\ irq' \in BOOLEAN
      /\ held' \in [{"files", "mounts", "queue"} -> Procs \cup {None}]
      /\ call' \in [Procs -> Call] /\ call'[p].at = c.at /\ call'[p].size = c.size
      /\ \A q \in Procs : q # p => call'[q] = call[q]
      /\ FilesLocked' /\ QueueLocked' /\ held'["queue"] = None
  BY <1>1, <1>2, <1>4, <1>5, StageEndsOK, Zenon
<1>7. /\ fds' \in [Procs -> SUBSET Fd] /\ \A q \in Procs : q # p => fds'[q] = fds[q]
      /\ fds[p] # {} => fds'[p] # {}
      /\ call[p].at = "append_size" => fds' = fds
  BY <1>3, MoveType, Zenon DEF IInv, TypeOK, files
<1>8. file' \in [there : BOOLEAN, data : Seq(Chunk)] /\ (call[p].at = "append_size" => file' = file)
  <2>1. FileAfter(p) \in [there : BOOLEAN, data : Seq(Chunk)]
    BY EffectType, Zenon DEF IInv
  <2>2. call[p].at = "append_size" => FileAfter(p) = file
    BY Zenon DEF FileAfter
  <2>3. file' = FileAfter(p) \/ file' = file
    BY <1>3, Zenon DEF effect, files
  <2> QED BY <2>1, <2>2, <2>3, Zenon DEF IInv, TypeOK
<1>9. /\ queue' = advance /\ dev' = dev /\ cq' = cq /\ timeouts' = timeouts
      /\ cq[queue.head].phase = queue.phase
      /\ foreign' = (foreign \/ cq[queue.head].of # p \/ ~cq[queue.head].current)
  BY <1>1, Zenon DEF complete, Completed
<1>10. queue' \in [head : Place, phase : Bit]
  <2>1. queue.head \in Place /\ queue.phase \in Bit /\ queue \in [head : Place, phase : Bit]
    BY Zenon DEF IInv, TypeOK
  <2>2. CASE queue.head + 1 = QSIZE
    BY <1>9, <2>1, <2>2, FilesAssumption, SMTT(30) DEF advance, Place, Bit
  <2>3. CASE queue.head + 1 # QSIZE
    <3>1. queue.head + 1 \in Place
      BY <2>1, <2>3, FilesAssumption, SMTT(30) DEF Place
    <3> QED BY <1>9, <2>1, <2>3, <3>1, Zenon DEF advance
  <2> QED BY <2>2, <2>3, Zenon
<1>11. TypeOK'
  BY <1>1, <1>6, <1>7, <1>8, <1>9, <1>10, Zenon DEF IInv, TypeOK
<1>12. FdOpen'
  <2>1. c.at \in UsesFd => fds[p] # {}
    BY <1>4, Zenon DEF IInv, FilePart, FdOpen, UsesFd
  <2> QED BY <1>6, <1>7, <2>1, ZenonT(30) DEF IInv, FilePart, FdOpen
<1>13. SizeFresh'
  <2>1. \A q \in Procs : q # p => call'[q].at # "write_at"
    BY <1>1, <1>6, OthersOutside, ZenonT(30) DEF UnderFiles
  <2>2. call'[p].at = "write_at" => call'[p].size = Len(file'.data)
    BY <1>4, <1>6, <1>8, Zenon DEF UsesFd
  <2> QED BY <2>1, <2>2, Zenon DEF SizeFresh
<1>14. AppendsKept'
  <2>1. ~(call[p].at = "write_at" /\ TheFd(p).append /\ call[p].size < Len(file.data))
    BY SMTT(30) DEF IInv, TypeOK, FilePart, SizeFresh
  <2> QED BY <1>3, <2>1, Zenon DEF IInv, FilePart, AppendsKept, effect, files
<1>15. PhasesSplit'
  BY <1>9, Zenon DEF IInv, QueuePart, PhasesSplit
<1>16. timeouts' = 0 => InStep' /\ ~foreign'
  <2> SUFFICES ASSUME timeouts = 0 PROVE InStep' /\ ~foreign'
    BY <1>9, Zenon
  <2>1. InStep /\ ~foreign /\ p # None
    BY FilesAssumption, Zenon DEF IInv, QueuePart
  <2>2. ~SamePlace
    <3>1. dev.tail \in Place /\ dev.tail \in Int /\ dev.phase \in Bit
      BY FilesAssumption, SMTT(30) DEF IInv, TypeOK, Place
    <3>2. cq[dev.tail].phase = 1 - dev.phase
      BY <3>1, SMTT(30) DEF IInv, QueuePart, PhasesSplit
    <3> QED BY <1>9, <3>1, <3>2, SMTT(30) DEF SamePlace, Bit
  <2>3. dev.pending = <<>> /\ StepAhead
    BY <1>2, <2>1, <2>2, Zenon DEF InStep
  <2>4. ~foreign'
    BY <1>2, <1>9, <2>1, <2>3, Zenon DEF StepAhead
  <2> QED BY <1>6, <1>9, <2>3, <2>4, Zenon DEF InStep, SamePlace, StepAhead
<1> QED BY <1>1, <1>6, <1>11, <1>12, <1>13, <1>14, <1>15, <1>16, Zenon DEF IInv, FilePart, QueuePart, OneMount

(* A command that times out is left in the device's hands. *)
LEMMA TimeOutOK == ASSUME IInv, NEW p \in Procs, time_out(p) PROVE IInv'
<1> DEFINE late(e) == IF e.of = p THEN [e EXCEPT !.current = FALSE] ELSE e
<1>1. /\ cpu = p /\ timeouts' = timeouts + 1 /\ stage_ends(p, failed(p))
      /\ dev' = [dev EXCEPT !.pending = [i \in DOMAIN dev.pending |-> late(dev.pending[i])]]
      /\ cq' = [i \in DOMAIN cq |-> late(cq[i])]
      /\ UNCHANGED <<cpu, fds, file, clobbered, mounts, queue, foreign>>
  BY Zenon DEF time_out, files
<1>2. failed(p) \in Call /\ failed(p).at \in {"user", "open_create"}
  BY FailedStage, Zenon DEF IInv
<1>3. failed(p).at \notin UnderFiles /\ failed(p).at \notin UsesFd
  BY <1>2, Zenon DEF UnderFiles, UsesFd
<1>4. /\ irq' \in BOOLEAN
      /\ held' \in [{"files", "mounts", "queue"} -> Procs \cup {None}]
      /\ call' \in [Procs -> Call] /\ call'[p].at = failed(p).at
      /\ \A q \in Procs : q # p => call'[q] = call[q]
      /\ FilesLocked' /\ QueueLocked'
  BY <1>1, <1>2, <1>3, StageEndsOK, ZenonT(30)
<1>5. /\ dev' \in [pending : Seq(Command), tail : Place, phase : Bit]
      /\ dev'.tail = dev.tail /\ dev'.phase = dev.phase
  <2> DEFINE d == [i \in DOMAIN dev.pending |-> late(dev.pending[i])]
  <2>1. /\ dev \in [pending : Seq(Command), tail : Place, phase : Bit]
        /\ Len(dev.pending) \in Nat /\ DOMAIN dev.pending = 1..Len(dev.pending)
        /\ \A i \in 1..Len(dev.pending) : dev.pending[i] \in Command
    BY SMTT(30) DEF IInv, TypeOK
  <2>2. \A e \in Command : late(e) \in Command
    BY Zenon DEF Command
  <2> HIDE DEF late
  <2>3. d \in [1..Len(dev.pending) -> Command]
    BY <2>1, <2>2, Zenon
  <2>4. d \in Seq(Command)
    BY <2>1, <2>3, SeqDef, SMTT(30)
  <2> QED BY <1>1, <2>1, <2>4, ZenonT(30)
<1>6. /\ cq' \in [Place -> [phase : Bit, of : Procs \cup {None}, current : BOOLEAN, ok : BOOLEAN]]
      /\ \A i \in Place : cq'[i].phase = cq[i].phase
  <2> DEFINE E == [phase : Bit, of : Procs \cup {None}, current : BOOLEAN, ok : BOOLEAN]
  <2>1. \A e \in E : late(e) \in E /\ late(e).phase = e.phase
    BY Zenon
  <2> HIDE DEF late, E
  <2>2. cq \in [Place -> E]
    BY Zenon DEF IInv, TypeOK, E
  <2>3. cq' \in [Place -> E] /\ \A i \in Place : cq'[i].phase = cq[i].phase
    BY <1>1, <2>1, <2>2, ZenonT(30)
  <2> QED BY <2>3, Zenon DEF E
<1>7. TypeOK' /\ timeouts' # 0
  BY <1>1, <1>4, <1>5, <1>6, SMTT(30) DEF IInv, TypeOK
<1>8. FdOpen' /\ AppendsKept'
  BY <1>1, <1>3, <1>4, Zenon DEF IInv, FilePart, FdOpen, AppendsKept
<1>9. \A q \in Procs : call'[q].at # "write_at"
  BY <1>1, <1>3, <1>4, OthersOutside, ZenonT(30) DEF UnderFiles
<1>10. PhasesSplit'
  BY <1>5, <1>6, Zenon DEF IInv, QueuePart, PhasesSplit
<1> QED BY <1>1, <1>4, <1>7, <1>8, <1>9, <1>10, Zenon DEF IInv, FilePart, QueuePart, OneMount, SizeFresh

(* The device's next entry, without the remainder. *)
LEMMA NextPlace ==
  ASSUME NEW t \in Place
  PROVE  (t + 1) % QSIZE = IF t + 1 = QSIZE THEN 0 ELSE t + 1
<1>1. t \in Nat /\ t + 1 <= QSIZE /\ QSIZE \in Nat \ {0}
  BY FilesAssumption, SMTT(30) DEF Place
<1>2. CASE t + 1 = QSIZE
  BY <1>1, <1>2, SMTT(30)
<1>3. CASE t + 1 # QSIZE
  BY <1>1, <1>3, SMTT(30)
<1> QED BY <1>2, <1>3, Zenon

(* The device writes the entry at its tail: the next one the driver looks at. *)
LEMMA DeviceOK == ASSUME IInv, NEW ok \in BOOLEAN, device(ok) PROVE IInv'
<1> DEFINE cmd == Head(dev.pending)
           entry == [phase |-> dev.phase, of |-> cmd.of, current |-> cmd.current, ok |-> ok]
           E == [phase : Bit, of : Procs \cup {None}, current : BOOLEAN, ok : BOOLEAN]
<1>1. /\ dev.pending # <<>> /\ cq' = [cq EXCEPT ![dev.tail] = entry]
      /\ dev' = [pending |-> Tail(dev.pending), tail |-> (dev.tail + 1) % QSIZE,
                 phase |-> IF dev.tail + 1 = QSIZE THEN 1 - dev.phase ELSE dev.phase]
      /\ UNCHANGED <<cpu, irq, held, call, fds, file, clobbered, mounts, queue, timeouts, foreign>>
  BY Zenon DEF device, files
<1>2. /\ dev \in [pending : Seq(Command), tail : Place, phase : Bit]
      /\ cq \in [Place -> E] /\ dev.tail \in Place /\ dev.phase \in Bit
  BY Zenon DEF IInv, TypeOK
<1>3. cmd \in Command /\ Tail(dev.pending) \in Seq(Command)
  BY <1>1, <1>2, SMTT(30)
<1>4. entry \in E
  BY <1>2, <1>3, Zenon DEF Command
<1>5. /\ dev'.tail = IF dev.tail + 1 = QSIZE THEN 0 ELSE dev.tail + 1
      /\ dev'.phase = IF dev.tail + 1 = QSIZE THEN 1 - dev.phase ELSE dev.phase
      /\ dev'.pending = Tail(dev.pending)
  BY <1>1, <1>2, NextPlace, Zenon
<1>6. dev'.tail \in Place /\ dev'.phase \in Bit
  BY <1>2, <1>5, FilesAssumption, SMTT(30) DEF Place, Bit
<1>7. dev' \in [pending : Seq(Command), tail : Place, phase : Bit]
  BY <1>1, <1>3, <1>5, <1>6, Zenon
<1> HIDE DEF cmd, entry, E
<1>8. cq' \in [Place -> E] /\ cq'[dev.tail] = entry
      /\ \A i \in Place : i # dev.tail => cq'[i] = cq[i]
  BY <1>1, <1>2, <1>4, Zenon
<1>9. TypeOK'
  BY <1>1, <1>7, <1>8, Zenon DEF IInv, TypeOK, E
<1>10. FilesLocked' /\ FdOpen' /\ AppendsKept' /\ QueueLocked' /\ OneMount'
  BY <1>1, Zenon DEF IInv, FilePart, FilesLocked, FdOpen, AppendsKept, QueuePart, QueueLocked, OneMount
<1>11. SizeFresh'
  <2>1. \A q \in Procs : TheFd(q)' = TheFd(q)
    BY <1>1, Zenon DEF TheFd
  <2> QED BY <1>1, <2>1, Zenon DEF IInv, FilePart, SizeFresh
<1>12. PhasesSplit'
  <2>1. entry.phase = dev.phase
    BY Zenon DEF entry
  <2>2. ASSUME NEW i \in Place
        PROVE  cq'[i].phase = IF i < dev'.tail THEN dev'.phase ELSE 1 - dev'.phase
    <3>1. i \in Nat /\ i < QSIZE /\ dev.tail \in Nat /\ dev.tail < QSIZE
      BY <1>2, FilesAssumption, SMTT(30) DEF Place
    <3>2. i # dev.tail => cq'[i].phase = IF i < dev.tail THEN dev.phase ELSE 1 - dev.phase
      BY <1>8, Zenon DEF IInv, QueuePart, PhasesSplit
    <3>3. i = dev.tail => cq'[i].phase = dev.phase
      BY <1>8, <2>1, Zenon
    <3> QED BY <1>2, <1>5, <3>1, <3>2, <3>3, FilesAssumption, SMTT(30) DEF Bit
  <2> QED BY <2>2, Zenon DEF PhasesSplit
<1>13. timeouts' = 0 => InStep' /\ ~foreign'
  <2> SUFFICES ASSUME timeouts = 0 PROVE InStep' /\ ~foreign'
    BY <1>1, Zenon
  <2>1. /\ held["queue"] # None /\ ~foreign /\ SamePlace
        /\ dev.pending = <<[of |-> held["queue"], current |-> TRUE]>>
    BY <1>1, Zenon DEF IInv, QueuePart, InStep
  <2>2. cmd = [of |-> held["queue"], current |-> TRUE] /\ dev'.pending = <<>>
    BY <1>5, <2>1, SMTT(30) DEF cmd
  <2>3. advance' = advance
    BY <1>1, Zenon DEF advance
  <2>4. advance = [head |-> dev'.tail, phase |-> dev'.phase]
    <3>1. queue \in [head : Place, phase : Bit]
      BY Zenon DEF IInv, TypeOK
    <3> QED BY <1>5, <2>1, <3>1, Zenon DEF advance, SamePlace
  <2>5. StepAhead'
    BY <1>1, <1>8, <2>1, <2>2, <2>3, <2>4, SMTT(30) DEF StepAhead, SamePlace, entry
  <2> QED BY <1>1, <2>1, <2>2, <2>5, ZenonT(30) DEF InStep
<1> QED BY <1>9, <1>10, <1>11, <1>12, <1>13, ZenonT(30) DEF IInv, FilePart, QueuePart

----------------------------------------------------------------------------
(* Every step of every process and of the controller keeps the invariant. *)
LEMMA NextOK == ASSUME IInv, [Next]_vars PROVE IInv'
<1>1. ASSUME NEW p \in Procs, Step(p) PROVE IInv'
  BY <1>1, CheckFdOK, LockFilesOK, LockMountsOK, LockQueueOK, FinishOK, OpenFdOK, MountAddOK, Zenon
  DEF Step
<1>2. CASE UNCHANGED vars
  <2>1. UNCHANGED <<cpu, irq, held, call, fds, file, clobbered, mounts, driver>>
    BY <1>2, Zenon DEF vars, files
  <2>2. TypeOK' /\ OneMount'
    BY <2>1, Zenon DEF IInv, TypeOK, OneMount, driver
  <2>3. FilesLocked' /\ FdOpen' /\ AppendsKept' /\ QueueLocked'
    BY <2>1, Zenon DEF IInv, FilePart, FilesLocked, FdOpen, AppendsKept, QueuePart, QueueLocked
  <2>4. SizeFresh'
    <3>1. \A q \in Procs : TheFd(q)' = TheFd(q)
      BY <2>1, Zenon DEF TheFd
    <3> QED BY <2>1, <3>1, Zenon DEF IInv, FilePart, SizeFresh
  <2> QED BY <2>1, <2>2, <2>3, <2>4, QueueKept, Zenon DEF IInv, FilePart, QueuePart
<1> QED BY <1>1, <1>2, BeginOK, TimeOutOK, PreemptOK, DeviceOK, Zenon DEF Next

(* Nothing is open, locked or submitted at boot. *)
LEMMA InitOK == Init => IInv
<1> SUFFICES ASSUME Init PROVE IInv
  BY Zenon
<1>1. QSIZE \in Nat /\ QSIZE > 0 /\ None \notin Procs
  BY FilesAssumption, SMTT(30)
<1>2. TypeOK
  <2>1. Idle \in Call
    BY Zenon DEF Idle, Call, Stage
  <2>2. irq \in BOOLEAN
    BY Zenon DEF Init
  <2>3. file \in [there : BOOLEAN, data : Seq(Chunk)]
    BY SMTT(30) DEF Init
  <2>4. dev \in [pending : Seq(Command), tail : Place, phase : Bit]
    BY <1>1, SMTT(30) DEF Init, Place, Bit
  <2> QED BY <1>1, <2>1, <2>2, <2>3, <2>4, Zenon DEF Init, TypeOK, Place, Bit
<1>3. FilePart
  BY Zenon DEF Init, FilePart, FilesLocked, FdOpen, SizeFresh, AppendsKept, Idle, UnderFiles, UsesFd
<1>4. QueueLocked /\ PhasesSplit
  <2>1. QueueLocked
    BY <1>1, Zenon DEF Init, QueueLocked, Idle, None
  <2>2. PhasesSplit
    BY <1>1, SMTT(30) DEF Init, PhasesSplit, Place
  <2> QED BY <2>1, <2>2, Zenon
<1>5. InStep /\ ~foreign
  BY Zenon DEF Init, InStep, SamePlace
<1>6. OneMount
  BY Zenon DEF Init, OneMount
<1> QED BY <1>2, <1>3, <1>4, <1>5, <1>6, Zenon DEF IInv, QueuePart

(* The invariant of the file system calls. *)
THEOREM FilesInvariant == FilesSafe => []IInv
BY InitOK, NextOK, PTL DEF FilesSafe

(* No append replaces a chunk of the file: sys_write holds OPEN_FILES from the
   size it asks for to the write. *)
THEOREM AppendsAreKept == FilesSafe => []AppendsKept
<1>1. IInv => AppendsKept
  BY Zenon DEF IInv, FilePart
<1> QED BY <1>1, FilesInvariant, PTL

(* Until a command times out, Queue::submit takes the completion of its own
   command, whatever the length of the completion queue. *)
THEOREM CompletionsMatch == FilesSafe => []OwnCompletion
<1>1. IInv => OwnCompletion
  BY Zenon DEF IInv, QueuePart, OwnCompletion
<1> QED BY <1>1, FilesInvariant, PTL

(* The volume is mounted at one point at most, for any number of concurrent
   mount calls. *)
THEOREM OneMountPoint == FilesSafe => []MountedOnce
<1>1. OneMount => MountedOnce
  <2>1. mounts = {} => Cardinality(mounts) = 0
    BY FS_EmptySet, Zenon
  <2>2. ASSUME NEW x, mounts = {x} PROVE Cardinality(mounts) = 1
    BY <2>2, FS_Singleton, Zenon
  <2> QED BY <2>1, <2>2, SMTT(30) DEF OneMount, MountedOnce
<1>2. IInv => MountedOnce
  BY <1>1, Zenon DEF IInv
<1> QED BY <1>2, FilesInvariant, PTL
=============================================================================
