------------------------------- MODULE Xhci -------------------------------
(***************************************************************************)
(* The xHCI keyboard driver (src/drivers/usb/xhci.rs): enumeration of the  *)
(* root ports, the command, event and transfer rings, keyboard reports,    *)
(* hot-plug and the poll() entry that processes and the background worker  *)
(* share, against a host controller that answers late, refuses, or loses   *)
(* the device half way.                                                    *)
(*                                                                         *)
(* Every wait of the driver is a loop over the event ring, so one action   *)
(* is one event taken or one register read.  The controller and the        *)
(* devices (external) take their own steps between them.                   *)
(*                                                                         *)
(* A device is a generation number: the n-th device ever plugged in.       *)
(***************************************************************************)
EXTENDS Naturals, Sequences, FiniteSets, Functions

CONSTANTS
    Pollers,      \* threads that call poll(): readers of the terminal and the worker
    Ports,        \* 1..max_ports
    Slots,        \* 1..max_slots
    AtBoot,       \* the port with a device when the machine boots
    PlugAtBoot,   \* devices come and go while probe() runs, too
    Full,         \* the ports of full-speed devices with an EP0 packet size other than 8
    Frames,       \* the physical frames the driver can allocate
    CommandRing,  \* RING_SIZE of the command ring
    SetupRing,    \* RING_SIZE of the EP0 rings
    KeyRing,      \* RING_SIZE of a keyboard's transfer ring
    EventRing,    \* RING_SIZE of the event ring
    Depth,        \* KEYBOARD_REPORT_QUEUE_DEPTH
    FaultStages,  \* the waits that may be refused or outlast their second
    MaxPlugs,     \* bound: devices ever plugged in
    MaxReports,   \* bound: reports the devices send, together
    MaxFaults     \* bound: refused or late answers

ASSUME XhciAssumption ==
    /\ Depth < KeyRing - 1 /\ 1 < EventRing
    /\ \A s \in {Ports, Slots, Frames} : s = 1..Cardinality(s)
    /\ Full \subseteq Ports /\ AtBoot \in Ports /\ PlugAtBoot \in BOOLEAN

VARIABLES
    port,      \* the device connected to each root port, 0 = none (PORTSC.CCS)
    plugs,     \* devices plugged in so far
    slots,     \* the controller's device slots
    dcbaa,     \* the output context the driver gave each slot, 0 = none
    input,     \* the shared Input Context: port, EP0 ring, keyboard ring
    cmds,      \* command TRBs the controller has not executed
    events,    \* the event ring: cycle bit and event of each entry
    producer,  \* where the controller writes its next event, and its cycle
    drv,       \* the Controller record
    task,      \* what the thread inside poll() is doing
    pc,        \* each poller's place in poll()
    has,       \* the pollers whose local list holds the controller
    registry,  \* CONTROLLERS holds it
    polling,   \* POLLING
    boot,      \* probe() is still running
    due,       \* 250 ms have passed since the last port scan
    free,      \* frames the allocator may hand out
    mem,       \* the report each frame holds, 0 = zeroes
    trbs,      \* the keyboard ring each frame holds
    sent,      \* reports each device has sent
    seen,      \* reports of each device that handle_report translated
    misread,   \* a report was translated out of order, twice or not at all
    faults

vars == <<port, plugs, slots, dcbaa, input, cmds, events, producer, drv, task,
          pc, has, registry, polling, boot, due, free, mem, trbs, sent, seen,
          misread, faults>>

\* What the controller and the devices change.
hardware == <<port, plugs, slots, cmds, events, producer, sent>>
\* poll()'s entry and exit.
entry == <<pc, has, registry, polling, boot>>

Devices == 1..MaxPlugs
Report(g, n) == ((MaxReports + 1) * g) + n

NoSlot == [on |-> FALSE, device |-> 0, port |-> 0, ep0 |-> 0, ring |-> 0,
           at |-> 0, cycle |-> 1, halted |-> FALSE, control |-> SetupRing]
NoKeyboard == [port |-> 0, slot |-> 0, ring |-> 0, enqueue |-> 0, cycle |-> 1,
               ctx |-> 0, ep0 |-> 0, bufs |-> <<>>, head |-> 0, tail |-> 0]
NoEvent == [type |-> "none", at |-> 0, slot |-> 0, dci |-> 0, ok |-> FALSE, rep |-> 0]
EmptyRing == [i \in 0..(KeyRing - 2) |-> [buf |-> 0, cycle |-> 0]]
Idle == [at |-> "none", port |-> 0, want |-> 0, kb |-> NoKeyboard]

Lowest(s) == CHOOSE x \in s : \A y \in s : x <= y
\* pmm::alloc_frame_zeroed: the lowest free frames.
LowestN(s, n) ==
    LET size == Cardinality(s)
    IN  [i \in 1..(IF n < size THEN n ELSE size) |->
            CHOOSE x \in s : Cardinality({y \in s : y < x}) = i - 1]
\* A free frame's contents are never looked at before they are zeroed, so
\* they are zeroed when the frame is freed.
free_frames(fs) ==
    /\ mem' = [f \in Frames |-> IF f \in fs THEN 0 ELSE mem[f]]
    /\ trbs' = [f \in Frames |-> IF f \in fs THEN EmptyRing ELSE trbs[f]]

----------------------------------------------------------------------------
(* Rings                                                                   *)

\* Ring::push on a keyboard's ring: the TRB with the ring's cycle bit, and
\* past the last entry before the Link TRB back to 0 with the bit flipped.
push(kb, buf, ring) ==
    LET wraps == kb.enqueue + 1 = KeyRing - 1
    IN  [ring |-> [ring EXCEPT ![kb.enqueue] = [buf |-> buf, cycle |-> kb.cycle]],
         kb   |-> [kb EXCEPT !.enqueue = IF wraps THEN 0 ELSE @ + 1,
                             !.cycle = IF wraps THEN 1 - @ ELSE @]]

\* queue_report_read: post a read into the next report buffer.
queue_report_read(kb, ring) ==
    LET pushed == push(kb, kb.bufs[kb.head + 1], ring)
    IN  [ring |-> pushed.ring, kb |-> [pushed.kb EXCEPT !.head = (@ + 1) % Depth]]

QueueReads(n, kb, ring) ==
    LET after[i \in 0..n] ==
          IF i = 0 THEN [kb |-> kb, ring |-> ring]
          ELSE LET q == after[i - 1] IN queue_report_read(q.kb, q.ring)
    IN  after[n]

\* poll_event_ring: an entry is new when it carries the expected cycle bit.
EventWaiting == events[drv.dequeue].cycle = drv.cycle
taken ==
    LET wraps == drv.dequeue + 1 = EventRing
    IN  [drv EXCEPT !.dequeue = IF wraps THEN 0 ELSE @ + 1,
                    !.cycle = IF wraps THEN 1 - @ ELSE @]

\* The controller posts an event while the ring has room (ERDP is written
\* by every poll_event_ring, so it is the driver's dequeue index).
Room == (producer.at + 1) % EventRing # drv.dequeue
post(ev) ==
    /\ Room
    /\ events' = [events EXCEPT ![producer.at] = [cycle |-> producer.cycle, ev |-> ev]]
    /\ producer' = IF producer.at + 1 = EventRing
                   THEN [at |-> 0, cycle |-> 1 - producer.cycle]
                   ELSE [producer EXCEPT !.at = @ + 1]

----------------------------------------------------------------------------
(* Keyboard reports                                                        *)

(* mutant: the buffer of a failed read is not skipped *)
dispatch_keyboard_event_skip(d, ev) ==
    LET owners == {i \in DOMAIN d.keyboards :
                      ev.type = "xfer" /\ d.keyboards[i].slot = ev.slot /\ ev.dci = 3}
        i == Lowest(owners)
        kb == d.keyboards[i]
        q == queue_report_read([kb EXCEPT !.tail = IF ev.ok THEN (@ + 1) % Depth ELSE @], trbs[kb.ring])
        found == mem[kb.bufs[kb.tail + 1]]
        g == ev.rep \div (MaxReports + 1)
    IN  IF owners = {} THEN drv' = d /\ UNCHANGED <<trbs, seen, misread>>
        ELSE /\ drv' = [d EXCEPT !.keyboards[i] = q.kb]
             /\ trbs' = [trbs EXCEPT ![kb.ring] = q.ring]
             /\ IF ev.ok
                THEN /\ misread' = (misread \/ found # ev.rep \/ ev.rep # Report(g, seen[g] + 1))
                     /\ seen' = [seen EXCEPT ![g] = @ + 1]
                ELSE UNCHANGED <<seen, misread>>

\* dispatch_keyboard_event and handle_report: the first keyboard with the
\* event's slot and endpoint reads the buffer at its own dequeue index
\* (never the event's address) and posts another read in its place.
\* `rep`, the report the device really sent, is not visible to the code.
dispatch_keyboard_event(d, ev) ==
    LET owners == {i \in DOMAIN d.keyboards :
                      ev.type = "xfer" /\ d.keyboards[i].slot = ev.slot /\ ev.dci = 3}
        i == Lowest(owners)
        kb == d.keyboards[i]
        q == queue_report_read([kb EXCEPT !.tail = (@ + 1) % Depth], trbs[kb.ring])
        found == mem[kb.bufs[kb.tail + 1]]
        g == ev.rep \div (MaxReports + 1)
    IN  IF owners = {} THEN drv' = d /\ UNCHANGED <<trbs, seen, misread>>
        ELSE /\ drv' = [d EXCEPT !.keyboards[i] = q.kb]
             /\ trbs' = [trbs EXCEPT ![kb.ring] = q.ring]
             /\ IF ev.ok
                THEN /\ misread' = (misread \/ found # ev.rep \/ ev.rep # Report(g, seen[g] + 1))
                     /\ seen' = [seen EXCEPT ![g] = @ + 1]
                ELSE UNCHANGED <<seen, misread>>

----------------------------------------------------------------------------
(* Enumeration                                                             *)

Commands == {"enable", "address", "evaluate", "configure", "disable", "cleanup"}
Trbs(stage) == IF stage \in {"device", "header", "config"} THEN 3 ELSE 2
Address(frame, i) == (SetupRing * frame) + i

\* try_setup_keyboard's requests in order.  Only full-speed devices have
\* their device descriptor read and EP0 evaluated.
After(stage, p) ==
    CASE stage = "enable" -> "address"
      [] stage = "address" -> IF p \in Full THEN "device" ELSE "header"
      [] stage = "device" -> "evaluate"
      [] stage = "evaluate" -> "header"
      [] stage = "header" -> "config"
      [] stage = "config" -> "select"
      [] stage = "select" -> "protocol"
      [] stage = "protocol" -> "idle"
      [] stage = "idle" -> "configure"
      [] stage = "configure" -> "ready"

\* do_command and control_transfer up to their wait: the TRBs are written,
\* the doorbell rung, and the address of the last TRB is what to wait for.
submit(d, stage, slot) ==
    IF stage \in Commands
    THEN /\ cmds' = Append(cmds, [op |-> stage, slot |-> slot, at |-> d.cmdat])
         /\ drv' = [d EXCEPT !.cmdat = (@ + 1) % (CommandRing - 1)]
         /\ task' = [task EXCEPT !.at = stage, !.want = Address(0, d.cmdat)]
         /\ UNCHANGED slots
    ELSE LET last == (d.ep0at + Trbs(stage) - 1) % (SetupRing - 1)
         IN  /\ slots' = [slots EXCEPT ![slot].control = last]
             /\ drv' = [d EXCEPT !.ep0at = (last + 1) % (SetupRing - 1)]
             /\ task' = [task EXCEPT !.at = stage, !.want = Address(d.ep0, last)]
             /\ UNCHANGED cmds

next_port(d) ==
    /\ drv' = d
    /\ task' = [Idle EXCEPT !.at = "scan", !.port = task.port + 1]
    /\ UNCHANGED <<cmds, slots>>

\* The rest of cleanup_failed_setup, once no slot is left enabled.
reclaim(d, fr) ==
    /\ free' = fr \cup ({d.ctx, d.ep0} \ {0})
    /\ input' = [port |-> 0, ep0 |-> 0, ring |-> 0]
    /\ next_port([d EXCEPT !.ctx = 0, !.ep0 = 0, !.ep0at = 0])

(* mutant: the pages are reclaimed without disabling the slot *)
cleanup_failed_setup_enabled(d, fr) == reclaim([d EXCEPT !.slot_id = 0], fr) /\ UNCHANGED dcbaa

\* cleanup_failed_setup.
cleanup_failed_setup(d, fr) ==
    IF d.slot_id # 0
    THEN submit(d, "cleanup", d.slot_id) /\ free' = fr /\ UNCHANGED <<dcbaa, input>>
    ELSE reclaim(d, fr) /\ UNCHANGED dcbaa

\* A request was answered and the next one follows: what try_setup_keyboard
\* prepares before each.  Descriptor buffers are never given back.
proceed(d, stage) ==
    LET one == LowestN(free, 1)
        fr == free \ Range(one)
        bufs == LowestN(free, Depth)
        start == [NoKeyboard EXCEPT !.port = task.port, !.slot = d.slot_id,
                    !.ring = input.ring, !.ctx = d.ctx, !.ep0 = d.ep0, !.bufs = bufs]
        q == QueueReads(Depth, start, trbs[input.ring])
    IN  CASE stage = "address" ->
               /\ dcbaa' = [dcbaa EXCEPT ![d.slot_id] = d.ctx]
               /\ input' = [port |-> task.port, ep0 |-> d.ep0, ring |-> 0]
               /\ submit(d, stage, d.slot_id)
               /\ UNCHANGED <<free, mem, trbs>>
          [] stage \in {"device", "header", "configure"} ->
               IF one = <<>> THEN cleanup_failed_setup(d, free) /\ UNCHANGED <<mem, trbs>>
               ELSE /\ free' = fr /\ UNCHANGED <<mem, trbs>>
                    /\ input' = IF stage = "configure" THEN [input EXCEPT !.ring = one[1]] ELSE input
                    /\ submit(d, stage, d.slot_id)
                    /\ UNCHANGED dcbaa
          [] stage \in {"evaluate", "config", "select", "protocol", "idle"} ->
               submit(d, stage, d.slot_id) /\ UNCHANGED <<dcbaa, input, free, mem, trbs>>
          [] stage = "ready" ->
               IF Len(bufs) < Depth
               THEN cleanup_failed_setup(d, free) /\ UNCHANGED <<mem, trbs>>
               ELSE /\ free' = free \ Range(bufs)
                    /\ trbs' = [trbs EXCEPT ![input.ring] = q.ring] /\ UNCHANGED mem
                    /\ next_port([d EXCEPT !.keyboards = Append(@, q.kb), !.ctx = 0,
                                           !.ep0 = 0, !.slot_id = 0, !.ep0at = 0])
                    /\ UNCHANGED <<dcbaa, input>>

\* The end of a wait: answered with code and slot, or timed out (~ok).
\* A failed SET_IDLE is ignored; every other failure gives the setup up.
finish(d, ok, slot) ==
    CASE task.at = "disable" /\ ok ->
           /\ dcbaa' = [dcbaa EXCEPT ![task.kb.slot] = 0]
           /\ LET fs == Range(task.kb.bufs) \cup {task.kb.ring, task.kb.ctx, task.kb.ep0}
              IN  free' = free \cup fs /\ free_frames(fs)
           /\ next_port([d EXCEPT !.scanned = @ \ {task.port}])
           /\ UNCHANGED input
      [] task.at = "disable" /\ ~ok ->
           /\ next_port([d EXCEPT !.keyboards = Append(@, task.kb)])
           /\ UNCHANGED <<dcbaa, input, free, mem, trbs>>
      [] task.at = "cleanup" /\ ok ->
           /\ dcbaa' = [dcbaa EXCEPT ![d.slot_id] = 0]
           /\ reclaim([d EXCEPT !.slot_id = 0], free)
           /\ UNCHANGED <<mem, trbs>>
      [] task.at = "cleanup" /\ ~ok ->
           next_port(d) /\ UNCHANGED <<dcbaa, input, free, mem, trbs>>
      [] task.at \notin {"disable", "cleanup"} /\ (ok \/ task.at = "idle") ->
           proceed(IF task.at = "enable" THEN [d EXCEPT !.slot_id = slot] ELSE d,
                   After(task.at, task.port))
      [] OTHER -> cleanup_failed_setup(d, free) /\ UNCHANGED <<mem, trbs>>

----------------------------------------------------------------------------
(* poll() and probe()                                                      *)

\* A thread with the controller in its own list, at the given place.
Driving(t, at) == pc[t] = "in" /\ t \in has /\ task.at = at

(* mutant: POLLING is set without looking at it *)
poll_blind(t) ==
    /\ ~boot /\ pc[t] = "out"
    /\ polling' = TRUE
    /\ pc' = [pc EXCEPT ![t] = "take"]
    /\ UNCHANGED <<hardware, has, registry, boot, dcbaa, input, drv, task, due,
                   free, mem, trbs, seen, misread, faults>>

\* poll: whoever finds POLLING clear goes on, the others return at once.
poll(t) ==
    /\ ~boot /\ pc[t] = "out" /\ ~polling
    /\ polling' = TRUE
    /\ pc' = [pc EXCEPT ![t] = "take"]
    /\ UNCHANGED <<hardware, has, registry, boot, dcbaa, input, drv, task, due,
                   free, mem, trbs, seen, misread, faults>>

\* mem::take of the registry, in its own interrupts-off section.
take(t) ==
    /\ pc[t] = "take"
    /\ pc' = [pc EXCEPT ![t] = "in"]
    /\ has' = IF registry THEN has \cup {t} ELSE has
    /\ registry' = FALSE
    /\ task' = IF registry THEN [Idle EXCEPT !.at = "drain"] ELSE task
    /\ UNCHANGED <<hardware, polling, boot, dcbaa, input, drv, due, free, mem, trbs,
                   seen, misread, faults>>

\* One event of poll()'s drain loop.
drain(t) ==
    /\ Driving(t, "drain") /\ EventWaiting
    /\ dispatch_keyboard_event(taken, events[drv.dequeue].ev)
    /\ events' = [events EXCEPT ![drv.dequeue].ev = NoEvent]
    /\ UNCHANGED <<port, plugs, slots, cmds, producer, sent, entry, dcbaa, input,
                   task, due, free, mem, faults>>

\* No event is left: poll_root_ports returns unless 250 ms have passed.
poll_root_ports(t) ==
    /\ Driving(t, "drain") /\ ~EventWaiting
    /\ task' = [Idle EXCEPT !.at = IF due THEN "scan" ELSE "done", !.port = 1]
    /\ due' = FALSE
    /\ UNCHANGED <<hardware, entry, dcbaa, input, drv, free, mem, trbs, seen,
                   misread, faults>>

\* One port of the scan: read PORTSC and act on it.  probe() tries every
\* port and marks those with a device as scanned.
scan_port(t) ==
    LET p == task.port
        mine == {i \in DOMAIN drv.keyboards : drv.keyboards[i].port = p}
        begin == task' = [task EXCEPT !.at = "begin"] /\ UNCHANGED <<slots, cmds>>
    IN  /\ Driving(t, "scan") /\ p \in Ports
        /\ \/ /\ boot
              /\ begin
              /\ drv' = [drv EXCEPT !.scanned = IF port[p] # 0 THEN @ \cup {p} ELSE @]
           \/ /\ ~boot /\ port[p] = 0 /\ mine # {}
              /\ LET i == Lowest(mine)
                     kb == drv.keyboards[i]
                     d == [drv EXCEPT !.keyboards = SubSeq(@, 1, i - 1) \o SubSeq(@, i + 1, Len(@)),
                                      !.cmdat = (@ + 1) % (CommandRing - 1)]
                 IN  /\ drv' = d
                     /\ cmds' = Append(cmds, [op |-> "disable", slot |-> kb.slot, at |-> drv.cmdat])
                     /\ task' = [task EXCEPT !.at = "disable", !.want = Address(0, drv.cmdat),
                                             !.kb = kb]
              /\ UNCHANGED slots
           \/ ~boot /\ port[p] = 0 /\ mine = {} /\ next_port([drv EXCEPT !.scanned = @ \ {p}])
           \/ ~boot /\ port[p] # 0 /\ p \in drv.scanned /\ next_port(drv)
           \/ /\ ~boot /\ port[p] # 0 /\ p \notin drv.scanned
              /\ begin
              /\ drv' = [drv EXCEPT !.scanned = @ \cup {p}]
        /\ UNCHANGED <<port, plugs, events, producer, sent, entry, dcbaa, input, due,
                       free, mem, trbs, seen, misread, faults>>

\* try_setup_keyboard reads PORTSC again and allocates the device context
\* and the EP0 ring; what it overwrites was left by an unconfirmed cleanup.
begin_setup(t) ==
    LET two == LowestN(free, 2)
        d == [drv EXCEPT !.ctx = IF port[task.port] # 0 /\ two # <<>> THEN two[1] ELSE @,
                         !.ep0 = IF port[task.port] # 0 /\ Len(two) = 2 THEN two[2] ELSE @]
        fr == IF port[task.port] # 0 THEN free \ Range(two) ELSE free
    IN  /\ Driving(t, "begin")
        /\ IF port[task.port] # 0 /\ Len(two) = 2
           THEN /\ drv' = d /\ free' = fr
                /\ task' = [task EXCEPT !.at = "reset"]
                /\ UNCHANGED <<cmds, slots, dcbaa, input>>
           ELSE cleanup_failed_setup(d, fr)
        /\ UNCHANGED <<port, plugs, events, producer, sent, entry, due, mem, trbs, seen,
                       misread, faults>>

\* The port reset: it times out or leaves the port disabled without a
\* device (or, as a fault, with one); otherwise a slot is requested.  A
\* reset device has no address any more.
reset_port(t) ==
    /\ Driving(t, "reset")
    /\ \/ /\ port[task.port] # 0
          /\ cmds' = Append(cmds, [op |-> "enable", slot |-> 0, at |-> drv.cmdat])
          /\ drv' = [drv EXCEPT !.cmdat = (@ + 1) % (CommandRing - 1)]
          /\ task' = [task EXCEPT !.at = "enable", !.want = Address(0, drv.cmdat)]
          /\ slots' = [s \in Slots |-> IF slots[s].port = task.port
                                       THEN [slots[s] EXCEPT !.device = 0] ELSE slots[s]]
          /\ UNCHANGED <<dcbaa, input, free, faults>>
       \/ /\ faults' = IF port[task.port] = 0 THEN faults ELSE faults + 1
          /\ port[task.port] # 0 => ("reset" \in FaultStages /\ faults < MaxFaults)
          /\ cleanup_failed_setup(drv, free)
    /\ UNCHANGED <<port, plugs, events, producer, sent, entry, due, mem, trbs, seen, misread>>

Waiting(t) == pc[t] = "in" /\ t \in has /\ task.at \notin {"none", "drain", "scan", "begin", "reset", "done"}
Answers(ev) ==
    /\ ev.type = IF task.at \in Commands THEN "cmd" ELSE "xfer"
    /\ ev.at = task.want

\* One event of a wait loop: the awaited completion ends it, any other is
\* dispatched to the keyboards.
wait(t) ==
    LET ev == events[drv.dequeue].ev
    IN  /\ Waiting(t) /\ EventWaiting
        /\ IF Answers(ev)
           THEN finish(taken, ev.ok, ev.slot) /\ UNCHANGED <<seen, misread>>
           ELSE /\ dispatch_keyboard_event(taken, ev)
                /\ UNCHANGED <<cmds, slots, dcbaa, input, task, free, mem>>
        /\ events' = [events EXCEPT ![drv.dequeue].ev = NoEvent]
        /\ UNCHANGED <<port, plugs, producer, sent, entry, due, faults>>

\* The controller can still answer what the driver waits for.
Pending ==
    \/ \E i \in DOMAIN cmds : Address(0, cmds[i].at) = task.want /\ task.at \in Commands
    \/ \E s \in Slots : /\ slots[s].on /\ slots[s].control < SetupRing
                        /\ Address(slots[s].ep0, slots[s].control) = task.want
                        /\ slots[s].device # 0 /\ port[slots[s].port] = slots[s].device

\* spin_until gives up after a second: because no answer can come, or, as a
\* fault, before one that will.
time_out(t) ==
    /\ Waiting(t) /\ ~EventWaiting
    /\ Pending => (task.at \in FaultStages /\ faults < MaxFaults)
    /\ faults' = IF Pending THEN faults + 1 ELSE faults
    /\ finish(drv, FALSE, 0)
    /\ UNCHANGED <<port, plugs, events, producer, sent, entry, due, seen, misread>>

\* The end of poll() or of probe(): the list goes back to the registry.
put(t) ==
    /\ pc[t] = "in"
    /\ t \in has => (task.at = "done" \/ (task.at = "scan" /\ task.port \notin Ports))
    /\ registry' = (t \in has)
    /\ has' = has \ {t}
    /\ task' = IF t \in has THEN Idle ELSE task
    /\ pc' = [pc EXCEPT ![t] = IF boot THEN "out" ELSE "clear"]
    /\ boot' = FALSE
    /\ UNCHANGED <<hardware, polling, dcbaa, input, drv, due, free, mem, trbs, seen,
                   misread, faults>>

clear(t) ==
    /\ pc[t] = "clear"
    /\ polling' = FALSE
    /\ pc' = [pc EXCEPT ![t] = "out"]
    /\ UNCHANGED <<hardware, has, registry, boot, dcbaa, input, drv, task, due, free,
                   mem, trbs, seen, misread, faults>>

\* The clock: 250 ms pass.  Only poll_root_ports looks at it, so it may as
\* well be while no poll is running.
tick ==
    /\ ~due /\ ~polling
    /\ due' = TRUE
    /\ UNCHANGED <<hardware, entry, dcbaa, input, drv, task, free, mem, trbs, seen,
                   misread, faults>>

----------------------------------------------------------------------------
(* The host controller and the devices (external)                          *)

software == <<dcbaa, input, drv, task, entry, due, free, trbs, seen, misread>>
Done(c, ok, s) == [type |-> "cmd", at |-> Address(0, c.at), slot |-> s, dci |-> 0, ok |-> ok, rep |-> 0]
Present(s) == slots[s].device # 0 /\ port[slots[s].port] = slots[s].device

\* The controller executes the oldest command; `refused` is a failure the
\* state does not explain.
execute(refused) ==
    LET c == Head(cmds)
        off == {s \in Slots : ~slots[s].on}
        addressed == c.slot # 0 /\ slots[c.slot].on /\ slots[c.slot].device # 0
    IN  /\ cmds # <<>>
        /\ cmds' = Tail(cmds)
        /\ \/ /\ refused
              /\ c.op \in FaultStages \ {"disable", "cleanup"}
              /\ post(Done(c, FALSE, 0)) /\ UNCHANGED slots
           \/ /\ ~refused /\ c.op = "enable" /\ off # {}
              /\ post(Done(c, TRUE, Lowest(off)))
              /\ slots' = [slots EXCEPT ![Lowest(off)] = [NoSlot EXCEPT !.on = TRUE]]
           \/ /\ ~refused /\ c.op = "enable" /\ off = {}
              /\ post(Done(c, FALSE, 0)) /\ UNCHANGED slots
           \/ /\ ~refused /\ c.op = "address"
              /\ LET ok == slots[c.slot].on /\ input.port # 0 /\ port[input.port] # 0
                 IN  /\ post(Done(c, ok, c.slot))
                     /\ slots' = IF ok THEN [slots EXCEPT ![c.slot].device = port[input.port],
                                                          ![c.slot].port = input.port,
                                                          ![c.slot].ep0 = input.ep0]
                                 ELSE slots
           \/ /\ ~refused /\ c.op = "evaluate"
              /\ post(Done(c, addressed, c.slot)) /\ UNCHANGED slots
           \/ /\ ~refused /\ c.op = "configure"
              /\ post(Done(c, addressed, c.slot))
              /\ slots' = IF addressed THEN [slots EXCEPT ![c.slot].ring = input.ring] ELSE slots
           \/ /\ ~refused /\ c.op \in {"disable", "cleanup"}
              /\ post(Done(c, slots[c.slot].on, c.slot))
              /\ slots' = [slots EXCEPT ![c.slot] = NoSlot]
        /\ faults' = IF refused THEN faults + 1 ELSE faults
        /\ refused => faults < MaxFaults
        /\ UNCHANGED <<port, plugs, sent, software, mem>>

\* A present device answers the control transfer on EP0.  A refusal is a
\* transfer error, or a configuration without a boot keyboard.
control(s, refused) ==
    /\ slots[s].on /\ slots[s].control < SetupRing /\ Present(s)
    /\ post([type |-> "xfer", at |-> Address(slots[s].ep0, slots[s].control), slot |-> s,
             dci |-> 1, ok |-> ~refused, rep |-> 0])
    /\ slots' = [slots EXCEPT ![s].control = SetupRing]
    /\ refused => ("control" \in FaultStages /\ faults < MaxFaults)
    /\ faults' = IF refused THEN faults + 1 ELSE faults
    /\ UNCHANGED <<port, plugs, cmds, sent, software, mem>>

\* The TRB at the controller's dequeue index of a keyboard's ring is its own
\* while it carries the controller's cycle bit.
Trb(s) == trbs[slots[s].ring][slots[s].at]
Owned(s) == slots[s].on /\ slots[s].ring # 0 /\ ~slots[s].halted /\ Trb(s).cycle = slots[s].cycle
Consumed(s) ==
    IF slots[s].at + 1 = KeyRing - 1
    THEN [slots[s] EXCEPT !.at = 0, !.cycle = 1 - @] ELSE [slots[s] EXCEPT !.at = @ + 1]
Completion(s, ok, rep) ==
    [type |-> "xfer", at |-> Address(slots[s].ring, slots[s].at), slot |-> s, dci |-> 3,
     ok |-> ok, rep |-> rep]

Sum == FoldFunction(+, 0, sent)

\* A present keyboard sends its next report into the posted buffer.
report(s) ==
    LET g == slots[s].device
    IN  /\ Owned(s) /\ Present(s) /\ Sum < MaxReports
        /\ post(Completion(s, TRUE, Report(g, sent[g] + 1)))
        /\ mem' = [mem EXCEPT ![Trb(s).buf] = Report(g, sent[g] + 1)]
        /\ sent' = [sent EXCEPT ![g] = @ + 1]
        /\ slots' = [slots EXCEPT ![s] = Consumed(s)]
        /\ UNCHANGED <<port, plugs, cmds, software, faults>>

\* A read posted to a device that is gone fails and halts the endpoint; one
\* of a present device may fail for once.
transfer_error(s) ==
    /\ Owned(s)
    /\ Present(s) => ("report" \in FaultStages /\ faults < MaxFaults)
    /\ faults' = IF Present(s) THEN faults + 1 ELSE faults
    /\ post(Completion(s, FALSE, 0))
    /\ slots' = [slots EXCEPT ![s] = [Consumed(s) EXCEPT !.halted = ~Present(s)]]
    /\ UNCHANGED <<port, plugs, cmds, sent, software, mem>>

\* Plugging and unplugging.  The Port Status Change events they may post are
\* left out: the driver takes them from the ring and ignores them.
connect(p, g) ==
    /\ boot => PlugAtBoot
    /\ port' = [port EXCEPT ![p] = g]
    /\ UNCHANGED <<slots, cmds, events, producer, sent, software, mem, faults>>
plug(p) == port[p] = 0 /\ plugs < MaxPlugs /\ plugs' = plugs + 1 /\ connect(p, plugs + 1)
unplug(p) == port[p] # 0 /\ connect(p, 0) /\ UNCHANGED plugs

----------------------------------------------------------------------------
\* The machine boots with a device on one port; the first poller runs
\* probe() before any other thread exists.
Init ==
    /\ port = [p \in Ports |-> IF p = AtBoot THEN 1 ELSE 0]
    /\ plugs = 1
    /\ slots = [s \in Slots |-> NoSlot]
    /\ dcbaa = [s \in Slots |-> 0]
    /\ input = [port |-> 0, ep0 |-> 0, ring |-> 0]
    /\ cmds = <<>>
    /\ events = [i \in 0..(EventRing - 1) |-> [cycle |-> 0, ev |-> NoEvent]]
    /\ producer = [at |-> 0, cycle |-> 1]
    /\ drv = [slot_id |-> 0, ctx |-> 0, ep0 |-> 0, keyboards |-> <<>>, scanned |-> {},
              dequeue |-> 0, cycle |-> 1, cmdat |-> 0, ep0at |-> 0]
    /\ task = [Idle EXCEPT !.at = "scan", !.port = 1]
    /\ has \in {{t} : t \in Pollers}
    /\ pc = [t \in Pollers |-> IF t \in has THEN "in" ELSE "out"]
    /\ registry = FALSE /\ polling = FALSE /\ boot = TRUE /\ due = TRUE
    /\ free = Frames
    /\ mem = [f \in Frames |-> 0]
    /\ trbs = [f \in Frames |-> EmptyRing]
    /\ sent = [g \in Devices |-> 0] /\ seen = sent
    /\ misread = FALSE /\ faults = 0

Poller(t) ==
    \/ poll(t) \/ take(t) \/ drain(t) \/ poll_root_ports(t) \/ scan_port(t)
    \/ begin_setup(t) \/ reset_port(t) \/ wait(t) \/ time_out(t) \/ put(t) \/ clear(t)

Controller ==
    \/ \E refused \in BOOLEAN : execute(refused)
    \/ \E s \in Slots : \/ \E refused \in BOOLEAN : control(s, refused)
                        \/ report(s) \/ transfer_error(s)

Next ==
    \/ \E t \in Pollers : Poller(t)
    \/ Controller
    \/ \E p \in Ports : plug(p) \/ unplug(p)
    \/ tick

\* Threads are scheduled, time passes, and the controller gets round to
\* every command and every transfer of a present device.  (tick is strong
\* only because it is confined to the gaps between polls.)
Fairness ==
    /\ \A t \in Pollers : WF_vars(Poller(t))
    /\ WF_vars(execute(FALSE))
    /\ \A s \in Slots : WF_vars(control(s, FALSE))
    /\ SF_vars(tick)

XhciSafe == Init /\ [][Next]_vars
XhciFair == XhciSafe /\ Fairness

----------------------------------------------------------------------------
(* Properties                                                              *)

\* Frames the controller reaches through an enabled slot: its output
\* context, its EP0 ring, its keyboard ring and the buffers of the reads
\* still posted there.
Reached(s) ==
    IF ~slots[s].on THEN {}
    ELSE ({dcbaa[s], slots[s].ep0, slots[s].ring} \ {0})
         \cup (IF slots[s].ring = 0 THEN {} ELSE
               {trbs[slots[s].ring][i].buf : i \in 0..(KeyRing - 2)} \ {0})

\* cleanup_failed_setup and free_keyboard: whatever was refused or came
\* late, no frame an enabled slot can still reach by DMA is free, and no
\* two slots reach the same frame.
DmaSafe ==
    /\ \A s \in Slots : Reached(s) \cap free = {}
    /\ \A s1, s2 \in Slots : s1 # s2 => Reached(s1) \cap Reached(s2) = {}

\* The device's reports wait in the event ring in the order they were sent.
InFlight(g) ==
    Cardinality({i \in 0..(EventRing - 1) :
        LET ev == events[i].ev IN ev.type = "xfer" /\ ev.ok /\ ev.dci = 3
                                  /\ ev.rep \div (MaxReports + 1) = g})

\* dispatch_keyboard_event: although a keyboard never looks at the address
\* in an event, each report is translated once, in the order sent, from the
\* buffer it was written to; while a keyboard is driven no report is lost.
ReportsInOrder ==
    /\ ~misread
    /\ \A i \in DOMAIN drv.keyboards :
          LET s == drv.keyboards[i].slot
              g == slots[s].device
          IN  (slots[s].on /\ g # 0) => sent[g] = seen[g] + InFlight(g)

\* poll: however its callers interleave, the controller is in exactly one
\* place, the registry or the list of one poller; putting a list back never
\* overwrites it with an empty one.
ControllerKept == IF registry THEN has = {} ELSE Cardinality(has) = 1

\* Module comment of xhci.rs: "Each matching device is kept in its own xHCI
\* slot", with root ports rescanned for hot-plug.  Once plugging stops, the
\* slot of every keyboard on a connected port is the slot of the device
\* that is connected there, and no two keyboards share it.
OwnSlot ==
    <>[](\A i \in DOMAIN drv.keyboards :
            LET kb == drv.keyboards[i]
            IN  port[kb.port] # 0 =>
                   /\ slots[kb.slot].on /\ slots[kb.slot].device = port[kb.port]
                   /\ \A j \in DOMAIN drv.keyboards : i # j => drv.keyboards[j].slot # kb.slot)
============================================================================
