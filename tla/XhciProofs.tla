---------------------------- MODULE XhciProofs ----------------------------
(***************************************************************************)
(* poll() of xhci.rs takes the list of controllers out of the registry,    *)
(* works on it without a lock and puts it back.  For any number of callers *)
(* the controller is never in two places and never lost.                   *)
(***************************************************************************)
EXTENDS Xhci, FiniteSetTheorems, TLAPS

Places == {"out", "take", "in", "clear"}

\* ControllerKept is not inductive: that the list being put back is never
\* empty rests on POLLING letting one caller past, and on probe() running
\* before anybody polls.
EntryInv ==
    /\ pc \in [Pollers -> Places] /\ has \subseteq Pollers
    /\ registry \in BOOLEAN /\ polling \in BOOLEAN /\ boot \in BOOLEAN
    /\ \A t \in Pollers : t \in has <=> pc[t] = "in"
    /\ \A t, u \in Pollers : (pc[t] # "out" /\ pc[u] # "out") => t = u
    /\ \A t \in Pollers : (pc[t] # "out" /\ ~polling) => boot
    /\ boot => ~polling /\ \A t \in Pollers : pc[t] \in {"out", "in"}
    /\ registry <=> has = {}

\* When the first poller runs probe() the list is its own and the registry
\* is empty.
LEMMA ProbeStarts == Init => EntryInv
<1> SUFFICES ASSUME Init PROVE EntryInv
  OBVIOUS
<1>1. PICK b \in Pollers : has = {b}
  BY Zenon DEF Init
<1>2. /\ pc = [t \in Pollers |-> IF t \in has THEN "in" ELSE "out"]
      /\ registry = FALSE /\ polling = FALSE /\ boot = TRUE
  BY Zenon DEF Init
<1>3. pc \in [Pollers -> Places]
  BY <1>2, SMTT(30) DEF Places
<1>4. pc[b] = "in" /\ \A t \in Pollers : t # b => pc[t] = "out"
  BY <1>1, <1>2, SMTT(30)
<1> QED
  BY <1>1, <1>2, <1>3, <1>4, Zenon DEF EntryInv

\* One caller moves: the others are all outside before and after.
LEMMA OneMoves ==
  ASSUME EntryInv, NEW t \in Pollers, NEW x \in Places, pc[t] # "out" \/ (~polling /\ ~boot),
         pc' = [pc EXCEPT ![t] = x]
  PROVE  /\ pc' \in [Pollers -> Places] /\ pc'[t] = x
         /\ \A u \in Pollers : u # t => pc[u] = "out" /\ pc'[u] = "out"
<1>1. pc \in [Pollers -> Places]
  BY Zenon DEF EntryInv
<1>2. \A u \in Pollers : u # t => pc[u] = "out"
  BY Zenon DEF EntryInv
<1> QED
  BY <1>1, <1>2, SMTT(30)

\* poll: with POLLING clear after boot nobody is past the check.
LEMMA PollOK == ASSUME EntryInv, NEW t \in Pollers, poll(t) PROVE EntryInv'
<1>1. /\ ~boot /\ pc[t] = "out" /\ ~polling
      /\ polling' = TRUE /\ pc' = [pc EXCEPT ![t] = "take"]
      /\ has' = has /\ registry' = registry /\ boot' = boot
  BY Zenon DEF poll
<1>2. "take" \in Places
  BY Zenon DEF Places
<1>3. /\ pc' \in [Pollers -> Places] /\ pc'[t] = "take"
      /\ \A u \in Pollers : u # t => pc[u] = "out" /\ pc'[u] = "out"
  BY <1>1, <1>2, OneMoves, Zenon
<1> QED
  BY <1>1, <1>3, Zenon DEF EntryInv

\* mem::take: whoever is about to take the list finds it in the registry.
LEMMA TakeOK == ASSUME EntryInv, NEW t \in Pollers, take(t) PROVE EntryInv'
<1>1. /\ pc[t] = "take" /\ pc' = [pc EXCEPT ![t] = "in"]
      /\ has' = IF registry THEN has \cup {t} ELSE has
      /\ registry' = FALSE /\ polling' = polling /\ boot' = boot
  BY Zenon DEF take
<1>2. has = {}
  BY <1>1, SMTT(30) DEF EntryInv
<1>3. registry
  BY <1>2, Zenon DEF EntryInv
<1>4. "in" \in Places
  BY Zenon DEF Places
<1>5. /\ pc' \in [Pollers -> Places] /\ pc'[t] = "in"
      /\ \A u \in Pollers : u # t => pc[u] = "out" /\ pc'[u] = "out"
  BY <1>1, <1>4, OneMoves, Zenon
<1> QED
  BY <1>1, <1>2, <1>3, <1>5, Zenon DEF EntryInv

\* The end of poll() and of probe(): the caller holds the whole list.
LEMMA PutOK == ASSUME EntryInv, NEW t \in Pollers, put(t) PROVE EntryInv'
<1>1. /\ pc[t] = "in" /\ registry' = (t \in has) /\ has' = has \ {t}
      /\ pc' = [pc EXCEPT ![t] = IF boot THEN "out" ELSE "clear"]
      /\ boot' = FALSE /\ polling' = polling
  BY Zenon DEF put
<1>2. has = {t}
  BY <1>1, SMTT(30) DEF EntryInv
<1>3. (IF boot THEN "out" ELSE "clear") \in Places
  BY Zenon DEF Places
<1>4. /\ pc' \in [Pollers -> Places] /\ pc'[t] = IF boot THEN "out" ELSE "clear"
      /\ \A u \in Pollers : u # t => pc[u] = "out" /\ pc'[u] = "out"
  BY <1>1, <1>3, OneMoves, Zenon
<1>5. has' = {} /\ registry' = TRUE
  BY <1>1, <1>2, Zenon
<1> QED
  BY <1>1, <1>4, <1>5, Zenon DEF EntryInv

\* POLLING is cleared by the one caller that set it.
LEMMA ClearOK == ASSUME EntryInv, NEW t \in Pollers, clear(t) PROVE EntryInv'
<1>1. /\ pc[t] = "clear" /\ polling' = FALSE /\ pc' = [pc EXCEPT ![t] = "out"]
      /\ has' = has /\ registry' = registry /\ boot' = boot
  BY Zenon DEF clear
<1>2. "out" \in Places
  BY Zenon DEF Places
<1>3. /\ pc' \in [Pollers -> Places] /\ pc'[t] = "out"
      /\ \A u \in Pollers : u # t => pc[u] = "out" /\ pc'[u] = "out"
  BY <1>1, <1>2, OneMoves, Zenon
<1> QED
  BY <1>1, <1>3, Zenon DEF EntryInv

\* Nothing else touches the registry, the lists or POLLING: not the work
\* between take and put, not the controller, the devices or the clock.
LEMMA ElsewhereUntouched ==
  ASSUME Next, \A t \in Pollers : ~(poll(t) \/ take(t) \/ put(t) \/ clear(t))
  PROVE  UNCHANGED entry
<1>1. CASE \E t \in Pollers : Poller(t)
  <2>1. PICK t \in Pollers : Poller(t)
    BY <1>1, Zenon
  <2>2. \/ drain(t) \/ poll_root_ports(t) \/ scan_port(t) \/ begin_setup(t)
        \/ reset_port(t) \/ wait(t) \/ time_out(t)
    BY <2>1, Zenon DEF Poller
  <2>3. drain(t) => UNCHANGED entry
    BY Zenon DEF drain
  <2>4. poll_root_ports(t) => UNCHANGED entry
    BY Zenon DEF poll_root_ports
  <2>5. scan_port(t) => UNCHANGED entry
    BY Zenon DEF scan_port
  <2>6. begin_setup(t) => UNCHANGED entry
    BY Zenon DEF begin_setup
  <2>7. reset_port(t) => UNCHANGED entry
    BY Zenon DEF reset_port
  <2>8. wait(t) => UNCHANGED entry
    BY Zenon DEF wait
  <2>9. time_out(t) => UNCHANGED entry
    BY Zenon DEF time_out
  <2> QED
    BY <2>2, <2>3, <2>4, <2>5, <2>6, <2>7, <2>8, <2>9, Zenon
<1>2. CASE Controller
  <2>1. \A refused : execute(refused) => UNCHANGED entry
    BY Zenon DEF execute, software
  <2>2. \A s, refused : control(s, refused) => UNCHANGED entry
    BY Zenon DEF control, software
  <2>3. \A s : report(s) => UNCHANGED entry
    BY Zenon DEF report, software
  <2>4. \A s : transfer_error(s) => UNCHANGED entry
    BY Zenon DEF transfer_error, software
  <2> QED
    BY <1>2, <2>1, <2>2, <2>3, <2>4, Zenon DEF Controller
<1>3. CASE \E p \in Ports : plug(p) \/ unplug(p)
  BY <1>3, Zenon DEF plug, unplug, connect, software
<1>4. CASE tick
  BY <1>4, Zenon DEF tick
<1> QED
  BY <1>1, <1>2, <1>3, <1>4, Zenon DEF Next

\* Every step, of whatever caller, keeps the invariant.
LEMMA EntryStep == EntryInv /\ [Next]_vars => EntryInv'
<1> SUFFICES ASSUME EntryInv, [Next]_vars PROVE EntryInv'
  OBVIOUS
<1>1. CASE \E t \in Pollers : poll(t) \/ take(t) \/ put(t) \/ clear(t)
  BY <1>1, PollOK, TakeOK, PutOK, ClearOK, Zenon
<1>2. CASE UNCHANGED entry
  BY <1>2, Zenon DEF entry, EntryInv
<1>3. CASE UNCHANGED vars
  <2>1. UNCHANGED entry
    BY <1>3, Zenon DEF vars, entry
  <2> QED
    BY <1>2, <2>1, Zenon
<1> QED
  BY <1>1, <1>2, <1>3, ElsewhereUntouched, Zenon

\* The invariant says where the controller is.
LEMMA OnePlace == EntryInv => ControllerKept
<1> SUFFICES ASSUME EntryInv, ~registry PROVE Cardinality(has) = 1
  BY Zenon DEF EntryInv, ControllerKept
<1>1. PICK t \in Pollers : t \in has
  BY Zenon DEF EntryInv
<1>2. has = {t}
  BY <1>1, SMTT(30) DEF EntryInv
<1> QED
  BY <1>2, FS_Singleton, Zenon

\* poll: however any number of callers interleave, with each other, with
\* probe() and with the controller, the controller is in exactly one place.
THEOREM PollKeepsController == XhciSafe => []ControllerKept
<1>1. XhciSafe => []EntryInv
  BY ProbeStarts, EntryStep, PTL DEF XhciSafe
<1> QED
  BY <1>1, OnePlace, PTL
============================================================================
