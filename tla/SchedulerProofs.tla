--------------------------- MODULE SchedulerProofs ---------------------------
(***************************************************************************)
(* The scheduler's safety properties for any number of threads, stack      *)
(* slots and wait queues, any time slice and any sleep times.              *)
(***************************************************************************)
EXTENDS Scheduler, TLAPS

-----------------------------------------------------------------------------
(* What the operations on queues and free lists do to the elements of a
   sequence (its Range) and to its having each element once (IsInjective). *)

(* The elements of a sequence, by their positions. *)
LEMMA RangeElements ==
  ASSUME NEW S, NEW s \in Seq(S)
  PROVE  /\ DOMAIN s = 1..Len(s) /\ Len(s) \in Nat /\ Range(s) \subseteq S
         /\ \A i \in 1..Len(s) : s[i] \in Range(s)
         /\ \A x \in Range(s) : \E i \in 1..Len(s) : s[i] = x
  BY SMTT(30) DEF Range

(* The empty sequence has no elements, and no other sequence has none. *)
LEMMA RangeEmpty ==
  /\ Range(<<>>) = {} /\ IsInjective(<<>>)
  /\ \A S : \A s \in Seq(S) : Range(s) = {} => s = <<>>
<1>1. Range(<<>>) = {} /\ IsInjective(<<>>)
  BY SMTT(30) DEF Range, IsInjective
<1>2. ASSUME NEW S, NEW s \in Seq(S), Range(s) = {} PROVE s = <<>>
  <2>1. SUFFICES ASSUME s # <<>> PROVE FALSE
    BY Zenon
  <2>2. 1 \in 1..Len(s)
    BY <2>1, SMTT(30)
  <2> QED BY <1>2, <2>2, RangeElements, Zenon
<1> QED BY <1>1, <1>2, Zenon

(* Appending. *)
LEMMA RangeAppend ==
  ASSUME NEW S, NEW s \in Seq(S), NEW x \in S
  PROVE  /\ Append(s, x) \in Seq(S)
         /\ Range(Append(s, x)) = Range(s) \cup {x}
         /\ IsInjective(s) /\ x \notin Range(s) => IsInjective(Append(s, x))
<1> DEFINE a == Append(s, x)
<1>1. /\ a \in Seq(S) /\ Len(a) = Len(s) + 1 /\ a[Len(s) + 1] = x
      /\ \A i \in 1..Len(s) : a[i] = s[i]
  BY SMTT(30)
<1> HIDE DEF a
<1>2. /\ DOMAIN a = 1..(Len(s) + 1) /\ DOMAIN s = 1..Len(s) /\ Len(s) \in Nat
  BY <1>1, RangeElements, Zenon
<1>3. Range(a) = Range(s) \cup {x}
  <2>1. ASSUME NEW y \in Range(a) PROVE y \in Range(s) \cup {x}
    BY <2>1, <1>1, <1>2, SMTT(30) DEF Range
  <2>2. ASSUME NEW y \in Range(s) PROVE y \in Range(a)
    BY <2>2, <1>1, <1>2, SMTT(30) DEF Range
  <2>3. x \in Range(a)
    BY <1>1, <1>2, SMTT(30) DEF Range
  <2> QED BY <2>1, <2>2, <2>3, Zenon
<1>4. ASSUME IsInjective(s), x \notin Range(s) PROVE IsInjective(a)
  <2>1. \A i \in 1..Len(s) : s[i] # x
    BY <1>4, <1>2, Zenon DEF Range
  <2> QED BY <1>1, <1>2, <1>4, <2>1, SMTT(30) DEF IsInjective
<1> QED BY <1>1, <1>3, <1>4, Zenon DEF a

(* Concatenation of sequences without common elements. *)
LEMMA RangeConcat ==
  ASSUME NEW S, NEW s \in Seq(S), NEW t \in Seq(S)
  PROVE  /\ s \o t \in Seq(S)
         /\ Range(s \o t) = Range(s) \cup Range(t)
         /\ IsInjective(s) /\ IsInjective(t) /\ Range(s) \cap Range(t) = {}
              => IsInjective(s \o t)
<1> DEFINE c == s \o t
<1>1. /\ c \in Seq(S) /\ Len(c) = Len(s) + Len(t)
      /\ \A i \in 1..(Len(s) + Len(t)) : c[i] = IF i <= Len(s) THEN s[i] ELSE t[i - Len(s)]
  BY SMTT(30)
<1> HIDE DEF c
<1>2. /\ DOMAIN c = 1..(Len(s) + Len(t)) /\ DOMAIN s = 1..Len(s) /\ DOMAIN t = 1..Len(t)
      /\ Len(s) \in Nat /\ Len(t) \in Nat
  BY <1>1, RangeElements, Zenon
<1>3. \A k \in DOMAIN c : \/ k \in DOMAIN s /\ c[k] = s[k]
                          \/ k > Len(s) /\ k - Len(s) \in DOMAIN t /\ c[k] = t[k - Len(s)]
  BY <1>1, <1>2, SMTT(30)
<1>4. Range(c) = Range(s) \cup Range(t)
  <2>1. Range(c) \subseteq Range(s) \cup Range(t)
    BY <1>3, Zenon DEF Range
  <2>2. ASSUME NEW k \in DOMAIN s PROVE s[k] \in Range(c)
    <3>1. k \in DOMAIN c /\ c[k] = s[k]
      BY <1>1, <1>2, SMTT(30)
    <3> QED BY <3>1, Zenon DEF Range
  <2>3. ASSUME NEW l \in DOMAIN t PROVE t[l] \in Range(c)
    <3>1. Len(s) + l \in DOMAIN c /\ c[Len(s) + l] = t[l]
      BY <1>1, <1>2, SMTT(30)
    <3> QED BY <3>1, Zenon DEF Range
  <2> QED BY <2>1, <2>2, <2>3, Zenon DEF Range
<1>5. ASSUME IsInjective(s), IsInjective(t), Range(s) \cap Range(t) = {},
             NEW i \in DOMAIN c, NEW j \in DOMAIN c, c[i] = c[j]
      PROVE  i = j
  <2>1. \A k \in 1..Len(s), l \in 1..Len(t) : s[k] # t[l]
    BY <1>5, RangeElements, Zenon
  <2>2. CASE i \in DOMAIN s /\ j \in DOMAIN s
    BY <1>2, <1>3, <1>5, <2>2, SMTT(30) DEF IsInjective
  <2>3. CASE i \notin DOMAIN s /\ j \notin DOMAIN s
    <3>1. i - Len(s) \in DOMAIN t /\ j - Len(s) \in DOMAIN t /\ t[i - Len(s)] = t[j - Len(s)]
      BY <1>3, <1>5, <2>3, Zenon
    <3>2. i - Len(s) = j - Len(s)
      BY <1>5, <3>1, Zenon DEF IsInjective
    <3> QED BY <1>2, <3>2, SMTT(30)
  <2> QED BY <1>2, <1>3, <1>5, <2>1, <2>2, <2>3, SMTT(30)
<1> QED BY <1>1, <1>4, <1>5, Zenon DEF c, IsInjective

(* A sequence without repetitions splits into two without common elements. *)
LEMMA RangeSplit ==
  ASSUME NEW S, NEW s \in Seq(S), IsInjective(s), NEW n \in 0..Len(s)
  PROVE  LET a == SubSeq(s, 1, n)
             b == SubSeq(s, n + 1, Len(s))
         IN  /\ a \in Seq(S) /\ b \in Seq(S) /\ IsInjective(a) /\ IsInjective(b)
             /\ Range(s) = Range(a) \cup Range(b) /\ Range(a) \cap Range(b) = {}
<1> DEFINE a == SubSeq(s, 1, n)
           b == SubSeq(s, n + 1, Len(s))
<1>1. Len(s) \in Nat /\ n \in Nat /\ n <= Len(s) /\ DOMAIN s = 1..Len(s)
      /\ \A i \in 1..Len(s) : s[i] \in S
  BY RangeElements, SMTT(30)
<1>2. a \in Seq(S) /\ Len(a) = n /\ \A i \in 1..n : a[i] = s[i]
  BY <1>1, SMTT(30)
<1>3. b \in Seq(S) /\ Len(b) = Len(s) - n /\ \A i \in 1..(Len(s) - n) : b[i] = s[n + i]
  <2> DEFINE m == n + 1
             l == Len(s)
  <2>1. m \in Int /\ l \in Int /\ \A i \in m..l : s[i] \in S
    BY <1>1, SMTT(30)
  <2>2. m = n + 1 /\ l = Len(s) /\ b = SubSeq(s, m, l)
    BY Zenon
  <2> HIDE DEF m, l, b
  <2>3. /\ b \in Seq(S) /\ Len(b) = IF m <= l THEN l - m + 1 ELSE 0
        /\ \A i \in 1..(l - m + 1) : b[i] = s[m + i - 1]
    BY <2>1, <2>2, SMTT(30)
  <2>4. l - m + 1 = Len(s) - n /\ Len(b) = Len(s) - n
    <3>1. l \in Nat /\ n \in Nat /\ n <= l /\ m = n + 1 /\ l = Len(s)
      BY <1>1, <2>2, Zenon
    <3>2. CASE m <= l
      BY <3>1, <3>2, <2>3, SMTT(30)
    <3>3. CASE ~(m <= l)
      BY <3>1, <3>3, <2>3, SMTT(30)
    <3> QED BY <3>2, <3>3, Zenon
  <2>5. ASSUME NEW i \in 1..(Len(s) - n) PROVE b[i] = s[n + i]
    <3>1. m + i - 1 = n + i
      BY <1>1, <2>2, SMTT(30)
    <3>2. i \in 1..(l - m + 1)
      BY <2>4, Zenon
    <3>3. b[i] = s[m + i - 1]
      BY <2>3, <3>2, Zenon
    <3> QED BY <3>1, <3>3, Zenon
  <2> QED BY <2>3, <2>4, <2>5, Zenon
<1> HIDE DEF a, b
<1>4. DOMAIN a = 1..n /\ DOMAIN b = 1..(Len(s) - n)
  BY <1>2, <1>3, RangeElements, Zenon
<1>5. \A i \in DOMAIN a : i \in DOMAIN s /\ i <= n /\ a[i] = s[i]
  BY <1>1, <1>2, <1>4, SMTT(30)
<1>6. \A i \in DOMAIN b : n + i \in DOMAIN s /\ n + i > n /\ b[i] = s[n + i]
  BY <1>1, <1>3, <1>4, SMTT(30)
<1>7. IsInjective(a) /\ IsInjective(b)
  <2>1. IsInjective(a)
    BY <1>5, Zenon DEF IsInjective
  <2>2. ASSUME NEW i \in DOMAIN b, NEW j \in DOMAIN b, b[i] = b[j] PROVE i = j
    <3>1. n + i = n + j
      BY <1>6, <2>2, Zenon DEF IsInjective
    <3> QED BY <3>1, <1>1, <1>4, SMTT(30)
  <2> QED BY <2>1, <2>2, Zenon DEF IsInjective
<1>8. Range(a) \cap Range(b) = {}
  <2> SUFFICES ASSUME NEW i \in DOMAIN a, NEW j \in DOMAIN b, a[i] = b[j] PROVE FALSE
    BY Zenon DEF Range
  <2>1. i = n + j
    BY <1>5, <1>6, ZenonT(30) DEF IsInjective
  <2> QED BY <2>1, <1>5, <1>6, <1>1, SMTT(30)
<1>9. ASSUME NEW x \in Range(s) PROVE x \in Range(a) \cup Range(b)
  <2>1. PICK i \in 1..Len(s) : x = s[i]
    BY <1>1, Zenon DEF Range
  <2>2. CASE i <= n
    BY <1>1, <2>1, <2>2, <1>2, <1>4, SMTT(30) DEF Range
  <2>3. CASE i > n
    <3>1. i - n \in DOMAIN b /\ n + (i - n) = i
      BY <1>1, <1>4, <2>1, <2>3, SMTT(30)
    <3>2. b[i - n] = x
      BY <1>6, <2>1, <3>1, Zenon
    <3> QED BY <3>1, <3>2, Zenon DEF Range
  <2> QED BY <1>1, <2>2, <2>3, SMTT(30)
<1>10. Range(a) \subseteq Range(s) /\ Range(b) \subseteq Range(s)
  BY <1>5, <1>6, Zenon DEF Range
<1> QED BY <1>2, <1>3, <1>7, <1>8, <1>9, <1>10, Zenon DEF a, b

(* The head and the tail, and the last element and the front. *)
LEMMA RangeHeadTail ==
  ASSUME NEW S, NEW s \in Seq(S), IsInjective(s), s # <<>>
  PROVE  /\ Head(s) \in Range(s) /\ Head(s) \in S /\ Tail(s) \in Seq(S)
         /\ Range(Tail(s)) = Range(s) \ {Head(s)} /\ IsInjective(Tail(s))
         /\ s[Len(s)] \in Range(s) /\ s[Len(s)] \in S /\ SubSeq(s, 1, Len(s) - 1) \in Seq(S)
         /\ Range(SubSeq(s, 1, Len(s) - 1)) = Range(s) \ {s[Len(s)]} /\ IsInjective(SubSeq(s, 1, Len(s) - 1))
<1> DEFINE n == Len(s)
           front == SubSeq(s, 1, n - 1)
<1>1. /\ n \in Nat /\ n >= 1 /\ n - 1 \in 0..n /\ 1 \in 0..n /\ DOMAIN s = 1..n
      /\ Head(s) = s[1] /\ s[1] \in Range(s) /\ s[n] \in Range(s)
      /\ Range(s) \subseteq S
  BY RangeElements, SMTT(30)
<1>2. Tail(s) = SubSeq(s, 1 + 1, n)
  BY SMTT(30)
<1>3. ASSUME NEW i \in 1..n PROVE Range(SubSeq(s, i, i)) = {s[i]}
  <2>1. i \in Int /\ \A j \in i..i : s[j] \in S /\ j = i
    BY <1>1, RangeElements, SMTT(30)
  <2>2. /\ SubSeq(s, i, i) \in Seq(S) /\ Len(SubSeq(s, i, i)) = i - i + 1
        /\ \A j \in 1..(i - i + 1) : SubSeq(s, i, i)[j] = s[i + j - 1]
    BY <2>1, SMTT(30)
  <2>3. Len(SubSeq(s, i, i)) = 1 /\ SubSeq(s, i, i)[1] = s[i]
    BY <2>1, <2>2, SMTT(30)
  <2>4. DOMAIN SubSeq(s, i, i) = {1}
    BY <2>2, <2>3, RangeElements, SMTT(30)
  <2> QED BY <2>3, <2>4, Zenon DEF Range
<1>4. (n - 1) + 1 = n /\ 1 \in 1..n /\ n \in 1..n
  BY <1>1, SMTT(30)
<1>5. /\ Tail(s) \in Seq(S) /\ IsInjective(Tail(s))
      /\ Range(s) = Range(SubSeq(s, 1, 1)) \cup Range(Tail(s))
      /\ Range(SubSeq(s, 1, 1)) \cap Range(Tail(s)) = {}
  <2>1. /\ SubSeq(s, 1 + 1, n) \in Seq(S) /\ IsInjective(SubSeq(s, 1 + 1, n))
        /\ Range(s) = Range(SubSeq(s, 1, 1)) \cup Range(SubSeq(s, 1 + 1, n))
        /\ Range(SubSeq(s, 1, 1)) \cap Range(SubSeq(s, 1 + 1, n)) = {}
    BY <1>1, RangeSplit, Zenon
  <2> QED BY <2>1, <1>2, Zenon
<1>6. /\ front \in Seq(S) /\ IsInjective(front)
      /\ Range(s) = Range(front) \cup Range(SubSeq(s, n, n))
      /\ Range(front) \cap Range(SubSeq(s, n, n)) = {}
  <2>1. /\ SubSeq(s, 1, n - 1) \in Seq(S) /\ IsInjective(SubSeq(s, 1, n - 1))
        /\ Range(s) = Range(SubSeq(s, 1, n - 1)) \cup Range(SubSeq(s, (n - 1) + 1, n))
        /\ Range(SubSeq(s, 1, n - 1)) \cap Range(SubSeq(s, (n - 1) + 1, n)) = {}
    BY <1>1, RangeSplit, Zenon
  <2> QED BY <2>1, <1>2, <1>4, Zenon
<1> QED BY <1>1, <1>3, <1>4, <1>5, <1>6, Zenon

(* A bijection from 1..n lists each element of its range once. *)
LEMMA Orderings ==
  ASSUME NEW S, NEW n \in Nat, NEW f \in Bijection(1..n, S)
  PROVE  f \in Seq(S) /\ Range(f) = S /\ IsInjective(f)
<1>1. f \in [1..n -> S] /\ IsInjective(f) /\ \A t \in S : \E s \in 1..n : f[s] = t
  BY Zenon DEF Bijection, Injection, Surjection
<1> QED BY <1>1, SMTT(30) DEF Range

-----------------------------------------------------------------------------
(* The inductive invariant *)

(* Ids are handed out in order; every thread but the boot thread has a stack
   slot; address spaces belong to threads that were given one. *)
IdsInOrder ==
  /\ SlotOwners \subseteq 0..(next_id - 1) /\ user \subseteq 2..(next_id - 1)
  /\ \A t \in SlotOwners \ {BootId} : stack_slot[t] # None

(* A thread under construction is a local of one creator and nothing else. *)
ChildrenApart ==
  \A t \in Tid :
    /\ child[t] # None <=> pc[t] = "create"
    /\ child[t] # None =>
         /\ child[t] >= 2 /\ child[t] \notin threads
         /\ \A s \in Tid : child[s] = child[t] => s = t

(* Only a thread inside wake_one or wake_all holds woken threads, and the idle
   thread is never inside a call. *)
WokenInside == pc[IdleId] = "run" /\ \A t \in Tid : pc[t] # "wake" => woken[t] = <<>>

(* CR3 and TSS.rsp0 follow the current thread, already during a switch. *)
CpuFollows ==
  /\ cr3 = IF current \in user THEN current ELSE None
  /\ current \in user => rsp0 = stack_slot[current]
  /\ stack \in threads
  /\ phase # "switch" => stack = current
  /\ phase = "run" => zombies = {}

(* The inductive invariant. *)
IInv ==
  /\ TypeOK /\ OneHome /\ IdleAvailable /\ SlotsAccounted
  /\ IdsInOrder /\ ChildrenApart /\ WokenInside /\ CpuFollows

(* OneHome, place by place. *)
HomeParts ==
  /\ threads = {current} \cup Range(ready) \cup sleeping \cup ({idle} \ {None})
                 \cup zombies \cup Blocked \cup Limbo
  /\ {current} \cap (Range(ready) \cup sleeping \cup ({idle} \ {None}) \cup zombies
                      \cup Blocked \cup Limbo) = {}
  /\ Range(ready) \cap (sleeping \cup ({idle} \ {None}) \cup zombies \cup Blocked \cup Limbo) = {}
  /\ sleeping \cap (({idle} \ {None}) \cup zombies \cup Blocked \cup Limbo) = {}
  /\ ({idle} \ {None}) \cap (zombies \cup Blocked \cup Limbo) = {}
  /\ zombies \cap (Blocked \cup Limbo) = {}
  /\ Blocked \cap Limbo = {}
  /\ IsInjective(ready) /\ Separate(waiters) /\ Separate(woken)

(* The two forms of OneHome say the same. *)
LEMMA OneHomeParts == OneHome <=> HomeParts
<1> DEFINE C == {current}
           R == Range(ready)
           I == {idle} \ {None}
           H == <<C, R, sleeping, I, zombies, Blocked, Limbo>>
<1>1. Homes = H
  BY Zenon DEF Homes
<1>2. DOMAIN H = 1..7 /\ H[1] = C /\ H[2] = R /\ H[3] = sleeping /\ H[4] = I /\ H[5] = zombies /\ H[6] = Blocked /\ H[7] = Limbo
  BY SMTT(30)
<1> HIDE DEF H, C, R, I
<1>3. UNION Range(H) = C \cup R \cup sleeping \cup I \cup zombies \cup Blocked \cup Limbo
  BY <1>2, SMTT(30) DEF Range
<1>4. (\A i, j \in 1..7 : i # j => H[i] \cap H[j] = {}) <=>
        /\ C \cap (R \cup sleeping \cup I \cup zombies \cup Blocked \cup Limbo) = {}
        /\ R \cap (sleeping \cup I \cup zombies \cup Blocked \cup Limbo) = {}
        /\ sleeping \cap (I \cup zombies \cup Blocked \cup Limbo) = {}
        /\ I \cap (zombies \cup Blocked \cup Limbo) = {}
        /\ zombies \cap (Blocked \cup Limbo) = {}
        /\ Blocked \cap Limbo = {}
  BY <1>2, SMTT(30)
<1> QED BY <1>1, <1>3, <1>4, Zenon DEF OneHome, HomeParts, C, R, I

(* The same of the next state. *)
LEMMA OneHomePrimed == (OneHome' <=> HomeParts') /\ (OneHome' => current' \notin zombies')
<1>1. OneHome' <=> HomeParts'
  BY OneHomeParts, PTL
<1>2. HomeParts' => current' \notin zombies'
  BY Zenon DEF HomeParts
<1> QED BY <1>1, <1>2, Zenon

-----------------------------------------------------------------------------
(* None is not a thread. *)
LEMMA TidFacts ==
  /\ Tid \subseteq Nat /\ None \notin Tid
  /\ BootId \in Tid /\ IdleId \in Tid /\ BootId # IdleId
BY ConstAssumption, SMTT(30) DEF Tid, None, BootId, IdleId

(* A step that neither takes nor frees a stack slot, an id or an address space,
   though a thread may pass from its creator to the ready queue. *)
LEMMA SlotsKept ==
  ASSUME IInv, SlotOwners' = SlotOwners,
         UNCHANGED <<free_slots, next_slot, next_id, stack_slot, user>>
  PROVE  SlotsAccounted' /\ IdsInOrder'
<1> DEFINE K == SlotOwners
           T == {stack_slot[a] : a \in K} \ {None}
<1>1. SlotsAccounted <=>
        /\ IsInjective(free_slots)
        /\ \A a, b \in K : stack_slot[a] = stack_slot[b] /\ stack_slot[a] # None => a = b
        /\ \A a \in K : stack_slot[a] \notin Range(free_slots)
        /\ 0..(next_slot - 1) = Range(free_slots) \cup T
  BY Zenon DEF SlotsAccounted
<1>2. SlotsAccounted' <=>
        /\ IsInjective(free_slots')
        /\ \A a, b \in K' : stack_slot'[a] = stack_slot'[b] /\ stack_slot'[a] # None => a = b
        /\ \A a \in K' : stack_slot'[a] \notin Range(free_slots')
        /\ 0..(next_slot' - 1) = Range(free_slots') \cup T'
  BY Zenon DEF SlotsAccounted
<1>3. T' = T /\ K' = K
  BY Zenon
<1> HIDE DEF T, K
<1>4. SlotsAccounted'
  BY <1>1, <1>2, <1>3, Zenon DEF IInv
<1>5. IdsInOrder'
  BY Zenon DEF IInv, IdsInOrder
<1> QED BY <1>4, <1>5, Zenon

(* In particular a step that leaves all of `creation` alone. *)
LEMMA CreationKept == ASSUME IInv, UNCHANGED creation PROVE SlotsAccounted' /\ IdsInOrder'
<1>1. SlotOwners' = SlotOwners
  BY Zenon DEF SlotOwners, creation
<1> QED BY <1>1, SlotsKept, Zenon DEF creation

(* What every call of reschedule has in common: interrupts are off, and the
   idle thread only ever yields. *)
Switching(how, q, at) ==
  /\ phase = "run"
  /\ how \in {"Yield", "Sleep", "Exit", "Block"}
  /\ how = "Block" => q \in Queues
  /\ how # "Yield" => current # IdleId
  /\ reschedule(how, q, at)
  /\ \/ pc' = pc
     \/ pc[current] = "sleep" /\ pc' = [pc EXCEPT ![current] = "run"]
  /\ UNCHANGED <<creation, wake_at, woken>>
  /\ ticks' \in 0..MaxTicks

(* The threads reschedule chooses from, and the idle thread it parks. *)
Runnable(how, at) ==
  Range(ready) \cup Due(at) \cup (IF requeues(how) THEN {current} ELSE {})
Parked(how) == IF how = "Yield" /\ ~requeues(how) THEN current ELSE idle

(* reschedule picks a runnable thread if there is one, else the idle thread. *)
LEMMA Choice ==
  ASSUME IInv, NEW how, NEW q, NEW at, Switching(how, q, at)
  PROVE  /\ ready' \in Seq(Tid) /\ IsInjective(ready') /\ Parked(how) = IdleId
         /\ \/ /\ current' \in Runnable(how, at) /\ idle' = IdleId
               /\ Range(ready') = Runnable(how, at) \ {current'}
            \/ /\ Runnable(how, at) = {} /\ Range(ready') = {}
               /\ current' = IdleId /\ idle' = None
<1>1. PICK due \in Orders(Due(at)) :
        LET queued   == ready \o due
            runnable == IF requeues(how) THEN Append(queued, current) ELSE queued
            next     == IF runnable # <<>> THEN Head(runnable) ELSE Parked(how)
        IN  /\ ready' = IF runnable # <<>> THEN Tail(runnable) ELSE <<>>
            /\ idle' = IF runnable # <<>> THEN Parked(how) ELSE None
            /\ current' = next
  BY Zenon DEF Switching, reschedule, Parked
<1> DEFINE queued == ready \o due
           runnable == IF requeues(how) THEN Append(queued, current) ELSE queued
<1>2. /\ ready \in Seq(Tid) /\ IsInjective(ready) /\ current \in Tid
      /\ current \notin Range(ready) \cup Due(at) /\ Range(ready) \cap Due(at) = {}
      /\ Due(at) \subseteq Tid
  BY OneHomeParts, Zenon DEF HomeParts, IInv, TypeOK, Due
<1>3. due \in Seq(Tid) /\ Range(due) = Due(at) /\ IsInjective(due)
  <2>1. PICK n \in 0..(MaxId + 1) : due \in Bijection(1..n, Due(at))
    BY Zenon DEF Orders
  <2>2. due \in Seq(Due(at)) /\ Range(due) = Due(at) /\ IsInjective(due)
    BY <2>1, Orderings, SMTT(30)
  <2> QED BY <1>2, <2>2, SMTT(30)
<1>4. queued \in Seq(Tid) /\ Range(queued) = Range(ready) \cup Due(at) /\ IsInjective(queued)
  BY <1>2, <1>3, RangeConcat, SMTT(30)
<1> HIDE DEF queued
<1>5. runnable \in Seq(Tid) /\ Range(runnable) = Runnable(how, at) /\ IsInjective(runnable)
  <2>1. CASE requeues(how)
    BY <1>2, <1>4, <2>1, RangeAppend, SMTT(30) DEF Runnable
  <2>2. CASE ~requeues(how)
    BY <1>4, <2>2, Zenon DEF Runnable
  <2> QED BY <2>1, <2>2, Zenon
<1>6. Parked(how) = IdleId
  <2>1. current = IdleId \/ idle = IdleId
    BY Zenon DEF IInv, IdleAvailable
  <2> QED BY <2>1, Zenon DEF Parked, requeues, Switching
<1>7. /\ ready' = IF runnable # <<>> THEN Tail(runnable) ELSE <<>>
      /\ idle' = IF runnable # <<>> THEN Parked(how) ELSE None
      /\ current' = IF runnable # <<>> THEN Head(runnable) ELSE Parked(how)
  BY <1>1, Zenon DEF queued
<1> HIDE DEF runnable
<1>8. CASE runnable # <<>>
  BY <1>5, <1>6, <1>7, <1>8, RangeHeadTail, SMTT(30)
<1>9. CASE runnable = <<>>
  BY <1>5, <1>6, <1>7, <1>9, RangeEmpty, Zenon
<1> QED BY <1>8, <1>9, Zenon

(* Family g of sequences over S is f with its sequence at index a replaced by s,
   whose elements occur nowhere else. *)
Updates(S, D, f, a, s, g) ==
  /\ f \in [D -> Seq(S)] /\ Separate(f)
  /\ a \in D /\ s \in Seq(S) /\ IsInjective(s)
  /\ Range(s) \cap (Elements(f) \ Range(f[a])) = {}
  /\ g = [f EXCEPT ![a] = s]

(* Then g is again a family without repetitions, and its elements are known. *)
LEMMA FamilyUpdate ==
  ASSUME NEW S, NEW D, NEW f, NEW a, NEW s, NEW g, Updates(S, D, f, a, s, g)
  PROVE  /\ g \in [D -> Seq(S)] /\ Separate(g)
         /\ Elements(g) = (Elements(f) \ Range(f[a])) \cup Range(s)
<1>0. /\ f \in [D -> Seq(S)] /\ Separate(f) /\ a \in D /\ IsInjective(s)
      /\ Range(s) \cap (Elements(f) \ Range(f[a])) = {}
  BY Zenon DEF Updates
<1>1. DOMAIN f = D /\ DOMAIN g = D /\ g[a] = s /\ \A b \in D \ {a} : g[b] = f[b]
  BY Zenon DEF Updates
<1>2. g \in [D -> Seq(S)]
  BY Zenon DEF Updates
<1>3. ASSUME NEW b \in D \ {a} PROVE Range(f[b]) \cap Range(f[a]) = {} /\ Range(f[b]) \cap Range(s) = {}
  <2>1. Range(f[b]) \cap Range(f[a]) = {}
    BY <1>0, <1>1, <1>3, Zenon DEF Separate
  <2>2. Range(f[b]) \subseteq Elements(f)
    BY <1>0, <1>1, <1>3, Zenon DEF Elements
  <2> QED BY <1>0, <2>1, <2>2, Zenon
<1>4. Separate(g)
  <2> SUFFICES ASSUME NEW b \in D, NEW c \in D
               PROVE  IsInjective(g[b]) /\ (b # c => Range(g[b]) \cap Range(g[c]) = {})
    BY <1>0, <1>1, Zenon DEF Separate
  <2>1. IsInjective(f[b]) /\ (b # c => Range(f[b]) \cap Range(f[c]) = {})
    BY <1>0, <1>1, Zenon DEF Separate
  <2>2. CASE b = a
    BY <1>0, <1>1, <1>3, <2>2, SMTT(30)
  <2>3. CASE b # a /\ c = a
    BY <1>0, <1>1, <1>3, <2>1, <2>3, Zenon
  <2>4. CASE b # a /\ c # a
    BY <1>0, <1>1, <2>1, <2>4, SMTT(30)
  <2> QED BY <2>2, <2>3, <2>4, Zenon
<1>5. Elements(g) = (Elements(f) \ Range(f[a])) \cup Range(s)
  <2>1. ASSUME NEW x \in Elements(g) PROVE x \in (Elements(f) \ Range(f[a])) \cup Range(s)
    <3>1. PICK b \in D : x \in Range(g[b])
      BY <1>0, <1>1, Zenon DEF Elements
    <3>2. CASE b = a
      BY <1>0, <1>1, <3>1, <3>2, Zenon
    <3>3. CASE b # a
      <4>1. x \in Range(f[b]) /\ x \notin Range(f[a])
        BY <1>0, <1>1, <1>3, <3>1, <3>3, Zenon
      <4> QED BY <4>1, <1>1, Zenon DEF Elements
    <3> QED BY <3>2, <3>3, Zenon
  <2>2. ASSUME NEW x \in Elements(f), x \notin Range(f[a]) PROVE x \in Elements(g)
    <3>1. PICK b \in D : x \in Range(f[b])
      BY <1>0, <1>1, Zenon DEF Elements
    <3> QED BY <1>0, <1>1, <2>2, <3>1, Zenon DEF Elements
  <2>3. Range(s) \subseteq Elements(g)
    BY <1>0, <1>1, Zenon DEF Elements
  <2> QED BY <2>1, <2>2, <2>3, Zenon
<1> QED BY <1>2, <1>4, <1>5, Zenon

(* Where each thread is after reschedule. *)
LEMMA RescheduleHomes ==
  ASSUME IInv, NEW how, NEW q, NEW at, Switching(how, q, at)
  PROVE  /\ OneHome' /\ IdleAvailable' /\ threads' = threads /\ current' \in threads
         /\ waiters' \in [Queues -> Seq(Tid)]
         /\ ready' \in Seq(Tid) /\ idle' \in {IdleId, None} /\ current' \in Tid
<1> DEFINE R == Range(ready)
           D == Due(at)
           N == Runnable(how, at)
           S == IF how = "Sleep" THEN {current} ELSE {}
           E == IF how = "Exit" THEN {current} ELSE {}
           K == IF how = "Block" THEN {current} ELSE {}
           Y == IF requeues(how) THEN {current} ELSE {}
           I == {idle} \ {None}
           J == IF current = IdleId THEN {} ELSE {IdleId}
<1>1. /\ threads = {current} \cup R \cup sleeping \cup I \cup zombies \cup Blocked \cup Limbo
      /\ {current} \cap (R \cup sleeping \cup I \cup zombies \cup Blocked \cup Limbo) = {}
      /\ R \cap (sleeping \cup I \cup zombies \cup Blocked \cup Limbo) = {}
      /\ sleeping \cap (I \cup zombies \cup Blocked \cup Limbo) = {}
      /\ I \cap (zombies \cup Blocked \cup Limbo) = {}
      /\ zombies \cap (Blocked \cup Limbo) = {}
      /\ Blocked \cap Limbo = {}
      /\ Separate(waiters) /\ Separate(woken)
  BY OneHomeParts, Zenon DEF HomeParts, IInv
<1>2. /\ sleeping' = (sleeping \ D) \cup S /\ zombies' = zombies \cup E
      /\ threads' = threads /\ woken' = woken /\ Limbo' = Limbo /\ D \subseteq sleeping
  BY Zenon DEF Switching, reschedule, creation, Limbo, Due
<1>3. waiters' \in [Queues -> Seq(Tid)] /\ Separate(waiters') /\ Blocked' = Blocked \cup K
  <2>1. waiters \in [Queues -> Seq(Tid)] /\ current \in Tid
    BY Zenon DEF IInv, TypeOK
  <2>2. CASE how = "Block"
    <3>1. q \in Queues /\ waiters' = [waiters EXCEPT ![q] = Append(waiters[q], current)]
      BY <2>1, <2>2, Zenon DEF Switching, reschedule
    <3>2. waiters[q] \in Seq(Tid) /\ IsInjective(waiters[q]) /\ Range(waiters[q]) \subseteq Blocked
      BY <1>1, <2>1, <3>1, SMTT(30) DEF Separate, Blocked, Elements
    <3>3. /\ Append(waiters[q], current) \in Seq(Tid) /\ IsInjective(Append(waiters[q], current))
          /\ Range(Append(waiters[q], current)) = Range(waiters[q]) \cup {current}
      BY <1>1, <2>1, <3>2, RangeAppend, SMTT(30)
    <3>4. Range(Append(waiters[q], current)) \cap (Elements(waiters) \ Range(waiters[q])) = {}
      BY <1>1, <3>3, Zenon DEF Blocked
    <3> DEFINE s == Append(waiters[q], current)
    <3>5. Updates(Tid, Queues, waiters, q, s, waiters')
      BY <1>1, <2>1, <3>1, <3>3, <3>4, Zenon DEF Updates
    <3> HIDE DEF s
    <3>6. /\ waiters' \in [Queues -> Seq(Tid)] /\ Separate(waiters')
          /\ Elements(waiters') = (Elements(waiters) \ Range(waiters[q])) \cup Range(s)
      BY <3>5, FamilyUpdate, SMTT(30)
    <3> QED BY <2>2, <3>2, <3>3, <3>6, Zenon DEF Blocked, s
  <2>3. CASE how # "Block"
    BY <1>1, <2>1, <2>3, Zenon DEF Switching, reschedule, Blocked
  <2> QED BY <2>2, <2>3, Zenon
<1>4. /\ ready' \in Seq(Tid) /\ IsInjective(ready')
      /\ \/ current' \in N /\ idle' = IdleId /\ Range(ready') = N \ {current'}
         \/ N = {} /\ Range(ready') = {} /\ current' = IdleId /\ idle' = None
  BY Choice, Zenon
<1>5. N = R \cup D \cup Y
  BY Zenon DEF Runnable
<1>6. /\ I = J /\ IdleId # None
      /\ current # IdleId => \/ Y = {current} /\ S = {} /\ E = {} /\ K = {}
                             \/ Y = {} /\ S = {current} /\ E = {} /\ K = {}
                             \/ Y = {} /\ S = {} /\ E = {current} /\ K = {}
                             \/ Y = {} /\ S = {} /\ E = {} /\ K = {current}
      /\ current = IdleId => Y = {} /\ S = {} /\ E = {} /\ K = {}
  BY <1>1, TidFacts, ZenonT(60) DEF IInv, TypeOK, IdleAvailable, Switching, requeues
<1>7. current' \in threads /\ current' \in Tid
  <2>1. threads \subseteq Tid
    BY Zenon DEF IInv, TypeOK
  <2>2. IdleId \in threads
    BY <1>1, <1>6, Zenon
  <2> QED BY <1>1, <1>2, <1>4, <1>5, <2>1, <2>2, Zenon
<1>8. IdleAvailable' /\ idle' \in {IdleId, None}
  BY <1>4, Zenon DEF IdleAvailable
<1>9. ({idle} \ {None})' = IF idle' = None THEN {} ELSE {IdleId}
  BY <1>4, <1>6, Zenon DEF None
<1> HIDE DEF R, D, N, S, E, K, Y, I, J
<1>10. OneHome'
  <2>1. OneHome' <=> HomeParts'
    BY OneHomePrimed, Zenon
  <2> DEFINE J2 == ({idle} \ {None})'
  <2>2. HomeParts' <=>
          /\ threads' = {current'} \cup Range(ready') \cup sleeping' \cup J2 \cup zombies' \cup Blocked' \cup Limbo'
          /\ {current'} \cap (Range(ready') \cup sleeping' \cup J2 \cup zombies' \cup Blocked' \cup Limbo') = {}
          /\ Range(ready') \cap (sleeping' \cup J2 \cup zombies' \cup Blocked' \cup Limbo') = {}
          /\ sleeping' \cap (J2 \cup zombies' \cup Blocked' \cup Limbo') = {}
          /\ J2 \cap (zombies' \cup Blocked' \cup Limbo') = {}
          /\ zombies' \cap (Blocked' \cup Limbo') = {}
          /\ Blocked' \cap Limbo' = {}
          /\ IsInjective(ready') /\ Separate(waiters') /\ Separate(woken')
    BY Zenon DEF HomeParts
  <2>3. J2 = IF idle' = None THEN {} ELSE {IdleId}
    BY <1>9, Zenon
  <2> HIDE DEF J2
  <2>4. CASE current = IdleId
    BY <1>1, <1>2, <1>3, <1>4, <1>5, <1>6, <2>1, <2>2, <2>3, <2>4, SMTT(30) DEF J
  <2>5. CASE current # IdleId
    BY <1>1, <1>2, <1>3, <1>4, <1>5, <1>6, <2>1, <2>2, <2>3, <2>5, SMTT(30) DEF J
  <2> QED BY <2>4, <2>5, Zenon
<1> QED BY <1>2, <1>3, <1>4, <1>7, <1>8, <1>10, Zenon

(* reschedule preserves the invariant, whoever calls it. *)
LEMMA RescheduleOK ==
  ASSUME IInv, NEW how, NEW q, NEW at, Switching(how, q, at)
  PROVE  IInv'
<1>1. /\ OneHome' /\ IdleAvailable' /\ threads' = threads /\ current' \in threads
      /\ waiters' \in [Queues -> Seq(Tid)]
      /\ ready' \in Seq(Tid) /\ idle' \in {IdleId, None} /\ current' \in Tid
  BY RescheduleHomes, Zenon
<1>2. /\ free_slots' = free_slots /\ next_slot' = next_slot /\ next_id' = next_id
      /\ stack_slot' = stack_slot /\ user' = user /\ child' = child
      /\ wake_at' = wake_at /\ woken' = woken
  BY Zenon DEF Switching, creation
<1>3. /\ pc' \in [Tid -> Pc] /\ \A t \in Tid : pc'[t] = "create" <=> pc[t] = "create"
      /\ \A t \in Tid : pc'[t] # "wake" => pc[t] # "wake"
      /\ pc[IdleId] = "run" => pc'[IdleId] = "run"
  BY TidFacts, ZenonT(60) DEF Switching, IInv, TypeOK, Pc
<1>4. SlotOwners' = SlotOwners
  BY <1>1, <1>2, Zenon DEF SlotOwners
<1>5. SlotsAccounted' /\ IdsInOrder'
  BY <1>2, <1>4, SlotsKept, Zenon
<1>6. ChildrenApart' /\ WokenInside'
  BY <1>1, <1>2, <1>3, Zenon DEF IInv, ChildrenApart, WokenInside
<1>7. /\ cr3' = IF current' \in user THEN current' ELSE None
      /\ rsp0' = IF stack_slot[current'] # None THEN stack_slot[current'] ELSE rsp0
      /\ phase' = IF current' = current THEN "run" ELSE "switch"
      /\ stack' = stack /\ slice_ticks' = 0
      /\ zombies' = zombies \cup (IF how = "Exit" THEN {current} ELSE {})
      /\ sleeping' \subseteq sleeping \cup {current}
  BY SMTT(30) DEF Switching, reschedule, cr3_for, rsp0_for
<1>8. TypeOK'
  <2>1. sleeping' \subseteq Tid /\ zombies' \subseteq Tid
    BY <1>7, Zenon DEF IInv, TypeOK
  <2>2. cr3' \in Tid \cup {None} /\ rsp0' \in Slot \cup {None}
    BY <1>1, <1>7, Zenon DEF IInv, TypeOK
  <2>3. phase' \in Phase /\ stack' \in Tid /\ slice_ticks' \in 0..SliceTicks
    BY <1>7, ConstAssumption, SMTT(30) DEF IInv, TypeOK, Phase
  <2>4. ticks' \in 0..MaxTicks /\ threads' = threads
    BY <1>1, Zenon DEF Switching
  <2> QED BY <1>1, <1>2, <1>3, <2>1, <2>2, <2>3, <2>4, Zenon DEF IInv, TypeOK
<1>9. CpuFollows'
  <2>1. current' \in user => stack_slot[current'] # None
    BY <1>1, TidFacts, SMTT(30) DEF IInv, IdsInOrder, SlotOwners, BootId
  <2>2. stack \in threads /\ stack = current /\ zombies = {}
    BY Zenon DEF Switching, IInv, CpuFollows
  <2>3. phase' = "run" => zombies' = {}
    <3> SUFFICES ASSUME current' = current PROVE how # "Exit"
      BY <1>7, <2>2, Zenon
    <3>1. current' \notin zombies'
      BY <1>1, OneHomePrimed, Zenon
    <3> QED BY <3>1, <1>7, Zenon
  <2> QED BY <1>1, <1>2, <1>7, <2>1, <2>2, <2>3, Zenon DEF CpuFollows
<1> QED BY <1>1, <1>5, <1>6, <1>8, <1>9, Zenon DEF IInv

(* A step that moves no thread keeps every thread where it is. *)
LEMMA StayHome ==
  ASSUME IInv, UNCHANGED <<places, threads, woken>>
  PROVE  OneHome' /\ IdleAvailable'
<1>1. HomeParts
  BY OneHomeParts, Zenon DEF IInv
<1>2. HomeParts'
  BY <1>1, Zenon DEF HomeParts, places, Blocked, Limbo
<1> QED BY <1>2, OneHomePrimed, Zenon DEF IInv, IdleAvailable, places

(* The context switch itself. *)
LEMMA SwitchContextOK == ASSUME IInv, switch_context PROVE IInv'
<1>1. UNCHANGED <<places, threads, woken>>
  BY Zenon DEF switch_context, creation
<1>2. OneHome' /\ IdleAvailable'
  BY <1>1, StayHome, Zenon
<1>3. current \in threads
  BY OneHomeParts, Zenon DEF IInv, HomeParts
<1>4. TypeOK'
  BY Zenon DEF IInv, TypeOK, switch_context, places, creation, Phase
<1>5. SlotsAccounted' /\ IdsInOrder' /\ ChildrenApart' /\ WokenInside'
  BY SMTT(60) DEF IInv, SlotsAccounted, IdsInOrder, ChildrenApart, WokenInside,
         switch_context, SlotOwners, creation
<1>6. CpuFollows'
  BY <1>3, Zenon DEF IInv, CpuFollows, switch_context, places, creation
<1> QED BY <1>2, <1>4, <1>5, <1>6, Zenon DEF IInv

(* finish_switch frees the zombies and gives their stack slots back. *)
LEMMA FinishSwitchOK == ASSUME IInv, finish_switch PROVE IInv'
<1> DEFINE dead == slots_of(zombies)
<1>1. PICK freed \in Orders(dead) : free_slots' = free_slots \o freed
  BY Zenon DEF finish_switch, taken
<1>2. /\ phase = "reap" /\ phase' = "run" /\ zombies' = {} /\ threads' = threads \ zombies
      /\ UNCHANGED <<current, ready, sleeping, idle, waiters, next_slot, next_id, stack_slot,
                     user, child, wake_at, pc, woken, slice_ticks, ticks, stack, cr3, rsp0>>
  BY Zenon DEF finish_switch, taken, Switched
<1>3. HomeParts
  BY OneHomeParts, Zenon DEF IInv
<1>4. HomeParts'
  BY <1>2, <1>3, Zenon DEF HomeParts, Blocked, Limbo
<1>5. OneHome' /\ IdleAvailable' /\ zombies \subseteq threads /\ current \in threads \ zombies
  BY <1>2, <1>3, <1>4, OneHomePrimed, Zenon DEF IInv, IdleAvailable, HomeParts
<1>6. SlotOwners' = SlotOwners \ zombies /\ zombies \subseteq SlotOwners /\ SlotOwners \subseteq Tid
  BY <1>2, <1>5, SMTT(60) DEF SlotOwners, IInv, ChildrenApart, TypeOK
<1>7. /\ dead \subseteq Slot /\ free_slots \in Seq(Slot) /\ IsInjective(free_slots)
      /\ dead \cap Range(free_slots) = {}
  <2>1. dead \subseteq Slot
    BY <1>6, Zenon DEF slots_of, IInv, TypeOK
  <2>2. dead \cap Range(free_slots) = {}
    BY <1>6, ZenonT(60) DEF slots_of, IInv, SlotsAccounted
  <2> QED BY <2>1, <2>2, Zenon DEF IInv, TypeOK, SlotsAccounted
<1>8. freed \in Seq(Slot) /\ Range(freed) = dead /\ IsInjective(freed)
  <2>1. PICK n \in 0..(MaxId + 1) : freed \in Bijection(1..n, dead)
    BY Zenon DEF Orders
  <2>2. freed \in Seq(dead) /\ Range(freed) = dead /\ IsInjective(freed)
    BY <2>1, Orderings, SMTT(30)
  <2> QED BY <1>7, <2>2, SMTT(30)
<1>9. /\ free_slots' \in Seq(Slot) /\ IsInjective(free_slots')
      /\ Range(free_slots') = Range(free_slots) \cup dead
  BY <1>1, <1>7, <1>8, RangeConcat, SMTT(30)
<1>10. SlotsAccounted'
  <2>1. ASSUME NEW a \in SlotOwners \ zombies PROVE stack_slot[a] \notin dead
    BY <1>6, SMTT(30) DEF slots_of, IInv, SlotsAccounted
  <2>2. \A a \in SlotOwners : stack_slot[a] \notin Range(free_slots)
    BY Zenon DEF IInv, SlotsAccounted
  <2>3. {stack_slot[a] : a \in SlotOwners} \ {None} =
          ({stack_slot[a] : a \in SlotOwners \ zombies} \ {None}) \cup dead
    BY <1>6, Zenon DEF slots_of
  <2>4. \A a, b \in SlotOwners \ zombies : stack_slot[a] = stack_slot[b] /\ stack_slot[a] # None => a = b
    BY Zenon DEF IInv, SlotsAccounted
  <2>5. 0..(next_slot - 1) = Range(free_slots) \cup ({stack_slot[a] : a \in SlotOwners} \ {None})
    BY Zenon DEF IInv, SlotsAccounted
  <2> HIDE DEF dead
  <2> QED BY <1>2, <1>6, <1>9, <2>1, <2>2, <2>3, <2>4, <2>5, SMTT(60) DEF SlotsAccounted
<1>11. TypeOK'
  BY <1>2, <1>9, Zenon DEF IInv, TypeOK, Phase
<1>12. IdsInOrder' /\ ChildrenApart' /\ WokenInside'
  BY <1>2, <1>6, Zenon DEF IInv, IdsInOrder, ChildrenApart, WokenInside
<1>13. CpuFollows'
  BY <1>2, <1>5, Zenon DEF IInv, CpuFollows
<1> QED BY <1>5, <1>10, <1>11, <1>12, <1>13, Zenon DEF IInv

(* take_slot gives the new id a slot nobody has. *)
LEMMA TakeSlotOK ==
  ASSUME IInv, take_slot, SlotOwners' = SlotOwners \cup {next_id}
  PROVE  /\ SlotsAccounted'
         /\ free_slots' \in Seq(Slot) /\ next_slot' \in 0..MaxSlots
         /\ stack_slot' \in [Tid -> Slot \cup {None}] /\ stack_slot'[next_id] # None
         /\ \A t \in Tid \ {next_id} : stack_slot'[t] = stack_slot[t]
         /\ next_id \in Tid \ SlotOwners /\ next_id' = next_id + 1
<1> DEFINE new == IF free_slots # <<>> THEN free_slots[Len(free_slots)] ELSE next_slot
           owned == {stack_slot[a] : a \in SlotOwners} \ {None}
<1>1. /\ free_slots \in Seq(Slot) /\ next_slot \in 0..MaxSlots /\ next_id \in 2..(MaxId + 1)
      /\ stack_slot \in [Tid -> Slot \cup {None}] /\ next_id <= MaxId
      /\ next_id' = next_id + 1 /\ stack_slot' = [stack_slot EXCEPT ![next_id] = new]
      /\ free_slots # <<>> \/ next_slot < MaxSlots
  BY Zenon DEF IInv, TypeOK, take_slot, slot_available
<1>2. next_id \in Tid \ SlotOwners
  <2>1. next_id \in Tid
    BY <1>1, ConstAssumption, SMTT(30) DEF Tid
  <2>2. next_id \notin 0..(next_id - 1)
    BY <1>1, SMTT(30)
  <2> QED BY <2>1, <2>2, Zenon DEF IInv, IdsInOrder
<1>3. /\ IsInjective(free_slots) /\ 0..(next_slot - 1) = Range(free_slots) \cup owned
      /\ \A a \in SlotOwners : stack_slot[a] \notin Range(free_slots)
      /\ \A a, b \in SlotOwners : stack_slot[a] = stack_slot[b] /\ stack_slot[a] # None => a = b
  BY Zenon DEF IInv, SlotsAccounted
<1>4. SlotOwners \subseteq Tid
  BY SMTT(30) DEF IInv, TypeOK, SlotOwners
<1>5. /\ free_slots' \in Seq(Slot) /\ next_slot' \in 0..MaxSlots /\ IsInjective(free_slots')
      /\ new \in Slot /\ new \notin Range(free_slots') /\ new \notin owned
      /\ Range(free_slots') \subseteq Range(free_slots)
      /\ 0..(next_slot' - 1) = Range(free_slots') \cup owned \cup {new}
  <2>1. CASE free_slots # <<>>
    <3>1. /\ free_slots' = SubSeq(free_slots, 1, Len(free_slots) - 1) /\ next_slot' = next_slot /\ new = free_slots[Len(free_slots)]
      BY <2>1, Zenon DEF take_slot
    <3>2. /\ free_slots[Len(free_slots)] \in Range(free_slots) /\ free_slots[Len(free_slots)] \in Slot
          /\ SubSeq(free_slots, 1, Len(free_slots) - 1) \in Seq(Slot) /\ IsInjective(SubSeq(free_slots, 1, Len(free_slots) - 1))
          /\ Range(SubSeq(free_slots, 1, Len(free_slots) - 1)) = Range(free_slots) \ {free_slots[Len(free_slots)]}
      BY <1>1, <1>3, <2>1, RangeHeadTail, Zenon
    <3>3. owned \cap Range(free_slots) = {}
      BY <1>3, Zenon
    <3> HIDE DEF new, owned
    <3> QED BY <1>1, <1>3, <3>1, <3>2, <3>3, Zenon
  <2>2. CASE free_slots = <<>>
    <3>1. free_slots' = <<>> /\ next_slot' = next_slot + 1 /\ new = next_slot /\ next_slot < MaxSlots
      BY <1>1, <2>2, Zenon DEF take_slot
    <3>2. Range(free_slots') = {} /\ IsInjective(free_slots') /\ Range(free_slots) = {}
      BY <3>1, <2>2, RangeEmpty, Zenon
    <3>3. new \notin 0..(next_slot - 1) /\ 0..(next_slot' - 1) = 0..(next_slot - 1) \cup {new}
      BY <1>1, <3>1, SMTT(30)
    <3>4. new \in Slot /\ next_slot' \in 0..MaxSlots
      BY <1>1, <3>1, ConstAssumption, SMTT(30) DEF Slot
    <3> HIDE DEF new, owned
    <3> QED BY <1>1, <1>3, <3>1, <3>2, <3>3, <3>4, SMTT(30)
  <2> QED BY <2>1, <2>2, ZenonT(60)
<1>6. /\ stack_slot' \in [Tid -> Slot \cup {None}] /\ stack_slot'[next_id] = new /\ new # None
      /\ \A t \in Tid \ {next_id} : stack_slot'[t] = stack_slot[t]
  <2>1. new # None
    BY <1>5, SMTT(30) DEF Slot, None
  <2> QED BY <1>1, <1>2, <1>5, <2>1, Zenon
<1>7. ({stack_slot[a] : a \in SlotOwners} \ {None})' = owned \cup {new}
  <2>1. {stack_slot'[a] : a \in SlotOwners'} = {stack_slot[a] : a \in SlotOwners} \cup {new}
    <3>1. \A a \in SlotOwners : a # next_id /\ stack_slot'[a] = stack_slot[a]
      BY <1>2, <1>4, <1>6, Zenon
    <3>2. stack_slot'[next_id] = new
      BY <1>6, Zenon
    <3> HIDE DEF new
    <3> QED BY <3>1, <3>2, Zenon
  <2> QED BY <2>1, <1>6, Zenon
<1>8. \A a \in SlotOwners : stack_slot'[a] = stack_slot[a] /\ stack_slot[a] # new
  BY <1>2, <1>4, <1>5, <1>6, Zenon
<1> HIDE DEF new, owned
<1>9. \A a, b \in SlotOwners' : stack_slot'[a] = stack_slot'[b] /\ stack_slot'[a] # None => a = b
  BY <1>3, <1>6, <1>8, SMTT(30)
<1>10. \A a \in SlotOwners' : stack_slot'[a] \notin Range(free_slots')
  BY <1>3, <1>5, <1>6, <1>8, Zenon
<1>11. SlotsAccounted'
  BY <1>5, <1>7, <1>9, <1>10, Zenon DEF SlotsAccounted
<1> QED BY <1>1, <1>2, <1>5, <1>6, <1>11, Zenon

(* create_thread: the slot and the address space go to a thread that is not yet
   anywhere. *)
LEMMA CreateThreadOK ==
  ASSUME IInv, NEW t \in Tid, NEW isUser \in BOOLEAN, create_thread(t, isUser)
  PROVE  IInv'
<1>1. /\ Running(t) /\ t # IdleId /\ take_slot /\ child' = [child EXCEPT ![t] = next_id]
      /\ user' = IF isUser THEN user \cup {next_id} ELSE user
      /\ pc' = [pc EXCEPT ![t] = "create"]
      /\ UNCHANGED <<places, threads, wake_at, woken, slice_ticks, ticks, cpu>>
  BY Zenon DEF create_thread
<1>2. child[t] = None /\ pc[t] = "run" /\ pc \in [Tid -> Pc] /\ child \in [Tid -> Tid \cup {None}]
      /\ next_id \in 2..(MaxId + 1) /\ next_id # None
  BY <1>1, ConstAssumption, SMTT(60) DEF IInv, TypeOK, ChildrenApart, Running, None
<1>3. OneHome' /\ IdleAvailable'
  BY <1>1, StayHome, Zenon
<1>4. SlotOwners' = SlotOwners \cup {next_id}
  BY <1>1, <1>2, Zenon DEF SlotOwners
<1>5. /\ SlotsAccounted'
      /\ free_slots' \in Seq(Slot) /\ next_slot' \in 0..MaxSlots
      /\ stack_slot' \in [Tid -> Slot \cup {None}] /\ stack_slot'[next_id] # None
      /\ \A s \in Tid \ {next_id} : stack_slot'[s] = stack_slot[s]
      /\ next_id \in Tid \ SlotOwners /\ next_id' = next_id + 1
  BY <1>1, <1>4, TakeSlotOK, Zenon
<1>6. TypeOK'
  <2>1. next_id' \in 2..(MaxId + 1)
    <3>1. next_id <= MaxId
      BY <1>1, Zenon DEF take_slot
    <3> QED BY <1>2, <1>5, <3>1, ConstAssumption, SMTT(30)
  <2> QED BY <1>1, <1>2, <1>5, <2>1, Zenon DEF IInv, TypeOK, places, cpu, Pc
<1>7. IdsInOrder'
  <2>1. 0..(next_id' - 1) = 0..(next_id - 1) \cup {next_id} /\ 2..(next_id' - 1) = 2..(next_id - 1) \cup {next_id}
    BY <1>2, <1>5, SMTT(30)
  <2>2. SlotOwners \subseteq Tid
    BY SMTT(30) DEF IInv, TypeOK, SlotOwners
  <2> QED BY <1>1, <1>4, <1>5, <2>1, <2>2, Zenon DEF IInv, IdsInOrder
<1>8. ChildrenApart' /\ WokenInside'
  <2>1. \A s \in Tid : child[s] # next_id
    BY <1>5, SMTT(30) DEF SlotOwners, None, Tid
  <2>2. next_id >= 2 /\ next_id \notin threads
    BY <1>2, <1>5, SMTT(30) DEF SlotOwners
  <2> QED BY TidFacts, <1>1, <1>2, <2>1, <2>2, Zenon DEF IInv, ChildrenApart, WokenInside
<1>9. CpuFollows'
  <2>1. current \in threads /\ current \in Tid /\ current # next_id
    BY <1>5, OneHomeParts, Zenon DEF IInv, HomeParts, SlotOwners, TypeOK
  <2> QED BY <1>1, <1>5, <2>1, Zenon DEF IInv, CpuFollows, cpu, places
<1> QED BY <1>3, <1>5, <1>6, <1>7, <1>8, <1>9, Zenon DEF IInv

(* spawn queues the thread its caller built. *)
LEMMA SpawnOK == ASSUME IInv, NEW t \in Tid, spawn(t) PROVE IInv'
<1> DEFINE c == child[t]
<1>1. /\ pc[t] = "create" /\ threads' = threads \cup {c} /\ ready' = Append(ready, c)
      /\ child' = [child EXCEPT ![t] = None] /\ pc' = [pc EXCEPT ![t] = "run"]
      /\ UNCHANGED <<current, sleeping, idle, zombies, waiters, free_slots, next_slot, next_id,
                     stack_slot, user, wake_at, woken, slice_ticks, ticks, cpu>>
  BY Zenon DEF spawn, Inside
<1>2. /\ c # None /\ c \in Tid /\ c \notin threads /\ child \in [Tid -> Tid \cup {None}]
      /\ \A s \in Tid : child[s] = c => s = t
  BY <1>1, Zenon DEF IInv, ChildrenApart, TypeOK
<1>3. SlotOwners' = SlotOwners
  <2>1. {child'[s] : s \in Tid} \ {None} = ({child[s] : s \in Tid} \ {None}) \ {c}
    BY <1>1, <1>2, Zenon
  <2>2. c \in {child[s] : s \in Tid} \ {None}
    BY <1>2, Zenon
  <2> HIDE DEF c
  <2> QED BY <1>1, <2>1, <2>2, Zenon DEF SlotOwners
<1> HIDE DEF c
<1>4. HomeParts /\ ready \in Seq(Tid)
  BY OneHomeParts, Zenon DEF IInv, TypeOK
<1>5. c \notin Range(ready)
  BY <1>2, <1>4, Zenon DEF HomeParts
<1>6. ready' \in Seq(Tid) /\ Range(ready') = Range(ready) \cup {c} /\ IsInjective(ready')
  BY <1>1, <1>2, <1>4, <1>5, RangeAppend, SMTT(60) DEF HomeParts
<1>7. HomeParts'
  BY <1>1, <1>2, <1>4, <1>6, SMTT(60) DEF HomeParts, Blocked, Limbo
<1>8. OneHome' /\ IdleAvailable'
  BY <1>1, <1>7, OneHomePrimed, Zenon DEF IInv, IdleAvailable
<1>9. TypeOK'
  BY <1>1, <1>2, <1>6, Zenon DEF IInv, TypeOK, cpu, Pc
<1>10. SlotsAccounted' /\ IdsInOrder'
  BY <1>1, <1>3, SlotsKept, Zenon
<1>11. ChildrenApart' /\ WokenInside'
  BY TidFacts, <1>1, <1>2, ZenonT(60) DEF IInv, ChildrenApart, WokenInside, TypeOK, c
<1>12. CpuFollows'
  BY <1>1, Zenon DEF IInv, CpuFollows, cpu
<1> QED BY <1>8, <1>9, <1>10, <1>11, <1>12, Zenon DEF IInv

(* create_thread fails: the slot goes back on the free list. *)
LEMMA SpawnFailsOK == ASSUME IInv, NEW t \in Tid, spawn_fails(t) PROVE IInv'
<1> DEFINE c == child[t]
           old == stack_slot[c]
<1>1. /\ pc[t] = "create" /\ free_slots' = Append(free_slots, old)
      /\ stack_slot' = [stack_slot EXCEPT ![c] = None] /\ user' = user \ {c}
      /\ child' = [child EXCEPT ![t] = None] /\ pc' = [pc EXCEPT ![t] = "run"]
      /\ UNCHANGED <<places, next_slot, next_id, threads, wake_at, woken, slice_ticks, ticks, cpu>>
  BY Zenon DEF spawn_fails, Inside
<1>2. /\ c # None /\ c \in Tid /\ c \notin threads /\ child \in [Tid -> Tid \cup {None}]
      /\ \A s \in Tid : child[s] = c => s = t
      /\ c >= 2
  BY <1>1, ZenonT(60) DEF IInv, ChildrenApart, TypeOK
<1>3. SlotOwners' = SlotOwners \ {c} /\ c \in SlotOwners /\ SlotOwners \subseteq Tid
  <2>1. {child'[s] : s \in Tid} \ {None} = ({child[s] : s \in Tid} \ {None}) \ {c}
    BY <1>1, <1>2, Zenon
  <2>2. c \in {child[s] : s \in Tid} \ {None}
    BY <1>2, Zenon
  <2>3. SlotOwners \subseteq Tid
    BY SMTT(30) DEF IInv, TypeOK, SlotOwners
  <2> HIDE DEF c
  <2> QED BY <1>1, <1>2, <2>1, <2>2, <2>3, SMTT(60) DEF SlotOwners
<1> HIDE DEF c
<1>4. OneHome' /\ IdleAvailable'
  BY <1>1, StayHome, Zenon
<1>5. /\ free_slots \in Seq(Slot) /\ IsInjective(free_slots) /\ stack_slot \in [Tid -> Slot \cup {None}]
      /\ 0..(next_slot - 1) = Range(free_slots) \cup ({stack_slot[a] : a \in SlotOwners} \ {None})
      /\ \A a \in SlotOwners : stack_slot[a] \notin Range(free_slots)
      /\ \A a, b \in SlotOwners : stack_slot[a] = stack_slot[b] /\ stack_slot[a] # None => a = b
  BY ZenonT(60) DEF IInv, TypeOK, SlotsAccounted
<1>6. old # None /\ old \in Slot /\ old \notin Range(free_slots)
  <2>1. c # BootId
    BY <1>2, SMTT(30) DEF BootId
  <2> QED BY <1>2, <1>3, <1>5, <2>1, Zenon DEF IInv, IdsInOrder
<1>7. /\ free_slots' \in Seq(Slot) /\ IsInjective(free_slots') /\ Range(free_slots') = Range(free_slots) \cup {old}
  BY <1>1, <1>5, <1>6, RangeAppend, SMTT(60)
<1>8. \A a \in SlotOwners \ {c} : stack_slot'[a] = stack_slot[a] /\ stack_slot[a] # old
  BY <1>1, <1>3, <1>5, <1>6, ZenonT(60)
<1>9. {stack_slot[a] : a \in SlotOwners} \ {None} = ({stack_slot'[a] : a \in SlotOwners'} \ {None}) \cup {old}
  BY <1>3, <1>6, <1>8, Zenon
<1> HIDE DEF old
<1>10. SlotsAccounted'
  BY <1>1, <1>3, <1>5, <1>7, <1>8, <1>9, ZenonT(60) DEF SlotsAccounted
<1>11. TypeOK'
  BY <1>1, <1>2, <1>5, <1>7, Zenon DEF IInv, TypeOK, cpu, places, Pc
<1>12. IdsInOrder'
  BY <1>1, <1>3, <1>8, Zenon DEF IInv, IdsInOrder
<1>13. ChildrenApart' /\ WokenInside'
  BY TidFacts, <1>1, <1>2, ZenonT(60) DEF IInv, ChildrenApart, WokenInside, TypeOK, c
<1>14. CpuFollows'
  <2>1. current \in threads /\ current # c /\ current \in Tid
    BY <1>2, OneHomeParts, Zenon DEF IInv, HomeParts, TypeOK
  <2> QED BY <1>1, <1>5, <2>1, Zenon DEF IInv, CpuFollows, cpu, places
<1> QED BY <1>4, <1>10, <1>11, <1>12, <1>13, <1>14, Zenon DEF IInv

(* The first half of sleep_ms only notes the deadline. *)
LEMMA SleepOK == ASSUME IInv, NEW t \in Tid, NEW ms \in SleepTimes, sleep_ms(t, ms) PROVE IInv'
<1>1. /\ pc[t] = "run" /\ t # IdleId /\ pc' = [pc EXCEPT ![t] = "sleep"]
      /\ wake_at' = [wake_at EXCEPT ![t] = (ticks + ms) % Word]
      /\ UNCHANGED <<places, creation, woken, slice_ticks, ticks, cpu>>
  BY Zenon DEF sleep_ms, Running, uptime_ms
<1>2. (ticks + ms) % Word \in Nat
  BY ConstAssumption, SMTT(30) DEF IInv, TypeOK
<1>3. TypeOK'
  BY <1>1, <1>2, Zenon DEF IInv, TypeOK, places, creation, cpu, Pc
<1>4. OneHome' /\ IdleAvailable'
  BY <1>1, StayHome, Zenon DEF creation
<1>5. SlotsAccounted' /\ IdsInOrder'
  BY <1>1, CreationKept, Zenon
<1>6. ChildrenApart' /\ WokenInside'
  BY <1>1, SMTT(60) DEF IInv, ChildrenApart, WokenInside, TypeOK, creation
<1>7. CpuFollows'
  BY <1>1, Zenon DEF IInv, CpuFollows, cpu, places, creation
<1> QED BY <1>3, <1>4, <1>5, <1>6, <1>7, Zenon DEF IInv

(* wake_one and wake_all move the head of a wait queue to a local. *)
LEMMA TakeWaitersOK ==
  ASSUME IInv, NEW t \in Tid, NEW q \in Queues, NEW n \in 1..Len(waiters[q]),
         Running(t), t # IdleId, take_waiters(t, q, n)
  PROVE  IInv'
<1> DEFINE a == SubSeq(waiters[q], 1, n)
           b == SubSeq(waiters[q], n + 1, Len(waiters[q]))
<1>1. /\ woken' = [woken EXCEPT ![t] = a] /\ waiters' = [waiters EXCEPT ![q] = b]
      /\ pc' = [pc EXCEPT ![t] = "wake"] /\ pc[t] = "run" /\ woken[t] = <<>>
      /\ UNCHANGED <<current, ready, sleeping, idle, zombies, creation, wake_at, slice_ticks, ticks, cpu>>
  BY Zenon DEF take_waiters, Running, IInv, WokenInside, TypeOK
<1>2. HomeParts /\ waiters \in [Queues -> Seq(Tid)] /\ woken \in [Tid -> Seq(Tid)]
  BY OneHomeParts, ZenonT(60) DEF IInv, TypeOK
<1>3. waiters[q] \in Seq(Tid) /\ IsInjective(waiters[q]) /\ Range(waiters[q]) \subseteq Blocked
  BY <1>2, SMTT(60) DEF HomeParts, Separate, Blocked, Elements
<1>4. /\ a \in Seq(Tid) /\ b \in Seq(Tid) /\ IsInjective(a) /\ IsInjective(b)
      /\ Range(a) \cup Range(b) = Range(waiters[q]) /\ Range(a) \cap Range(b) = {}
  BY <1>3, RangeSplit, SMTT(30)
<1> HIDE DEF a, b
<1>5. Range(woken[t]) = {}
  BY <1>1, RangeEmpty, Zenon
<1>6. Updates(Tid, Queues, waiters, q, b, waiters')
  BY <1>1, <1>2, <1>3, <1>4, Zenon DEF Updates, HomeParts
<1>7. Updates(Tid, Tid, woken, t, a, woken')
  BY <1>1, <1>2, <1>3, <1>4, ZenonT(60) DEF Updates, HomeParts, Limbo
<1>8. /\ waiters' \in [Queues -> Seq(Tid)] /\ Separate(waiters')
      /\ Elements(waiters') = (Elements(waiters) \ Range(waiters[q])) \cup Range(b)
  BY <1>6, FamilyUpdate, SMTT(30)
<1>9. /\ woken' \in [Tid -> Seq(Tid)] /\ Separate(woken')
      /\ Elements(woken') = (Elements(woken) \ Range(woken[t])) \cup Range(a)
  BY <1>7, FamilyUpdate, SMTT(30)
<1>10. Blocked' = Blocked \ Range(a) /\ Limbo' = Limbo \cup Range(a) /\ Range(a) \subseteq Blocked
  BY <1>3, <1>4, <1>5, <1>8, <1>9, Zenon DEF Blocked, Limbo
<1>11. HomeParts'
  BY <1>1, <1>2, <1>8, <1>9, <1>10, SMTT(60) DEF HomeParts, creation
<1>12. OneHome' /\ IdleAvailable'
  BY <1>1, <1>11, OneHomePrimed, Zenon DEF IInv, IdleAvailable
<1>13. TypeOK'
  BY <1>1, <1>8, <1>9, Zenon DEF IInv, TypeOK, creation, cpu, Pc
<1>14. SlotsAccounted' /\ IdsInOrder'
  BY <1>1, CreationKept, Zenon
<1>15. ChildrenApart' /\ WokenInside'
  BY TidFacts, <1>1, <1>2, ZenonT(60) DEF IInv, ChildrenApart, WokenInside, TypeOK, creation
<1>16. CpuFollows'
  BY <1>1, Zenon DEF IInv, CpuFollows, cpu, creation
<1> QED BY <1>12, <1>13, <1>14, <1>15, <1>16, Zenon DEF IInv

(* The woken threads join the ready queue. *)
LEMMA PushWokenOK == ASSUME IInv, NEW t \in Tid, push_woken(t) PROVE IInv'
<1> DEFINE a == woken[t]
           e == <<>>
<1>1. /\ pc[t] = "wake" /\ ready' = ready \o a
      /\ woken' = [woken EXCEPT ![t] = e] /\ pc' = [pc EXCEPT ![t] = "run"]
      /\ UNCHANGED <<current, sleeping, idle, zombies, waiters, creation, wake_at, slice_ticks, ticks, cpu>>
  BY Zenon DEF push_woken, Inside
<1>2. HomeParts /\ ready \in Seq(Tid) /\ woken \in [Tid -> Seq(Tid)]
  BY OneHomeParts, Zenon DEF IInv, TypeOK
<1>3. a \in Seq(Tid) /\ IsInjective(a) /\ Range(a) \subseteq Limbo
  BY <1>2, SMTT(60) DEF HomeParts, Separate, Limbo, Elements
<1>4. e \in Seq(Tid) /\ Range(e) = {} /\ IsInjective(e)
  BY RangeEmpty, SMTT(30) DEF IsInjective
<1>5. Range(ready) \cap Range(a) = {} /\ IsInjective(ready)
  BY <1>2, <1>3, Zenon DEF HomeParts
<1>6. ready' \in Seq(Tid) /\ Range(ready') = Range(ready) \cup Range(a) /\ IsInjective(ready')
  BY <1>1, <1>2, <1>3, <1>5, RangeConcat, SMTT(30)
<1> HIDE DEF e
<1>7. Updates(Tid, Tid, woken, t, e, woken')
  BY <1>1, <1>2, <1>4, Zenon DEF Updates, HomeParts
<1>8. /\ woken' \in [Tid -> Seq(Tid)] /\ Separate(woken')
      /\ Elements(woken') = (Elements(woken) \ Range(woken[t])) \cup Range(e)
  BY <1>7, FamilyUpdate, SMTT(30)
<1>9. Limbo' = Limbo \ Range(a)
  BY <1>4, <1>8, Zenon DEF Limbo
<1> HIDE DEF a
<1>10. HomeParts'
  BY <1>1, <1>2, <1>3, <1>6, <1>8, <1>9, SMTT(60) DEF HomeParts, creation, Blocked
<1>11. OneHome' /\ IdleAvailable'
  BY <1>1, <1>10, OneHomePrimed, Zenon DEF IInv, IdleAvailable
<1>12. TypeOK'
  BY <1>1, <1>6, <1>8, Zenon DEF IInv, TypeOK, creation, cpu, Pc
<1>13. SlotsAccounted' /\ IdsInOrder'
  BY <1>1, CreationKept, Zenon
<1>14. ChildrenApart' /\ WokenInside'
  BY TidFacts, <1>1, <1>2, ZenonT(60) DEF IInv, ChildrenApart, WokenInside, TypeOK, creation, e
<1>15. CpuFollows'
  BY <1>1, Zenon DEF IInv, CpuFollows, cpu, creation
<1> QED BY <1>11, <1>12, <1>13, <1>14, <1>15, Zenon DEF IInv

(* The timer interrupt. *)
LEMMA TickOK == ASSUME IInv, tick PROVE IInv'
<1> DEFINE at == IF ticks < MaxTicks THEN ticks + 1 ELSE ticks
<1>1. /\ phase = "run" /\ ticks' = at
      /\ \/ reschedule("Yield", None, at)
         \/ /\ slice_ticks' = IF slice_ticks + 1 < SliceTicks THEN slice_ticks + 1 ELSE SliceTicks
            /\ UNCHANGED <<places, cpu>>
      /\ UNCHANGED <<creation, wake_at, pc, woken>>
  BY Zenon DEF tick
<1>2. ticks' \in 0..MaxTicks
  BY <1>1, ConstAssumption, SMTT(30) DEF IInv, TypeOK
<1> HIDE DEF at
<1>3. CASE reschedule("Yield", None, at)
  <2>1. Switching("Yield", None, at)
    BY <1>1, <1>2, <1>3, Zenon DEF Switching
  <2> QED BY <2>1, RescheduleOK, Zenon
<1>4. CASE /\ slice_ticks' = IF slice_ticks + 1 < SliceTicks THEN slice_ticks + 1 ELSE SliceTicks
           /\ UNCHANGED <<places, cpu>>
  <2>1. slice_ticks' \in 0..SliceTicks
    BY <1>4, ConstAssumption, SMTT(30) DEF IInv, TypeOK
  <2>2. TypeOK'
    BY <1>1, <1>2, <1>4, <2>1, Zenon DEF IInv, TypeOK, places, creation, cpu
  <2>3. OneHome' /\ IdleAvailable'
    BY <1>1, <1>4, StayHome, Zenon DEF creation
  <2>4. SlotsAccounted' /\ IdsInOrder'
    BY <1>1, <1>4, CreationKept, Zenon
  <2>5. ChildrenApart' /\ WokenInside'
    BY <1>1, <1>4, Zenon DEF IInv, ChildrenApart, WokenInside, creation
  <2>6. CpuFollows'
    BY <1>1, <1>4, Zenon DEF IInv, CpuFollows, cpu, places, creation
  <2> QED BY <2>2, <2>3, <2>4, <2>5, <2>6, Zenon DEF IInv
<1> QED BY <1>1, <1>3, <1>4, Zenon

(* What a thread does of its own accord. *)
LEMMA CallOK == ASSUME IInv, NEW t \in Tid, Call(t) \/ Finish(t) PROVE IInv'
<1>0. ticks \in 0..MaxTicks
  BY Zenon DEF IInv, TypeOK
<1>1. CASE yield_now(t)
  <2>1. Switching("Yield", None, ticks)
    BY <1>0, <1>1, Zenon DEF Switching, yield_now, Running
  <2> QED BY <2>1, RescheduleOK, Zenon
<1>2. CASE exit(t)
  <2>1. Switching("Exit", None, ticks)
    BY <1>0, <1>2, Zenon DEF Switching, exit, Running
  <2> QED BY <2>1, RescheduleOK, Zenon
<1>3. ASSUME NEW q \in Queues, wait(t, q) PROVE IInv'
  <2>1. Switching("Block", q, ticks)
    BY <1>0, <1>3, Zenon DEF Switching, wait, Running
  <2> QED BY <2>1, RescheduleOK, Zenon
<1>4. CASE sleep_park(t)
  <2>1. current # IdleId
    BY <1>4, Zenon DEF sleep_park, Inside, IInv, WokenInside
  <2>2. Switching("Sleep", None, ticks)
    BY <1>0, <1>4, <2>1, Zenon DEF Switching, sleep_park, Inside
  <2> QED BY <2>2, RescheduleOK, Zenon
<1>5. ASSUME NEW q \in Queues, wake_one(t, q) \/ wake_all(t, q) PROVE IInv'
  <2>1. waiters[q] \in Seq(Tid) /\ waiters[q] # <<>>
    BY <1>5, Zenon DEF IInv, TypeOK, wake_one, wake_all
  <2>2. 1 \in 1..Len(waiters[q]) /\ Len(waiters[q]) \in 1..Len(waiters[q])
    BY <2>1, SMTT(60)
  <2>3. CASE wake_one(t, q)
    <3>1. Running(t) /\ t # IdleId /\ take_waiters(t, q, 1)
      BY <2>3, Zenon DEF wake_one
    <3> QED BY <2>2, <3>1, TakeWaitersOK, Zenon
  <2>4. CASE wake_all(t, q)
    <3>1. Running(t) /\ t # IdleId /\ take_waiters(t, q, Len(waiters[q]))
      BY <2>4, Zenon DEF wake_all
    <3> QED BY <2>2, <3>1, TakeWaitersOK, Zenon
  <2> QED BY <1>5, <2>3, <2>4, Zenon
<1>6. ASSUME NEW isUser \in BOOLEAN, create_thread(t, isUser) PROVE IInv'
  BY <1>6, CreateThreadOK, Zenon
<1>7. ASSUME NEW ms \in SleepTimes, sleep_ms(t, ms) PROVE IInv'
  BY <1>7, SleepOK, Zenon
<1>8. CASE push_woken(t)
  BY <1>8, PushWokenOK, Zenon
<1>9. CASE spawn(t)
  BY <1>9, SpawnOK, Zenon
<1>10. CASE spawn_fails(t)
  BY <1>10, SpawnFailsOK, Zenon
<1> QED BY <1>1, <1>2, <1>3, <1>4, <1>5, <1>6, <1>7, <1>8, <1>9, <1>10, Zenon DEF Call, Act, Finish

(* Every step preserves the invariant. *)
LEMMA NextOK == ASSUME IInv, [Next]_vars PROVE IInv'
<1>1. ASSUME NEW t \in Tid, Call(t) \/ Finish(t) PROVE IInv'
  BY <1>1, CallOK, Zenon
<1>2. CASE tick
  BY <1>2, TickOK, Zenon
<1>3. CASE switch_context
  BY <1>3, SwitchContextOK, Zenon
<1>4. CASE finish_switch
  BY <1>4, FinishSwitchOK, Zenon
<1>5. CASE UNCHANGED vars
  <2>1. TypeOK' /\ WokenInside'
    BY <1>5, Zenon DEF IInv, TypeOK, WokenInside, vars, places, creation, cpu
  <2>2. OneHome' /\ IdleAvailable'
    BY <1>5, StayHome, Zenon DEF vars, creation
  <2>3. SlotsAccounted' /\ IdsInOrder'
    BY <1>5, CreationKept, Zenon DEF vars
  <2>4. ChildrenApart'
    <3>1. pc' = pc /\ child' = child /\ threads' = threads
      BY <1>5, Zenon DEF vars, creation
    <3>2. ChildrenApart
      BY ZenonT(60) DEF IInv
    <3> QED BY <3>1, <3>2, Zenon DEF ChildrenApart
  <2>5. CpuFollows'
    BY <1>5, Zenon DEF IInv, CpuFollows, vars, cpu, places, creation
  <2> QED BY <2>1, <2>2, <2>3, <2>4, <2>5, Zenon DEF IInv
<1> QED BY <1>1, <1>2, <1>3, <1>4, <1>5, Zenon DEF Next, Interrupt

(* What the scheduler's steps leave alone: only wait puts a thread on a queue,
   only wake_one and wake_all take one off it. *)
LEMMA QueueKept ==
  ASSUME \/ tick \/ switch_context \/ finish_switch
         \/ \E t \in Tid : push_woken(t) \/ yield_now(t) \/ exit(t)
  PROVE  waiters' = waiters
<1>1. ASSUME NEW how \in {"Yield", "Exit"}, NEW q, NEW n, reschedule(how, q, n)
      PROVE waiters' = waiters
  BY <1>1, Zenon DEF reschedule
<1>2. CASE tick
  BY <1>1, <1>2, Zenon DEF tick, places
<1>3. CASE switch_context \/ finish_switch
  BY <1>3, Zenon DEF switch_context, finish_switch, places
<1>4. ASSUME NEW t \in Tid, push_woken(t) \/ yield_now(t) \/ exit(t) PROVE waiters' = waiters
  BY <1>1, <1>4, Zenon DEF push_woken, yield_now, exit
<1> QED BY <1>2, <1>3, <1>4, Zenon

(* A wait queue is a sequence of threads without repetitions, and the thread on
   the CPU is not in it. *)
LEMMA QueueFacts ==
  ASSUME IInv, NEW q \in Queues
  PROVE  /\ waiters \in [Queues -> Seq(Tid)] /\ waiters[q] \in Seq(Tid)
         /\ IsInjective(waiters[q]) /\ current \notin Range(waiters[q])
<1>1. waiters \in [Queues -> Seq(Tid)]
  BY Zenon DEF IInv, TypeOK
<1>2. HomeParts
  BY OneHomeParts, Zenon DEF IInv
<1>3. IsInjective(waiters[q]) /\ Range(waiters[q]) \subseteq Blocked
  BY <1>1, <1>2, ZenonT(30) DEF HomeParts, Separate, Blocked, Elements
<1> QED BY <1>1, <1>2, <1>3, Zenon DEF HomeParts

(* The state after n threads were created at boot. *)
LEMMA BootedOK ==
  ASSUME NEW n \in Nat, 1 <= n, n <= MaxId, n <= MaxSlots, Booted(n)
  PROVE  IInv
<1>1. /\ current = 0 /\ idle = 1 /\ sleeping = {} /\ zombies = {} /\ threads = 0..n
      /\ ready = [i \in 1..(n - 1) |-> i + 1] /\ waiters = [q \in Queues |-> <<>>]
      /\ woken = [t \in Tid |-> <<>>] /\ child = [t \in Tid |-> None] /\ user = {}
      /\ pc = [t \in Tid |-> "run"] /\ free_slots = <<>> /\ next_slot = n /\ next_id = n + 1
      /\ stack_slot = [t \in Tid |-> IF t \in 1..n THEN t - 1 ELSE None]
      /\ wake_at = [t \in Tid |-> 0] /\ slice_ticks = 0 /\ ticks = 0
      /\ phase = "run" /\ stack = 0 /\ cr3 = None /\ rsp0 = None
  BY Zenon DEF Booted, BootId, IdleId
<1>2. ready \in Seq(Tid) /\ Range(ready) = 2..n /\ IsInjective(ready)
  <2>1. n - 1 \in Nat /\ \A i \in 1..(n - 1) : i + 1 \in Tid /\ i + 1 \in 2..n
    BY ConstAssumption, SMTT(30) DEF Tid
  <2>2. ready \in Seq(Tid)
    BY <1>1, <2>1, SMTT(30)
  <2>3. IsInjective(ready)
    BY <1>1, <2>1, SMTT(30) DEF IsInjective
  <2>4. ASSUME NEW x \in 2..n PROVE x \in Range(ready)
    <3>1. x - 1 \in 1..(n - 1) /\ (x - 1) + 1 = x
      BY SMTT(30)
    <3> QED BY <1>1, <3>1, Zenon DEF Range
  <2>5. Range(ready) \subseteq 2..n
    BY <1>1, <2>1, Zenon DEF Range
  <2> QED BY <2>2, <2>3, <2>4, <2>5, Zenon
<1>3. /\ Blocked = {} /\ Limbo = {} /\ Separate(waiters) /\ Separate(woken)
  BY <1>1, RangeEmpty, Zenon DEF Blocked, Limbo, Elements, Separate
<1>4. 0 \in Tid /\ 1 \in Tid /\ 0..n \subseteq Tid /\ None \notin Tid /\ None # 1
  BY ConstAssumption, SMTT(30) DEF Tid, None
<1>5. HomeParts
  <2> DEFINE R == 2..n
  <2>1. 0..n = {0} \cup R \cup {1} /\ 0 \notin R /\ 1 \notin R /\ Range(ready) = R
    BY <1>2, SMTT(30)
  <2>2. {idle} \ {None} = {1}
    BY <1>1, <1>4, Zenon
  <2> HIDE DEF R
  <2> QED BY <1>1, <1>2, <1>3, <2>1, <2>2, ZenonT(60) DEF HomeParts
<1>6. SlotOwners = 0..n
  BY <1>1, Zenon DEF SlotOwners
<1>7. \A t \in 0..n : stack_slot[t] = IF t = 0 THEN None ELSE t - 1
  BY <1>1, <1>4, SMTT(30)
<1>8. SlotsAccounted
  <2>1. \A a, b \in 0..n : stack_slot[a] = stack_slot[b] /\ stack_slot[a] # None => a = b
    BY <1>7, SMTT(30) DEF None
  <2>2. {stack_slot[a] : a \in 0..n} \ {None} = 0..(n - 1)
    <3>1. ASSUME NEW a \in 0..n, stack_slot[a] # None PROVE stack_slot[a] \in 0..(n - 1)
      BY <1>7, <3>1, SMTT(30)
    <3>2. ASSUME NEW x \in 0..(n - 1) PROVE x + 1 \in 0..n /\ stack_slot[x + 1] = x /\ x # None
      BY <1>7, SMTT(30) DEF None
    <3> QED BY <3>1, <3>2, Zenon
  <2>3. IsInjective(free_slots) /\ Range(free_slots) = {}
    BY <1>1, RangeEmpty, Zenon
  <2> QED BY <1>1, <1>6, <2>1, <2>2, <2>3, Zenon DEF SlotsAccounted
<1>9. IdsInOrder
  <2>1. SlotOwners \subseteq 0..(next_id - 1) /\ user \subseteq 2..(next_id - 1)
    BY <1>1, <1>6, SMTT(30)
  <2>2. \A t \in SlotOwners \ {BootId} : stack_slot[t] # None
    BY <1>6, <1>7, SMTT(30) DEF BootId, None
  <2> QED BY <2>1, <2>2, Zenon DEF IdsInOrder
<1>10. ChildrenApart /\ WokenInside
  BY <1>1, <1>4, Zenon DEF ChildrenApart, WokenInside, IdleId
<1>11. CpuFollows
  BY <1>1, SMTT(30) DEF CpuFollows
<1>12. TypeOK
  <2>1. /\ stack_slot \in [Tid -> Slot \cup {None}] /\ next_slot \in 0..MaxSlots
        /\ next_id \in 2..(MaxId + 1)
    BY <1>1, ConstAssumption, SMTT(30) DEF Slot
  <2>2. /\ waiters \in [Queues -> Seq(Tid)] /\ woken \in [Tid -> Seq(Tid)] /\ free_slots \in Seq(Slot)
    BY <1>1, SMTT(30)
  <2> QED BY <1>1, <1>2, <1>4, <2>1, <2>2, ConstAssumption, SMTT(60) DEF TypeOK, Pc, Phase, IdleId
<1>13. OneHome /\ IdleAvailable
  BY <1>1, <1>5, OneHomeParts, Zenon DEF IdleAvailable, IdleId
<1> QED BY <1>8, <1>9, <1>10, <1>11, <1>12, <1>13, Zenon DEF IInv

(* The inductive invariant holds in every reachable state. *)
THEOREM Invariant == Spec => []IInv
<1>1. Init => IInv
  BY BootedOK, ConstAssumption, SMTT(30) DEF Init
<1>2. IInv /\ [Next]_vars => IInv'
  BY NextOK, Zenon
<1> QED BY <1>1, <1>2, PTL DEF Spec

(* Every thread that exists is in exactly one place, at one position of it,
   and the idle thread is there when nothing else can run. *)
THEOREM ThreadsConserved == Spec => [](OneHome /\ IdleAvailable)
<1>1. IInv => OneHome /\ IdleAvailable
  BY Zenon DEF IInv
<1> QED BY <1>1, Invariant, PTL

(* Stack slots are neither leaked nor handed out twice. *)
THEOREM SlotsConserved == Spec => []SlotsAccounted
<1>1. IInv => SlotsAccounted
  BY Zenon DEF IInv
<1> QED BY <1>1, Invariant, PTL

(* The CPU never runs on a stack that was freed. *)
THEOREM StackOwned == Spec => []StackInUseIsOwned
<1>1. IInv => StackInUseIsOwned
  BY Zenon DEF IInv, CpuFollows, SlotsAccounted, SlotOwners, StackInUseIsOwned
<1> QED BY <1>1, Invariant, PTL

(* CR3 and TSS.rsp0 are those of the thread that runs, and the page tables CR3
   selects exist. *)
THEOREM AddressSpaceOwned == Spec => []AddressSpaceInUse
<1>1. IInv => AddressSpaceInUse
  <2>1. IInv => current \in threads
    BY OneHomeParts, Zenon DEF IInv, HomeParts
  <2> QED BY <2>1, Zenon DEF IInv, CpuFollows, AddressSpaceInUse
<1> QED BY <1>1, Invariant, PTL

(* Every variable keeps its type. *)
THEOREM TypeCorrect == Spec => []TypeOK
<1>1. IInv => TypeOK
  BY Zenon DEF IInv
<1> QED BY <1>1, Invariant, PTL
=============================================================================
