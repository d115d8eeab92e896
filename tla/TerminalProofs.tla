--------------------------- MODULE TerminalProofs ---------------------------
(***************************************************************************)
(* The terminal, for every ring capacity, number of readers and buffer     *)
(* size.  The byte ring holds the newest unread bytes in the order of the  *)
(* key presses; until it drops one, the line in read_line is the one that  *)
(* was typed.                                                              *)
(***************************************************************************)
EXTENDS Terminal, SequenceTheorems, TLAPS

Byte == {"NUL", "BS", "NL", "ESC", "[", "3", "~", "a", "b", "A", "B", "C", "D", "F", "H"}
Bytes == Seq(Byte)
Index == 0 .. BufferCap - 1

(* The ring r holds the bytes u, oldest at tail. *)
Holds(r, u) ==
    /\ r.buf \in [Index -> Byte] /\ r.head \in Index /\ r.tail \in Index
    /\ r.len \in 0 .. BufferCap /\ r.head = (r.tail + r.len) % BufferCap
    /\ u = [i \in 1 .. r.len |-> r.buf[(r.tail + i - 1) % BufferCap]]

(* What can be on the wire: nothing, one key that sends a single code, or a
   navigation key, whose code is preceded by E0 until E0 has been taken. *)
WireOK ==
    \/ wire = <<>> /\ ~extended
    \/ \E k \in Keys \ Extended, brk \in BOOLEAN :
          wire = <<Code(k, brk)>> /\ ~extended /\ (brk => k = "shift")
    \/ \E k \in Extended : wire = <<Code("E0", FALSE), Code(k, FALSE)>> /\ ~extended
    \/ \E k \in Extended : wire = <<Code(k, FALSE)>> /\ extended

TermInv == WireOK /\ Holds(Ring, unread) /\ extended \in BOOLEAN

-----------------------------------------------------------------------------
(* Remainders of what the ring adds up: below twice the capacity. *)
LEMMA Wraps ==
  ASSUME NEW a \in Nat, a < 2 * BufferCap
  PROVE  /\ a % BufferCap \in Index
         /\ a < BufferCap => a % BufferCap = a
         /\ a >= BufferCap => a % BufferCap = a - BufferCap
<1> DEFINE q == a \div BufferCap
           m == a % BufferCap
<1>1. BufferCap \in Nat /\ BufferCap > 0
  BY TerminalAssumption, SMTT(30)
<1>2. q \in Int /\ m \in 0 .. BufferCap - 1 /\ a = BufferCap * q + m
  BY <1>1, SMTT(30)
<1> HIDE DEF q, m
<1>3. q >= 0 /\ q < 2
  BY <1>1, <1>2, SMTT(30)
<1>4. q = 0 \/ q = 1
  BY <1>2, <1>3, SMTT(30)
<1>5. /\ m \in 0 .. BufferCap - 1
      /\ a < BufferCap => m = a
      /\ a >= BufferCap => m = a - BufferCap
  BY <1>1, <1>2, <1>4, SMTT(30)
<1> QED BY <1>5, Zenon DEF m, Index

(* Newest keeps the last bytes, as many as fit. *)
LEMMA NewestElements ==
  ASSUME NEW z \in Bytes
  PROVE  LET n == IF Len(z) > BufferCap THEN BufferCap ELSE Len(z)
         IN  /\ Newest(z) \in Bytes /\ Len(Newest(z)) = n
             /\ \A i \in 1 .. n : Newest(z)[i] = z[i + Len(z) - n]
<1>1. BufferCap \in Nat /\ BufferCap > 0 /\ Len(z) \in Nat
  BY TerminalAssumption, LenProperties, SMTT(30) DEF Bytes
<1>2. CASE Len(z) > BufferCap
  <2> DEFINE m == Len(z) - BufferCap + 1
  <2>1. m \in 1 .. (Len(z) + 1) /\ Len(z) \in (m - 1) .. Len(z)
    BY <1>1, <1>2, SMTT(30)
  <2>2. /\ SubSeq(z, m, Len(z)) \in Seq(Byte)
        /\ Len(SubSeq(z, m, Len(z))) = Len(z) - m + 1
        /\ \A i \in 1 .. (Len(z) - m + 1) : SubSeq(z, m, Len(z))[i] = z[m + i - 1]
    BY <2>1, <1>1, SubSeqProperties, SMTT(30) DEF Bytes
  <2>3. Len(z) - m + 1 = BufferCap /\ \A i \in 1 .. BufferCap : m + i - 1 = i + Len(z) - BufferCap
    BY <1>1, SMTT(30)
  <2> QED BY <1>2, <2>2, <2>3, Zenon DEF Newest, Bytes
<1>3. CASE ~(Len(z) > BufferCap)
  <2>1. \A i \in 1 .. Len(z) : i + Len(z) - Len(z) = i
    BY <1>1, SMTT(30)
  <2> QED BY <1>3, <2>1, Zenon DEF Newest
<1> QED BY <1>2, <1>3, Zenon

(* Dropping the oldest bytes early makes no difference to what is newest. *)
LEMMA NewestTwice ==
  ASSUME NEW x \in Bytes, NEW y \in Bytes
  PROVE  Newest(Newest(x) \o y) = Newest(x \o y)
<1> DEFINE p == Newest(x)
           z == x \o y
           w == p \o y
           short == Newest(w)
           long == Newest(z)
<1>1. BufferCap \in Nat /\ BufferCap > 0 /\ Len(x) \in Nat /\ Len(y) \in Nat
  BY TerminalAssumption, LenProperties, SMTT(30) DEF Bytes
<1>2. CASE ~(Len(x) > BufferCap)
  BY <1>2, Zenon DEF Newest
<1>3. CASE Len(x) > BufferCap
  <2>1. p \in Bytes /\ Len(p) = BufferCap /\ \A i \in 1 .. BufferCap : p[i] = x[i + Len(x) - BufferCap]
    BY <1>3, NewestElements, Zenon
  <2> HIDE DEF p
  <2>2. /\ z \in Bytes /\ Len(z) = Len(x) + Len(y)
        /\ \A i \in 1 .. Len(x) + Len(y) : z[i] = IF i <= Len(x) THEN x[i] ELSE y[i - Len(x)]
    BY ConcatProperties, Zenon DEF Bytes
  <2>3. /\ w \in Bytes /\ Len(w) = Len(p) + Len(y)
        /\ \A i \in 1 .. Len(p) + Len(y) : w[i] = IF i <= Len(p) THEN p[i] ELSE y[i - Len(p)]
    BY <2>1, ConcatProperties, Zenon DEF Bytes
  <2> HIDE DEF z, w
  <2>4. /\ long \in Bytes /\ Len(long) = BufferCap
        /\ \A i \in 1 .. BufferCap : long[i] = z[i + Len(z) - BufferCap]
    <3>1. Len(z) > BufferCap
      BY <1>1, <1>3, <2>2, SMTT(30)
    <3> QED BY <2>2, <3>1, NewestElements, Zenon
  <2>5. /\ short \in Bytes /\ Len(short) = BufferCap
        /\ \A i \in 1 .. BufferCap : short[i] = w[i + Len(w) - BufferCap]
    <3>1. CASE Len(w) > BufferCap
      BY <2>3, <3>1, NewestElements, Zenon
    <3>2. CASE ~(Len(w) > BufferCap)
      <4>1. Len(w) = BufferCap
        BY <1>1, <2>1, <2>3, <3>2, SMTT(30)
      <4> QED BY <2>3, <3>2, <4>1, NewestElements, Zenon
    <3> QED BY <3>1, <3>2, Zenon
  <2> HIDE DEF long, short
  <2>6. ASSUME NEW i \in 1 .. BufferCap PROVE short[i] = long[i]
    <3>1. i + Len(w) - BufferCap = i + Len(y) /\ i + Len(y) \in 1 .. Len(p) + Len(y)
      BY <1>1, <2>1, <2>3, SMTT(30)
    <3>2. /\ i + Len(z) - BufferCap = i + Len(y) + Len(x) - BufferCap
          /\ i + Len(y) + Len(x) - BufferCap \in 1 .. Len(x) + Len(y)
      BY <1>1, <1>3, <2>2, SMTT(30)
    <3>3. short[i] = IF i + Len(y) <= BufferCap THEN p[i + Len(y)] ELSE y[i + Len(y) - BufferCap]
      <4>1. short[i] = w[i + Len(y)]
        BY <2>5, <3>1, Zenon
      <4>2. w[i + Len(y)] = IF i + Len(y) <= Len(p) THEN p[i + Len(y)] ELSE y[i + Len(y) - Len(p)]
        BY <2>3, <3>1, SMTT(30)
      <4> QED BY <2>1, <4>1, <4>2, SMTT(30)
    <3>4. long[i] = IF i + Len(y) + Len(x) - BufferCap <= Len(x) THEN x[i + Len(y) + Len(x) - BufferCap]
                    ELSE y[(i + Len(y) + Len(x) - BufferCap) - Len(x)]
      <4> DEFINE j == i + Len(y) + Len(x) - BufferCap
      <4>1. long[i] = z[j] /\ j \in 1 .. Len(x) + Len(y)
        BY <2>4, <3>2, Zenon
      <4> HIDE DEF j
      <4>2. z[j] = IF j <= Len(x) THEN x[j] ELSE y[j - Len(x)]
        BY <2>2, <4>1, SMTT(30)
      <4>3. long[i] = IF j <= Len(x) THEN x[j] ELSE y[j - Len(x)]
        BY <4>1, <4>2, SMTT(30)
      <4> QED BY <4>3, Zenon DEF j
    <3>5. /\ i + Len(y) + Len(x) - BufferCap <= Len(x) <=> i + Len(y) <= BufferCap
          /\ (i + Len(y) + Len(x) - BufferCap) - Len(x) = i + Len(y) - BufferCap
          /\ i + Len(y) <= BufferCap => i + Len(y) \in 1 .. BufferCap
      BY <1>1, SMTT(30)
    <3> QED BY <2>1, <3>3, <3>4, <3>5, Zenon
  <2>7. Len(short) = Len(long) /\ \A i \in 1 .. Len(short) : short[i] = long[i]
    BY <2>4, <2>5, <2>6, Zenon
  <2>8. short = long
    BY <2>4, <2>5, <2>7, SeqEqual, Zenon DEF Bytes
  <2> QED BY <2>8, Zenon DEF short, long, z, w, p
<1> QED BY <1>2, <1>3, Zenon

(* The bytes a ring holds, as a sequence. *)
LEMMA HeldBytes ==
  ASSUME NEW r, NEW u, Holds(r, u)
  PROVE  /\ u \in Bytes /\ Len(u) = r.len /\ r.len \in Nat /\ r.len <= BufferCap
         /\ \A i \in 1 .. r.len : u[i] = r.buf[(r.tail + i - 1) % BufferCap]
<1>1. BufferCap \in Nat /\ BufferCap > 0 /\ r.len \in 0 .. BufferCap /\ r.tail \in Index
  <2>1. BufferCap \in Nat /\ BufferCap > 0
    BY TerminalAssumption, SMTT(30)
  <2> QED BY <2>1, Zenon DEF Holds
<1>2. r.len \in Nat /\ r.len <= BufferCap
  BY <1>1, SMTT(30)
<1>3. ASSUME NEW i \in 1 .. r.len PROVE r.buf[(r.tail + i - 1) % BufferCap] \in Byte
  <2>1. r.tail + i - 1 \in Nat /\ r.tail + i - 1 < 2 * BufferCap
    BY <1>1, SMTT(30) DEF Index
  <2>2. (r.tail + i - 1) % BufferCap \in Index
    BY <2>1, Wraps, Zenon
  <2> QED BY <2>2, Zenon DEF Holds
<1>4. u = [i \in 1 .. r.len |-> r.buf[(r.tail + i - 1) % BufferCap]]
  BY Zenon DEF Holds
<1>5. u \in Seq(Byte) /\ Len(u) = r.len
  BY <1>2, <1>3, <1>4, IsASeq, LenProperties, SMTT(30)
<1> QED BY <1>2, <1>4, <1>5, Zenon DEF Bytes

(* The i-th slot from tail on, without the remainder. *)
SlotOf(tl, i) == IF tl + i - 1 < BufferCap THEN tl + i - 1 ELSE tl + i - 1 - BufferCap

(* (tail + i - 1) % BUFFER_CAP is that slot. *)
LEMMA SlotIs ==
  ASSUME NEW tl \in Index, NEW i \in 1 .. BufferCap + 1
  PROVE  (tl + i - 1) % BufferCap = SlotOf(tl, i) /\ SlotOf(tl, i) \in Index
<1>1. BufferCap \in Nat /\ BufferCap > 0
  BY TerminalAssumption, SMTT(30)
<1>2. tl + i - 1 \in Nat /\ tl + i - 1 < 2 * BufferCap
  BY <1>1, SMTT(30) DEF Index
<1> HIDE DEF Index
<1>3. /\ (tl + i - 1) % BufferCap \in Index
      /\ tl + i - 1 < BufferCap => (tl + i - 1) % BufferCap = tl + i - 1
      /\ tl + i - 1 >= BufferCap => (tl + i - 1) % BufferCap = (tl + i - 1) - BufferCap
  BY <1>2, Wraps, Zenon
<1>4. (tl + i - 1) - BufferCap = tl + i - 1 - BufferCap
  BY <1>1, <1>2, SMTT(30) DEF Index
<1>5. tl + i - 1 < BufferCap \/ tl + i - 1 >= BufferCap
  BY <1>1, <1>2, SMTT(30)
<1>6. (tl + i - 1) % BufferCap = SlotOf(tl, i)
  BY <1>1, <1>2, <1>3, <1>4, <1>5, SMTT(30) DEF SlotOf
<1> QED BY <1>3, <1>6, Zenon

(* Holds without remainders: elements by slot. *)
LEMMA HoldsBySlots ==
  ASSUME NEW r, r.buf \in [Index -> Byte], r.tail \in Index, r.len \in 0 .. BufferCap,
         r.head = SlotOf(r.tail, r.len + 1),
         NEW u \in Bytes, Len(u) = r.len, \A i \in 1 .. r.len : u[i] = r.buf[SlotOf(r.tail, i)]
  PROVE  Holds(r, u)
<1>1. BufferCap \in Nat /\ BufferCap > 0
  BY TerminalAssumption, SMTT(30)
<1>2. r.len + 1 \in 1 .. BufferCap + 1 /\ \A i \in 1 .. r.len : i \in 1 .. BufferCap + 1
  BY <1>1, SMTT(30)
<1>3. (r.tail + (r.len + 1) - 1) % BufferCap = r.head /\ r.head \in Index
  BY <1>2, SlotIs, Zenon
<1>4. r.tail + (r.len + 1) - 1 = r.tail + r.len
  BY <1>1, SMTT(30) DEF Index
<1>5. r.head = (r.tail + r.len) % BufferCap
  BY <1>3, <1>4, Zenon
<1>6. \A i \in 1 .. r.len : u[i] = r.buf[(r.tail + i - 1) % BufferCap]
  BY <1>2, SlotIs, Zenon
<1>7. u = [i \in 1 .. Len(u) |-> u[i]]
  BY LenProperties, SMTT(30) DEF Bytes
<1>8. u = [i \in 1 .. r.len |-> r.buf[(r.tail + i - 1) % BufferCap]]
  BY <1>6, <1>7, Zenon
<1> QED BY <1>3, <1>5, <1>8, Zenon DEF Holds

(* And conversely. *)
LEMMA SlotsOfHolds ==
  ASSUME NEW r, NEW u, Holds(r, u)
  PROVE  /\ r.buf \in [Index -> Byte] /\ r.tail \in Index /\ r.len \in 0 .. BufferCap
         /\ r.head = SlotOf(r.tail, r.len + 1) /\ r.head \in Index
         /\ u \in Bytes /\ Len(u) = r.len
         /\ \A i \in 1 .. r.len : u[i] = r.buf[SlotOf(r.tail, i)]
<1>1. BufferCap \in Nat /\ BufferCap > 0
  BY TerminalAssumption, SMTT(30)
<1>2. /\ r.buf \in [Index -> Byte] /\ r.tail \in Index /\ r.len \in 0 .. BufferCap
      /\ r.head \in Index /\ r.head = (r.tail + r.len) % BufferCap
  BY Zenon DEF Holds
<1>3. r.len + 1 \in 1 .. BufferCap + 1 /\ \A i \in 1 .. r.len : i \in 1 .. BufferCap + 1
  BY <1>1, <1>2, SMTT(30)
<1>4. r.tail + (r.len + 1) - 1 = r.tail + r.len
  BY <1>1, <1>2, SMTT(30) DEF Index
<1>5. (r.tail + (r.len + 1) - 1) % BufferCap = SlotOf(r.tail, r.len + 1)
  BY <1>2, <1>3, SlotIs, Zenon
<1>6. \A i \in 1 .. r.len : (r.tail + i - 1) % BufferCap = SlotOf(r.tail, i)
  BY <1>2, <1>3, SlotIs, Zenon
<1>7. /\ u \in Bytes /\ Len(u) = r.len
      /\ \A i \in 1 .. r.len : u[i] = r.buf[(r.tail + i - 1) % BufferCap]
  BY HeldBytes, Zenon
<1> QED BY <1>2, <1>4, <1>5, <1>6, <1>7, Zenon

(* RingBuffer::push: the byte becomes the newest; a full ring loses its oldest. *)
LEMMA PushOK ==
  ASSUME NEW r, NEW u, Holds(r, u), NEW b \in Byte
  PROVE  Holds(push(r, b), Newest(Append(u, b)))
<1> DEFINE n == push(r, b)
           v == Append(u, b)
<1>1. BufferCap \in Nat /\ BufferCap > 0
  BY TerminalAssumption, SMTT(30)
<1>2. /\ r.buf \in [Index -> Byte] /\ r.tail \in Index /\ r.len \in 0 .. BufferCap
      /\ r.head = SlotOf(r.tail, r.len + 1) /\ r.head \in Index
      /\ u \in Bytes /\ Len(u) = r.len
      /\ \A i \in 1 .. r.len : u[i] = r.buf[SlotOf(r.tail, i)]
  BY SlotsOfHolds, Zenon
<1>3. /\ n.buf = [r.buf EXCEPT ![r.head] = b] /\ n.head = (r.head + 1) % BufferCap
      /\ n.tail = IF r.len = BufferCap THEN (r.tail + 1) % BufferCap ELSE r.tail
      /\ n.len = IF r.len = BufferCap THEN r.len ELSE r.len + 1
  BY Zenon DEF push
<1> HIDE DEF n
<1>4. /\ n.buf \in [Index -> Byte] /\ n.buf[r.head] = b
      /\ \A k \in Index : k # r.head => n.buf[k] = r.buf[k]
  BY <1>2, <1>3, SMTT(30)
<1>5. /\ v \in Bytes /\ Len(v) = r.len + 1 /\ v[r.len + 1] = b
      /\ \A i \in 1 .. r.len : v[i] = u[i]
  <2>1. /\ v \in Bytes /\ Len(v) = Len(u) + 1 /\ v[Len(u) + 1] = b
        /\ \A i \in 1 .. Len(u) : v[i] = u[i]
    <3>1. u \in Seq(Byte)
      BY <1>2, Zenon DEF Bytes
    <3>2. /\ Append(u, b) \in Seq(Byte) /\ Len(Append(u, b)) = Len(u) + 1
          /\ Append(u, b)[Len(u) + 1] = b
          /\ \A i \in 1 .. Len(u) : Append(u, b)[i] = u[i]
      BY <3>1, AppendProperties, SMTT(30)
    <3> QED BY <3>2, Zenon DEF Bytes
  <2> HIDE DEF v
  <2> QED BY <1>2, <2>1, Zenon
<1> HIDE DEF v
<1>6. \A k \in Index : (k + 1) % BufferCap = SlotOf(k, 2) /\ SlotOf(k, 2) \in Index
  <2> SUFFICES ASSUME NEW k \in Index PROVE (k + 1) % BufferCap = SlotOf(k, 2) /\ SlotOf(k, 2) \in Index
    BY Zenon
  <2>1. k + 2 - 1 = k + 1 /\ 2 \in 1 .. BufferCap + 1
    BY <1>1, SMTT(30) DEF Index
  <2> QED BY <2>1, SlotIs, Zenon
<1>7. CASE r.len = BufferCap
  <2>1. n.tail = SlotOf(r.tail, 2) /\ n.head = SlotOf(r.head, 2) /\ n.len = BufferCap /\ n.tail \in Index
    BY <1>2, <1>3, <1>6, <1>7, SMTT(30)
  <2>2. r.head = r.tail
    BY <1>1, <1>2, <1>7, SMTT(30) DEF SlotOf, Index
  <2>3. n.head = SlotOf(n.tail, n.len + 1)
    BY <1>1, <1>2, <2>1, <2>2, SMTT(30) DEF SlotOf, Index
  <2>4. /\ Newest(v) \in Bytes /\ Len(Newest(v)) = BufferCap
        /\ \A i \in 1 .. BufferCap : Newest(v)[i] = v[i + Len(v) - BufferCap]
    <3>1. Len(v) > BufferCap
      BY <1>1, <1>5, <1>7, SMTT(30)
    <3> QED BY <1>5, <3>1, NewestElements, Zenon
  <2>5. ASSUME NEW i \in 1 .. BufferCap PROVE Newest(v)[i] = n.buf[SlotOf(n.tail, i)]
    <3>1. Newest(v)[i] = v[i + 1]
      <4>1. i + Len(v) - BufferCap = i + 1
        BY <1>1, <1>5, <1>7, SMTT(30)
      <4> QED BY <2>4, <4>1, Zenon
    <3>2. CASE i = BufferCap
      <4>1. SlotOf(n.tail, i) = r.head
        <5> DEFINE t == r.tail
                   m == n.tail
        <5>1. t \in Int /\ 0 <= t /\ t < BufferCap /\ m = (IF t + 1 < BufferCap THEN t + 1 ELSE 0)
          BY <1>1, <1>2, <2>1, SMTT(30) DEF SlotOf, Index
        <5> HIDE DEF t, m
        <5>2. SlotOf(m, BufferCap) = t
          BY <1>1, <5>1, SMTT(30) DEF SlotOf
        <5> QED BY <2>2, <3>2, <5>2, Zenon DEF t, m
      <4> QED BY <1>4, <1>5, <1>7, <3>1, <3>2, <4>1, Zenon
    <3>3. CASE i # BufferCap
      <4>1. i + 1 \in 1 .. r.len
        BY <1>1, <1>7, <3>3, SMTT(30)
      <4>2. SlotOf(n.tail, i) = SlotOf(r.tail, i + 1) /\ SlotOf(n.tail, i) # r.head
            /\ SlotOf(n.tail, i) \in Index
        <5> DEFINE t == r.tail
                   m == n.tail
        <5>1. t \in Int /\ 0 <= t /\ t < BufferCap /\ r.head = t
              /\ m = (IF t + 1 < BufferCap THEN t + 1 ELSE 0)
          BY <1>1, <1>2, <2>1, <2>2, SMTT(30) DEF SlotOf, Index
        <5> HIDE DEF t, m
        <5>2. i \in Int /\ 1 <= i /\ i < BufferCap
          BY <1>1, <3>3, SMTT(30)
        <5>3. SlotOf(m, i) = SlotOf(t, i + 1) /\ SlotOf(m, i) # t /\ SlotOf(m, i) \in Index
          BY <1>1, <5>1, <5>2, SMTT(30) DEF SlotOf, Index
        <5> QED BY <5>1, <5>3, Zenon DEF t, m
      <4>3. v[i + 1] = r.buf[SlotOf(r.tail, i + 1)]
        BY <1>2, <1>5, <4>1, Zenon
      <4> QED BY <1>4, <3>1, <4>2, <4>3, Zenon
    <3> QED BY <3>2, <3>3, Zenon
  <2>6. n.len \in 0 .. BufferCap
    BY <1>1, <2>1, SMTT(30)
  <2>7. Holds(n, Newest(v))
    BY <1>4, <2>1, <2>3, <2>4, <2>5, <2>6, HoldsBySlots, Zenon
  <2> QED BY <2>7, Zenon DEF n, v
<1>8. CASE r.len # BufferCap
  <2>1. n.tail = r.tail /\ n.head = SlotOf(r.head, 2) /\ n.len = r.len + 1
    BY <1>2, <1>3, <1>6, <1>8, SMTT(30)
  <2>2. n.head = SlotOf(n.tail, n.len + 1) /\ n.len \in 0 .. BufferCap
    <3> DEFINE t == r.tail
               l == r.len
               h == r.head
    <3>1. /\ t \in Int /\ 0 <= t /\ t < BufferCap /\ l \in Int /\ 0 <= l /\ l < BufferCap
          /\ h = (IF t + l < BufferCap THEN t + l ELSE (t + l) - BufferCap)
      BY <1>1, <1>2, <1>8, SMTT(30) DEF SlotOf, Index
    <3> HIDE DEF t, l, h
    <3>2. SlotOf(h, 2) = SlotOf(t, (l + 1) + 1) /\ l + 1 \in 0 .. BufferCap
      BY <1>1, <3>1, SMTT(30) DEF SlotOf
    <3> QED BY <2>1, <3>2, Zenon DEF t, l, h
  <2>3. Newest(v) = v
    <3>1. ~(Len(v) > BufferCap)
      BY <1>1, <1>2, <1>5, <1>8, SMTT(30)
    <3> QED BY <3>1, Zenon DEF Newest
  <2>4. ASSUME NEW i \in 1 .. n.len PROVE v[i] = n.buf[SlotOf(n.tail, i)]
    <3>1. CASE i = r.len + 1
      BY <1>2, <1>4, <1>5, <2>1, <3>1, Zenon
    <3>2. CASE i # r.len + 1
      <4>1. i \in 1 .. r.len
        BY <1>1, <1>2, <2>1, <3>2, SMTT(30)
      <4>2. SlotOf(n.tail, i) # r.head /\ SlotOf(n.tail, i) \in Index
        <5> DEFINE t == r.tail
                   l == r.len
                   h == r.head
        <5>1. /\ t \in Int /\ 0 <= t /\ t < BufferCap /\ l \in Int /\ l < BufferCap
              /\ 1 <= i /\ i <= l /\ i \in Int
              /\ h = (IF t + l < BufferCap THEN t + l ELSE (t + l) - BufferCap)
          BY <1>1, <1>2, <1>8, <4>1, SMTT(30) DEF SlotOf, Index
        <5> HIDE DEF t, l, h
        <5>2. SlotOf(t, i) # h /\ SlotOf(t, i) \in Index
          BY <1>1, <5>1, SMTT(30) DEF SlotOf, Index
        <5> QED BY <2>1, <5>2, Zenon DEF t, h
      <4>3. v[i] = r.buf[SlotOf(n.tail, i)]
        BY <1>2, <1>5, <2>1, <4>1, Zenon
      <4> QED BY <1>4, <4>2, <4>3, Zenon
    <3> QED BY <3>1, <3>2, Zenon
  <2>5. n.tail \in Index /\ Len(v) = n.len
    BY <1>2, <1>5, <2>1, Zenon
  <2>6. Holds(n, v)
    BY <1>4, <1>5, <2>2, <2>4, <2>5, HoldsBySlots, Zenon
  <2> QED BY <2>3, <2>6, Zenon DEF n, v
<1> QED BY <1>7, <1>8, Zenon

(* The first k bytes, or all there are. *)
Prefix(bytes, k) == SubSeq(bytes, 1, IF k <= Len(bytes) THEN k ELSE Len(bytes))

(* push_escape, one byte: after k + 1 rounds the ring holds the newest of what
   was unread and the first k + 1 bytes. *)
LEMMA PushNthOK ==
  ASSUME NEW u \in Bytes, NEW bytes \in Bytes, NEW k \in Nat, NEW r,
         Holds(r, Newest(u \o Prefix(bytes, k)))
  PROVE  Holds(push_nth(r, bytes, k + 1), Newest(u \o Prefix(bytes, k + 1)))
<1> DEFINE n == Len(bytes)
<1>1. n \in Nat
  BY LenProperties, Zenon DEF Bytes
<1>2. CASE k + 1 <= n
  <2> DEFINE s == SubSeq(bytes, 1, k)
             b == bytes[k + 1]
  <2>1. /\ k <= n /\ 1 \in 1 .. n /\ k + 1 \in 1 .. n /\ (k + 1) - 1 = k
        /\ \A i \in 1 .. k : i \in 1 .. n
    BY <1>1, <1>2, SMTT(30)
  <2>2. b \in Byte
    BY <2>1, ElementOfSeq, Zenon DEF Bytes
  <2>3. s \in Bytes
    <3>1. \A i \in 1 .. k : bytes[i] \in Byte
      BY <2>1, ElementOfSeq, Zenon DEF Bytes
    <3>2. k \in Int /\ 1 \in Int
      BY SMTT(30)
    <3> QED BY <3>1, <3>2, SubSeqProperties, Zenon DEF Bytes
  <2>4. SubSeq(bytes, 1, k + 1) = s \o <<b>>
    BY <2>1, SubSeqRecursiveSecond, Zenon DEF Bytes
  <2>5. Prefix(bytes, k) = s /\ Prefix(bytes, k + 1) = s \o <<b>>
    BY <1>2, <2>1, <2>4, Zenon DEF Prefix
  <2>6. push_nth(r, bytes, k + 1) = push(r, b)
    BY <1>2, Zenon DEF push_nth
  <2> HIDE DEF s, b
  <2>7. u \o s \in Bytes /\ <<b>> \in Bytes
    <3>1. <<b>> \in Seq(Byte)
      BY <2>2, SMTT(30)
    <3> QED BY <2>3, <3>1, ConcatProperties, Zenon DEF Bytes
  <2>8. Newest(u \o s) \in Bytes
    BY <2>7, NewestElements, Zenon
  <2>9. Append(Newest(u \o s), b) = Newest(u \o s) \o <<b>>
    BY <2>2, <2>8, AppendIsConcat, Zenon DEF Bytes
  <2>10. Newest(Newest(u \o s) \o <<b>>) = Newest((u \o s) \o <<b>>)
    BY <2>7, NewestTwice, Zenon
  <2>11. (u \o s) \o <<b>> = u \o (s \o <<b>>)
    <3>1. u \in Seq(Byte) /\ s \in Seq(Byte) /\ <<b>> \in Seq(Byte)
      BY <2>3, <2>7, Zenon DEF Bytes
    <3> QED BY <3>1, ConcatAssociative, SMTT(30)
  <2>12. Holds(push(r, b), Newest(Append(Newest(u \o s), b)))
    BY <2>2, <2>5, PushOK, Zenon
  <2> QED BY <2>5, <2>6, <2>9, <2>10, <2>11, <2>12, Zenon
<1>3. CASE ~(k + 1 <= n)
  <2>1. k <= n => k = n
    BY <1>1, <1>3, SMTT(30)
  <2>2. Prefix(bytes, k + 1) = Prefix(bytes, k)
    BY <1>3, <2>1, Zenon DEF Prefix
  <2>3. push_nth(r, bytes, k + 1) = r
    BY <1>3, Zenon DEF push_nth
  <2> QED BY <2>2, <2>3, Zenon
<1> QED BY <1>2, <1>3, Zenon

(* push_escape and the single byte of an ordinary key. *)
LEMMA PushAllOK ==
  ASSUME Holds(Ring, unread), NEW bytes \in Bytes, Len(bytes) <= 4, PushAll(bytes)
  PROVE  Holds(Ring, unread)'
<1> DEFINE r1 == push_nth(Ring, bytes, 1)
           r2 == push_nth(r1, bytes, 2)
           r3 == push_nth(r2, bytes, 3)
           r4 == push_nth(r3, bytes, 4)
<1>1. unread \in Bytes /\ Len(unread) <= BufferCap /\ Len(bytes) \in Nat
  BY HeldBytes, LenProperties, Zenon DEF Bytes
<1>2. Newest(unread \o Prefix(bytes, 0)) = unread
  <2>1. Prefix(bytes, 0) = <<>>
    <3>1. 0 <= Len(bytes) /\ 0 < 1 /\ 0 \in Int /\ 1 \in Int
      BY <1>1, SMTT(30)
    <3> QED BY <3>1, SubSeqEmpty, Zenon DEF Prefix
  <2>2. unread \o <<>> = unread
    BY <1>1, ConcatEmptySeq, Zenon DEF Bytes
  <2>3. ~(Len(unread) > BufferCap)
    BY <1>1, TerminalAssumption, LenProperties, SMTT(30) DEF Bytes
  <2> QED BY <2>1, <2>2, <2>3, Zenon DEF Newest
<1>3. 0 + 1 = 1 /\ 1 + 1 = 2 /\ 2 + 1 = 3 /\ 3 + 1 = 4
  BY SMTT(30)
<1>4. 0 \in Nat /\ 1 \in Nat /\ 2 \in Nat /\ 3 \in Nat
  BY SMTT(30)
<1>5. Holds(r1, Newest(unread \o Prefix(bytes, 1)))
  BY <1>1, <1>2, <1>3, <1>4, PushNthOK, Zenon
<1> HIDE DEF r1
<1>6. Holds(r2, Newest(unread \o Prefix(bytes, 2)))
  BY <1>1, <1>3, <1>4, <1>5, PushNthOK, Zenon
<1> HIDE DEF r2
<1>7. Holds(r3, Newest(unread \o Prefix(bytes, 3)))
  BY <1>1, <1>3, <1>4, <1>6, PushNthOK, Zenon
<1> HIDE DEF r3
<1>8. Holds(r4, Newest(unread \o Prefix(bytes, 4)))
  BY <1>1, <1>3, <1>4, <1>7, PushNthOK, Zenon
<1>9. Prefix(bytes, 4) = bytes
  <2>1. 4 <= Len(bytes) => 4 = Len(bytes)
    <3>1. \A n \in Nat : n <= 4 /\ 4 <= n => 4 = n
      BY SMTT(30)
    <3> QED BY <1>1, <3>1, Zenon
  <2>2. SubSeq(bytes, 1, Len(bytes)) = bytes
    BY SubSeqFull, Zenon DEF Bytes
  <2> QED BY <2>1, <2>2, Zenon DEF Prefix
<1>10. /\ buf' = r4.buf /\ head' = r4.head /\ tail' = r4.tail /\ len' = r4.len
       /\ unread' = Newest(unread \o bytes)
  BY Zenon DEF PushAll, r1, r2, r3
<1> HIDE DEF r4
<1>11. Holds(r4, unread')
  BY <1>8, <1>9, <1>10, Zenon
<1> QED BY <1>10, <1>11, Zenon DEF Holds, Ring

(* RingBuffer::pop: the oldest byte is gone. *)
LEMMA PopRing ==
  ASSUME NEW r, NEW u, Holds(r, u), r.len > 0,
         NEW n, n.buf = [r.buf EXCEPT ![r.tail] = "NUL"], n.tail = (r.tail + 1) % BufferCap,
         n.len = r.len - 1, n.head = r.head
  PROVE  Holds(n, Tail(u))
<1> DEFINE v == Tail(u)
<1>1. BufferCap \in Nat /\ BufferCap > 0
  BY TerminalAssumption, SMTT(30)
<1>2. /\ r.buf \in [Index -> Byte] /\ r.tail \in Index /\ r.len \in 0 .. BufferCap
      /\ r.head = SlotOf(r.tail, r.len + 1) /\ r.head \in Index
      /\ u \in Bytes /\ Len(u) = r.len
      /\ \A i \in 1 .. r.len : u[i] = r.buf[SlotOf(r.tail, i)]
  BY SlotsOfHolds, Zenon
<1>4. n.buf \in [Index -> Byte] /\ \A k \in Index : k # r.tail => n.buf[k] = r.buf[k]
  <2>1. "NUL" \in Byte
    BY Zenon DEF Byte
  <2> QED BY <1>2, <2>1, SMTT(30)
<1>5. n.tail = SlotOf(r.tail, 2) /\ n.tail \in Index
  <2>1. r.tail + 2 - 1 = r.tail + 1 /\ 2 \in 1 .. BufferCap + 1
    BY <1>1, <1>2, SMTT(30) DEF Index
  <2>2. (r.tail + 2 - 1) % BufferCap = SlotOf(r.tail, 2) /\ SlotOf(r.tail, 2) \in Index
    BY <1>2, <2>1, SlotIs, Zenon
  <2>3. n.tail = (r.tail + 2 - 1) % BufferCap
    BY <2>1, Zenon
  <2> QED BY <2>2, <2>3, Zenon
<1>6. u # <<>> /\ Len(u) - 1 = r.len - 1
  BY <1>1, <1>2, EmptySeq, SMTT(30) DEF Bytes
<1>7. v \in Bytes /\ Len(v) = n.len /\ \A i \in 1 .. n.len : v[i] = u[i + 1]
  <2>1. u \in Seq(Byte)
    BY <1>2, Zenon DEF Bytes
  <2>2. v \in Seq(Byte) /\ Len(v) = Len(u) - 1 /\ \A i \in 1 .. Len(v) : v[i] = u[i + 1]
    BY <1>6, <2>1, HeadTailProperties, SMTT(30)
  <2> HIDE DEF v
  <2>3. Len(v) = n.len
    BY <1>6, <2>2, Zenon
  <2> QED BY <2>2, <2>3, Zenon DEF Bytes
<1> HIDE DEF v
<1> DEFINE t == r.tail
           l == r.len
           m == n.tail
<1>8. /\ t \in Int /\ 0 <= t /\ t < BufferCap /\ l \in Int /\ 0 < l /\ l <= BufferCap
      /\ m = (IF t + 1 < BufferCap THEN t + 1 ELSE 0)
  BY <1>1, <1>2, <1>5, SMTT(30) DEF SlotOf, Index
<1>9. n.len \in 0 .. BufferCap /\ n.head = SlotOf(n.tail, n.len + 1)
  <2> HIDE DEF t, l, m
  <2>1. SlotOf(t, l + 1) = SlotOf(m, (l - 1) + 1) /\ l - 1 \in 0 .. BufferCap
    BY <1>1, <1>8, SMTT(30) DEF SlotOf
  <2> QED BY <1>2, <2>1, Zenon DEF t, l, m
<1>10. ASSUME NEW i \in 1 .. n.len PROVE v[i] = n.buf[SlotOf(n.tail, i)]
  <2>1. i \in Int /\ 1 <= i /\ i <= l - 1 /\ i + 1 \in 1 .. r.len
    BY <1>2, SMTT(30)
  <2>2. SlotOf(n.tail, i) = SlotOf(r.tail, i + 1) /\ SlotOf(n.tail, i) # r.tail /\ SlotOf(n.tail, i) \in Index
    <3> HIDE DEF t, l, m
    <3>1. SlotOf(m, i) = SlotOf(t, i + 1) /\ SlotOf(m, i) # t /\ SlotOf(m, i) \in Index
      BY <1>1, <1>8, <2>1, SMTT(30) DEF SlotOf, Index
    <3> QED BY <3>1, Zenon DEF t, m
  <2>3. v[i] = r.buf[SlotOf(r.tail, i + 1)]
    BY <1>2, <1>7, <2>1, Zenon
  <2> QED BY <1>4, <2>2, <2>3, Zenon
<1>11. Holds(n, v)
  BY <1>4, <1>5, <1>7, <1>9, <1>10, HoldsBySlots, Zenon
<1> QED BY <1>11, Zenon DEF v

(* pop on ASCII_QUEUE. *)
LEMMA PopOK ==
  ASSUME Holds(Ring, unread), pop, unread' = Tail(unread)
  PROVE  Holds(Ring, unread)'
<1> DEFINE n == [buf |-> buf', head |-> head', tail |-> tail', len |-> len']
<1>1. /\ Ring.len > 0 /\ n.buf = [Ring.buf EXCEPT ![Ring.tail] = "NUL"]
      /\ n.tail = (Ring.tail + 1) % BufferCap /\ n.len = Ring.len - 1 /\ n.head = Ring.head
  BY Zenon DEF pop, Ring
<1>2. Holds(n, Tail(unread))
  BY <1>1, PopRing, Zenon
<1> QED BY <1>2, Zenon DEF Holds, Ring

-----------------------------------------------------------------------------
(* What a scancode pushes is at most four bytes. *)
LEMMA EscapeBytes == ASSUME NEW k \in Extended PROVE EscapeOf[k] \in Bytes /\ Len(EscapeOf[k]) <= 4
<1>1. k \in {"up", "down", "right", "left", "home", "end", "delete"}
  BY SMTT(30) DEF Extended, EscapeOf
<1>2. \A a, b, c \in Byte : <<a, b, c>> \in Seq(Byte) /\ Len(<<a, b, c>>) <= 4
  BY SMTT(30)
<1>3. \A a, b, c, d \in Byte : <<a, b, c, d>> \in Seq(Byte) /\ Len(<<a, b, c, d>>) <= 4
  BY SMTT(30)
<1>4. /\ "ESC" \in Byte /\ "[" \in Byte /\ "A" \in Byte /\ "B" \in Byte /\ "C" \in Byte
      /\ "D" \in Byte /\ "H" \in Byte /\ "F" \in Byte /\ "3" \in Byte /\ "~" \in Byte
  BY Zenon DEF Byte
<1>5. CASE k = "up"
  BY <1>2, <1>4, <1>5, SMTT(30) DEF EscapeOf, Bytes
<1>6. CASE k = "down"
  BY <1>2, <1>4, <1>6, SMTT(30) DEF EscapeOf, Bytes
<1>7. CASE k = "right"
  BY <1>2, <1>4, <1>7, SMTT(30) DEF EscapeOf, Bytes
<1>8. CASE k = "left"
  BY <1>2, <1>4, <1>8, SMTT(30) DEF EscapeOf, Bytes
<1>9. CASE k = "home"
  BY <1>2, <1>4, <1>9, SMTT(30) DEF EscapeOf, Bytes
<1>10. CASE k = "end"
  BY <1>2, <1>4, <1>10, SMTT(30) DEF EscapeOf, Bytes
<1>11. CASE k = "delete"
  BY <1>3, <1>4, <1>11, SMTT(30) DEF EscapeOf, Bytes
<1> QED BY <1>1, <1>5, <1>6, <1>7, <1>8, <1>9, <1>10, <1>11, Zenon

(* So does an ordinary key: one byte, or none. *)
LEMMA AsciiByte ==
  ASSUME NEW k \in DOMAIN Unshifted
  PROVE  (IF Ascii(k) = "NUL" THEN <<>> ELSE <<Ascii(k)>>) \in Bytes
         /\ Len(IF Ascii(k) = "NUL" THEN <<>> ELSE <<Ascii(k)>>) <= 4
<1>1. k \in {"a", "b", "bs", "enter", "f1"}
  BY SMTT(30) DEF Unshifted
<1>2. Unshifted[k] \in {"a", "b", "BS", "NL", "NUL"} /\ Shifted[k] \in {"A", "B", "BS", "NL", "NUL"}
  BY <1>1, SMTT(30) DEF Unshifted, Shifted
<1>3. /\ \A c \in Lower : Upcase[c] \in Byte
      /\ \A c \in Upper : Downcase[c] \in Byte
  BY SMTT(30) DEF Lower, Upper, Upcase, Downcase, Byte
<1>4. \A c \in {"a", "b", "BS", "NL", "NUL", "A", "B"} : c \in Byte
  BY Zenon DEF Byte
<1>5. Ascii(k) \in Byte
  BY <1>2, <1>3, <1>4, SMTT(30) DEF Ascii
<1>6. \A c \in Byte : <<c>> \in Seq(Byte) /\ Len(<<c>>) <= 4
  BY SMTT(30)
<1>7. <<>> \in Seq(Byte) /\ Len(<<>>) <= 4
  BY SMTT(30)
<1> QED BY <1>5, <1>6, <1>7, Zenon DEF Bytes

(* One scancode leaves the wire well formed; after E0 it is that of a navigation
   key, and alone that of another one. *)
LEMMA ScancodeKey ==
  ASSUME TermInv, on_key_irq
  PROVE  /\ WireOK'
         /\ extended => Head(wire).c \in Extended
         /\ ~extended /\ Head(wire).c # "E0" => Head(wire).c \in Keys \ Extended
<1> DEFINE k == Head(wire).c
<1> SUFFICES /\ WireOK' /\ (extended => k \in Extended)
             /\ ~extended /\ k # "E0" => k \in Keys \ Extended
  BY Zenon
<1>0. wire # <<>> /\ wire' = Tail(wire) /\ extended' = (k = "E0")
  BY Zenon DEF on_key_irq
<1>1. "E0" \notin Extended /\ "E0" \notin Keys
  BY KeysAssumption, SMTT(30) DEF Extended, EscapeOf, Unshifted
<1>4. CASE \E key \in Keys \ Extended, b \in BOOLEAN : wire = <<Code(key, b)>> /\ ~extended
  <2>1. PICK key \in Keys \ Extended, b \in BOOLEAN : wire = <<Code(key, b)>> /\ ~extended
    BY <1>4, Zenon
  <2>2. k = key /\ wire' = <<>>
    BY <1>0, <2>1, SMTT(30) DEF Code
  <2>3. k # "E0" /\ ~extended'
    BY <1>0, <1>1, <2>2, Zenon
  <2> HIDE DEF k
  <2> QED BY <2>1, <2>2, <2>3, Zenon DEF WireOK
<1>5. CASE \E key \in Extended : wire = <<Code("E0", FALSE), Code(key, FALSE)>> /\ ~extended
  <2>1. PICK key \in Extended : wire = <<Code("E0", FALSE), Code(key, FALSE)>> /\ ~extended
    BY <1>5, Zenon
  <2>2. k = "E0" /\ wire' = <<Code(key, FALSE)>>
    <3>1. ASSUME NEW x, NEW y PROVE Tail(<<x, y>>) = <<y>>
      BY SMTT(30)
    <3>2. Tail(wire) = <<Code(key, FALSE)>>
      BY <2>1, <3>1, Zenon
    <3>3. k = "E0"
      BY <2>1, SMTT(30) DEF Code
    <3> QED BY <1>0, <3>2, <3>3, Zenon
  <2>3. extended'
    BY <1>0, <2>2, Zenon
  <2> HIDE DEF k
  <2> QED BY <2>1, <2>2, <2>3, Zenon DEF WireOK
<1>6. CASE \E key \in Extended : wire = <<Code(key, FALSE)>> /\ extended
  <2>1. PICK key \in Extended : wire = <<Code(key, FALSE)>> /\ extended
    BY <1>6, Zenon
  <2>2. k = key /\ wire' = <<>>
    BY <1>0, <2>1, SMTT(30) DEF Code
  <2>3. ~extended'
    BY <1>0, <1>1, <2>2, Zenon
  <2> HIDE DEF k
  <2> QED BY <2>1, <2>2, <2>3, Zenon DEF WireOK
<1> QED BY <1>0, <1>4, <1>5, <1>6, Zenon DEF TermInv, WireOK

(* What a scancode pushes is pushed in order. *)
LEMMA ScancodeOK == ASSUME TermInv, on_key_irq PROVE TermInv'
<1> DEFINE k == Head(wire).c
           brk == Head(wire).brk
<1>1. /\ wire # <<>> /\ wire' = Tail(wire) /\ extended' = (k = "E0")
      /\ \/ UNCHANGED <<ring, aux>>
         \/ extended /\ ~brk /\ Typed(k, EscapeOf[k])
         \/ ~extended /\ k \notin {"E0", "shift", "caps"} /\ ~brk
            /\ Typed(k, IF Ascii(k) = "NUL" THEN <<>> ELSE <<Ascii(k)>>)
  BY Zenon DEF on_key_irq
<1>2. /\ WireOK'
      /\ extended => k \in Extended
      /\ ~extended /\ k # "E0" => k \in Keys \ Extended
  BY ScancodeKey, Zenon
<1> HIDE DEF k, brk
<1>3. Holds(Ring, unread)
  BY Zenon DEF TermInv
<1>4. Holds(Ring, unread)'
  <2>1. CASE UNCHANGED <<ring, aux>>
    BY <1>3, <2>1, Zenon DEF Holds, Ring, ring, aux
  <2>2. CASE extended /\ Typed(k, EscapeOf[k])
    BY <1>2, <1>3, <2>2, EscapeBytes, PushAllOK, Zenon DEF Typed
  <2>3. CASE /\ ~extended /\ k \notin {"E0", "shift", "caps"}
             /\ Typed(k, IF Ascii(k) = "NUL" THEN <<>> ELSE <<Ascii(k)>>)
    <3>1. k \in DOMAIN Unshifted
      BY <1>2, <2>3, KeysAssumption, Zenon
    <3> QED BY <1>3, <2>3, <3>1, AsciiByte, PushAllOK, Zenon DEF Typed
  <2> QED BY <1>1, <2>1, <2>2, <2>3, Zenon
<1>5. extended' \in BOOLEAN
  BY <1>1, Zenon
<1> QED BY <1>2, <1>4, <1>5, Zenon DEF TermInv

(* A key goes down or up: only the wire changes. *)
LEMMA PressOK == ASSUME TermInv, NEW k \in Keys, NEW brk \in BOOLEAN, press(k, brk) PROVE TermInv'
<1>1. /\ wire = <<>> /\ (brk => k = "shift") /\ UNCHANGED <<kbd, ring, aux>>
      /\ wire' = (IF k \in Extended THEN <<Code("E0", FALSE)>> ELSE <<>>) \o <<Code(k, brk)>>
  BY Zenon DEF press
<1>2. extended' = extended /\ extended \in BOOLEAN /\ ~extended
  <2>1. \A x, y : <<x>> # <<>> /\ <<x, y>> # <<>>
    BY SMTT(30)
  <2> QED BY <1>1, <2>1, Zenon DEF TermInv, WireOK, kbd
<1>3. Holds(Ring, unread)'
  BY <1>1, Zenon DEF TermInv, Holds, Ring, ring, aux
<1>4. \A x, y : <<>> \o <<y>> = <<y>> /\ <<x>> \o <<y>> = <<x, y>>
  <2> SUFFICES ASSUME NEW x, NEW y PROVE <<>> \o <<y>> = <<y>> /\ <<x>> \o <<y>> = <<x, y>>
    BY Zenon
  <2> DEFINE S == {x, y}
  <2>1. <<y>> \in Seq(S) /\ <<x>> \in Seq(S) /\ <<x, y>> \in Seq(S)
    BY SMTT(30)
  <2>2. <<>> \o <<y>> = <<y>>
    BY <2>1, ConcatEmptySeq, Zenon
  <2>3. /\ Len(<<x>>) = 1 /\ Len(<<y>>) = 1 /\ Len(<<x, y>>) = 2
        /\ <<x>>[1] = x /\ <<y>>[1] = y /\ <<x, y>>[1] = x /\ <<x, y>>[2] = y
    BY SMTT(30)
  <2>4. <<x>> \o <<y>> = <<x, y>>
    <3> DEFINE u == <<x>>
               v == <<y>>
               w == <<x, y>>
    <3> HIDE DEF u, v, w, S
    <3>1. u \in Seq(S) /\ v \in Seq(S) /\ w \in Seq(S) /\ Len(u) = 1 /\ Len(v) = 1 /\ Len(w) = 2
          /\ u[1] = x /\ v[1] = y /\ w[1] = x /\ w[2] = y
      BY <2>1, <2>3, Zenon DEF u, v, w
    <3>2. u \o v \in Seq(S) /\ Len(u \o v) = 2 /\ (u \o v)[1] = x /\ (u \o v)[2] = y
      BY <3>1, ConcatProperties, SMTT(30)
    <3>3. \A i \in 1 .. 2 : (u \o v)[i] = w[i]
      BY <3>1, <3>2, SMTT(30)
    <3>4. u \o v = w
      BY <3>1, <3>2, <3>3, SeqEqual, SMTT(30)
    <3> QED BY <3>4, Zenon DEF u, v, w
  <2> QED BY <2>2, <2>4, Zenon
<1>5. "shift" \notin Extended
  BY SMTT(30) DEF Extended, EscapeOf
<1>6. WireOK'
  <2>1. CASE k \in Extended
    <3>1. brk = FALSE
      BY <1>1, <1>5, <2>1, Zenon
    <3> QED BY <1>1, <1>2, <1>4, <2>1, <3>1, Zenon DEF WireOK
  <2>2. CASE k \notin Extended
    BY <1>1, <1>2, <1>4, <2>2, Zenon DEF WireOK
  <2> QED BY <2>1, <2>2, Zenon
<1> QED BY <1>2, <1>3, <1>6, Zenon DEF TermInv

(* Every step keeps the invariant. *)
LEMMA TermStep == TermInv /\ [Next]_vars => TermInv'
<1> SUFFICES ASSUME TermInv, [Next]_vars PROVE TermInv'
  BY Zenon
<1>1. ASSUME UNCHANGED <<wire, kbd, ring, unread>> PROVE TermInv'
  BY <1>1, Zenon DEF TermInv, WireOK, Holds, Ring, kbd, ring
<1>2. ASSUME NEW p \in Procs, NEW n \in Maxes, sys_read(p, n) PROVE TermInv'
  BY <1>1, <1>2, Zenon DEF sys_read, aux
<1>3. ASSUME NEW p \in Procs, enter_read_line(p) PROVE TermInv'
  BY <1>1, <1>3, Zenon DEF enter_read_line, aux
<1>4. ASSUME NEW p \in Procs, leave_read_line(p) PROVE TermInv'
  BY <1>1, <1>4, Zenon DEF leave_read_line
<1>5. ASSUME NEW p \in Procs, next_byte(p) PROVE TermInv'
  <2>1. pop /\ unread' = Tail(unread) /\ UNCHANGED <<wire, kbd>>
    BY <1>5, Zenon DEF next_byte
  <2>2. Holds(Ring, unread)'
    BY <2>1, PopOK, Zenon DEF TermInv
  <2> QED BY <2>1, <2>2, Zenon DEF TermInv, WireOK, kbd
<1>6. CASE UNCHANGED vars
  BY <1>1, <1>6, Zenon DEF vars, kbd, ring
<1> QED BY <1>2, <1>3, <1>4, <1>5, <1>6, PressOK, ScancodeOK, Zenon DEF Next

(* Nothing is typed yet and the ring is empty. *)
LEMMA TermInit == Init => TermInv
<1> SUFFICES ASSUME Init PROVE TermInv
  BY Zenon
<1>1. /\ wire = <<>> /\ extended = FALSE /\ unread = <<>>
      /\ buf = [i \in 0 .. BufferCap - 1 |-> "NUL"] /\ head = 0 /\ tail = 0 /\ len = 0
  BY Zenon DEF Init
<1>2. BufferCap \in Nat /\ BufferCap > 0
  BY TerminalAssumption, SMTT(30)
<1>3. Ring.buf = buf /\ Ring.head = 0 /\ Ring.tail = 0 /\ Ring.len = 0
  BY <1>1, Zenon DEF Ring
<1>4. buf \in [Index -> Byte]
  BY <1>1, SMTT(30) DEF Index, Byte
<1>5. 0 \in Index /\ 0 \in 0 .. BufferCap /\ 0 = SlotOf(0, 0 + 1)
  BY <1>2, SMTT(30) DEF Index, SlotOf
<1>6. /\ unread \in Bytes /\ Len(unread) = 0
      /\ \A i \in 1 .. 0 : unread[i] = buf[SlotOf(0, i)]
  BY <1>1, SMTT(30) DEF Bytes
<1>7. Holds(Ring, unread)
  BY <1>3, <1>4, <1>5, <1>6, HoldsBySlots, Zenon
<1> QED BY <1>1, <1>7, Zenon DEF TermInv, WireOK

(* RingBuffer::push, pop and push_escape, for every BUFFER_CAP: the ring holds
   the newest unread bytes, in order. *)
THEOREM RingHoldsNewest == Spec => []RingKeepsNewest
<1>1. TermInv => RingKeepsNewest
  <2> SUFFICES ASSUME TermInv PROVE RingKeepsNewest
    BY Zenon
  <2>1. Holds(Ring, unread)
    BY Zenon DEF TermInv
  <2>2. Len(unread) = Ring.len
    BY <2>1, HeldBytes, Zenon
  <2> QED BY <2>1, <2>2, Zenon DEF RingKeepsNewest, Holds, Ring
<1> QED BY <1>1, TermInit, TermStep, PTL DEF Spec

-----------------------------------------------------------------------------
(***************************************************************************)
(* The line.  A user's line is what is left and right of the cursor; the   *)
(* reader's is one sequence and an index.                                  *)
(***************************************************************************)
Letters == {"a", "b", "A", "B"}

(* What a reader makes of its bytes, and what a user has in mind. *)
EscStates == {"none", "esc", "csi", "del"}
Editing == [max : Nat, line : Bytes, cursor : Nat, pos : Nat, esc : EscStates]
Lines == [left : Bytes, right : Bytes, pos : Nat]

(* The reader's line e is the line r, with the cursor between r's halves. *)
Agrees(e, r) ==
    /\ e \in Editing /\ r \in Lines
    /\ e.line = r.left \o r.right /\ e.cursor = Len(r.left)
    /\ e.pos = r.pos /\ r.pos <= Len(history)

-----------------------------------------------------------------------------
(* Lines put together are lines. *)
LEMMA Joined ==
  ASSUME NEW l \in Bytes, NEW r \in Bytes
  PROVE  l \o r \in Bytes
BY ConcatProperties, Zenon DEF Bytes

(* The order they are put together in makes no difference. *)
LEMMA Glue ==
  ASSUME NEW l \in Bytes, NEW c \in Bytes, NEW r \in Bytes
  PROVE  (l \o c) \o r = l \o (c \o r)
<1>1. l \in Seq(Byte) /\ c \in Seq(Byte) /\ r \in Seq(Byte)
  BY Zenon DEF Bytes
<1> QED BY <1>1, ConcatAssociative, SMTT(30)

(* Cutting a line where its halves meet. *)
LEMMA Halves ==
  ASSUME NEW l \in Bytes, NEW r \in Bytes
  PROVE  /\ l \o r \in Bytes /\ Len(l \o r) = Len(l) + Len(r)
         /\ Upto(l \o r, Len(l)) = l /\ From(l \o r, Len(l)) = r
<1> DEFINE z == l \o r
           x == SubSeq(z, 1, Len(l))
           y == SubSeq(z, Len(l) + 1, Len(z))
<1>1. Len(l) \in Nat /\ Len(r) \in Nat
  BY LenProperties, Zenon DEF Bytes
<1>2. /\ z \in Seq(Byte) /\ Len(z) = Len(l) + Len(r)
      /\ \A i \in 1 .. Len(l) + Len(r) : z[i] = IF i <= Len(l) THEN l[i] ELSE r[i - Len(l)]
  BY ConcatProperties, Zenon DEF Bytes
<1> HIDE DEF z
<1>3. x \in Seq(Byte) /\ Len(x) = Len(l) /\ \A i \in 1 .. Len(l) : x[i] = z[i]
  <2>1. 1 \in 1 .. Len(z) + 1 /\ Len(l) \in 1 - 1 .. Len(z)
    BY <1>1, <1>2, SMTT(30)
  <2>2. x \in Seq(Byte) /\ Len(x) = Len(l) - 1 + 1 /\ \A i \in 1 .. (Len(l) - 1 + 1) : x[i] = z[1 + i - 1]
    BY <1>2, <2>1, SubSeqProperties, SMTT(30)
  <2> QED BY <1>1, <2>2, SMTT(30)
<1>4. y \in Seq(Byte) /\ Len(y) = Len(r) /\ \A i \in 1 .. Len(r) : y[i] = z[Len(l) + i]
  <2>1. Len(l) + 1 \in 1 .. Len(z) + 1 /\ Len(z) \in (Len(l) + 1) - 1 .. Len(z)
    BY <1>1, <1>2, SMTT(30)
  <2>2. /\ y \in Seq(Byte) /\ Len(y) = Len(z) - (Len(l) + 1) + 1
        /\ \A i \in 1 .. (Len(z) - (Len(l) + 1) + 1) : y[i] = z[(Len(l) + 1) + i - 1]
    BY <1>2, <2>1, SubSeqProperties, SMTT(30)
  <2> QED BY <1>1, <1>2, <2>2, SMTT(30)
<1> HIDE DEF x, y
<1>5. x = l
  <2>1. \A i \in 1 .. Len(l) : x[i] = l[i]
    BY <1>1, <1>2, <1>3, SMTT(30)
  <2> QED BY <1>3, <2>1, SeqEqual, Zenon DEF Bytes
<1>6. y = r
  <2>1. \A i \in 1 .. Len(r) : y[i] = r[i]
    BY <1>1, <1>2, <1>4, SMTT(30)
  <2> QED BY <1>4, <2>1, SeqEqual, Zenon DEF Bytes
<1> QED BY <1>2, <1>5, <1>6, Zenon DEF x, y, z, Upto, From, Bytes

(* A line is its last byte after all others, and its first before all others. *)
LEMMA Ends ==
  ASSUME NEW s \in Bytes, s # <<>>
  PROVE  /\ DropLast(s) \in Bytes /\ Len(DropLast(s)) = Len(s) - 1 /\ <<s[Len(s)]>> \in Bytes
         /\ s = DropLast(s) \o <<s[Len(s)]>>
         /\ Tail(s) \in Bytes /\ <<Head(s)>> \in Bytes /\ s = <<Head(s)>> \o Tail(s)
         /\ s[Len(s)] \in Byte /\ Head(s) \in Byte /\ Len(s) \in Nat \ {0}
<1> DEFINE n == Len(s)
           x == SubSeq(s, 1, n - 1)
<1>1. n \in Nat \ {0} /\ s[n] \in Byte /\ Head(s) \in Byte /\ Head(s) = s[1]
  BY LenProperties, EmptySeq, SMTT(30) DEF Bytes
<1>2. <<s[n]>> \in Bytes /\ <<Head(s)>> \in Bytes
  BY <1>1, SMTT(30) DEF Bytes
<1>3. Tail(s) \in Bytes
  BY HeadTailProperties, Zenon DEF Bytes
<1>4. x \in Seq(Byte) /\ Len(x) = n - 1
  <2>1. \A i \in 1 .. n - 1 : s[i] \in Byte
    BY <1>1, ElementOfSeq, SMTT(30) DEF Bytes
  <2> DEFINE m == n - 1
             y == SubSeq(s, 1, m)
  <2>2. m \in Int /\ 1 \in Int /\ m >= 0
    BY <1>1, SMTT(30)
  <2>3. \A i \in 1 .. m : s[i] \in Byte
    BY <2>1, Zenon
  <2> HIDE DEF m
  <2>4. y \in Seq(Byte) /\ Len(y) = IF 1 <= m THEN m - 1 + 1 ELSE 0
    BY <2>2, <2>3, SubSeqProperties, SMTT(30)
  <2> HIDE DEF y
  <2>5. y \in Seq(Byte) /\ Len(y) = m
    BY <2>2, <2>4, SMTT(30)
  <2> QED BY <2>5, Zenon DEF y, m
<1>5. s = SubSeq(s, 1, n) /\ 1 \in 1 .. n /\ n \in 1 .. n
  BY <1>1, SubSeqFull, SMTT(30) DEF Bytes
<1>6. SubSeq(s, 1, n) = x \o <<s[n]>>
  BY <1>5, SubSeqRecursiveSecond, Zenon DEF Bytes
<1>7. SubSeq(s, 1, n) = <<s[1]>> \o SubSeq(s, 1 + 1, n)
  BY <1>5, SubSeqRecursiveFirst, Zenon DEF Bytes
<1>8. Tail(s) = SubSeq(s, 2, n) /\ 1 + 1 = 2
  BY TailIsSubSeq, SMTT(30) DEF Bytes
<1> QED BY <1>1, <1>2, <1>3, <1>4, <1>5, <1>6, <1>7, <1>8, Zenon DEF DropLast, Upto, Bytes

(* Taking out the byte before the cursor, and the one behind it. *)
LEMMA Shorter ==
  ASSUME NEW l \in Bytes, NEW r \in Bytes
  PROVE  /\ l # <<>> => Without(l \o r, Len(l) - 1) = DropLast(l) \o r
         /\ r # <<>> => Without(l \o r, Len(l)) = l \o Tail(r)
<1>1. ASSUME l # <<>> PROVE Without(l \o r, Len(l) - 1) = DropLast(l) \o r
  <2> DEFINE d == DropLast(l)
             c == <<l[Len(l)]>>
  <2>1. d \in Bytes /\ Len(d) = Len(l) - 1 /\ c \in Bytes /\ l = d \o c /\ Len(l) \in Nat
    BY <1>1, Ends, Zenon
  <2> HIDE DEF d, c
  <2>2. l \o r = d \o (c \o r) /\ c \o r \in Bytes
    <3>0. d \in Bytes /\ c \in Bytes
      BY <2>1, Zenon
    <3>1. (d \o c) \o r = d \o (c \o r)
      BY <3>0, Glue, ZenonT(30)
    <3>3. c \o r \in Bytes
      BY <3>0, Joined, Zenon
    <3>2. l \o r = (d \o c) \o r
      BY <2>1, Zenon
    <3> QED BY <3>1, <3>2, <3>3, Zenon
  <2>3. Upto(l \o r, Len(l) - 1) = d
    BY <2>1, <2>2, Halves, Zenon
  <2>4. From(l \o r, Len(l)) = r
    BY Halves, Zenon
  <2>5. (Len(l) - 1) + 1 = Len(l)
    BY <2>1, SMTT(30)
  <2> QED BY <2>3, <2>4, <2>5, Zenon DEF Without, d
<1>2. ASSUME r # <<>> PROVE Without(l \o r, Len(l)) = l \o Tail(r)
  <2> DEFINE c == <<Head(r)>>
             t == Tail(r)
  <2>1. c \in Bytes /\ t \in Bytes /\ r = c \o t
    BY <1>2, Ends, Zenon
  <2>2. Len(c) = 1
    BY SMTT(30)
  <2> HIDE DEF c, t
  <2>3. l \o r = (l \o c) \o t /\ l \o c \in Bytes
    <3>0. c \in Bytes /\ t \in Bytes
      BY <2>1, Zenon
    <3>1. (l \o c) \o t = l \o (c \o t)
      BY <3>0, Glue, ZenonT(30)
    <3>2. l \o r = l \o (c \o t)
      BY <2>1, Zenon
    <3>3. l \o c \in Bytes
      BY <3>0, Joined, Zenon
    <3> QED BY <3>1, <3>2, <3>3, Zenon
  <2>6. Len(l \o c) = Len(l) + 1
    BY <2>1, <2>2, Halves, ZenonT(30)
  <2>4. From(l \o r, Len(l) + 1) = t
    <3>1. l \o c \in Bytes /\ t \in Bytes
      BY <2>1, <2>3, Zenon
    <3>2. From((l \o c) \o t, Len(l \o c)) = t
      BY <3>1, Halves, ZenonT(30)
    <3> QED BY <2>3, <2>6, <3>2, Zenon
  <2>5. Upto(l \o r, Len(l)) = l
    BY Halves, Zenon
  <2> QED BY <2>4, <2>5, Zenon DEF Without, t
<1> QED BY <1>1, <1>2, Zenon

(* Moving the cursor leaves the line. *)
LEMMA Moved ==
  ASSUME NEW l \in Bytes, NEW r \in Bytes
  PROVE  /\ l # <<>> => DropLast(l) \o (<<l[Len(l)]>> \o r) = l \o r /\ <<l[Len(l)]>> \o r \in Bytes
         /\ r # <<>> => /\ Append(l, Head(r)) \o Tail(r) = l \o r
                        /\ Append(l, Head(r)) \in Bytes /\ Len(Append(l, Head(r))) = Len(l) + 1
         /\ <<>> \o (l \o r) = l \o r /\ (l \o r) \o <<>> = l \o r
<1>1. ASSUME l # <<>>
      PROVE  DropLast(l) \o (<<l[Len(l)]>> \o r) = l \o r /\ <<l[Len(l)]>> \o r \in Bytes
  <2> DEFINE d == DropLast(l)
             c == <<l[Len(l)]>>
  <2>1. d \in Bytes /\ c \in Bytes /\ l = d \o c
    BY <1>1, Ends, Zenon
  <2> HIDE DEF d, c
  <2>2. d \o (c \o r) = l \o r /\ c \o r \in Bytes
    <3>0. d \in Bytes /\ c \in Bytes
      BY <2>1, Zenon
    <3>1. (d \o c) \o r = d \o (c \o r)
      BY <3>0, Glue, ZenonT(30)
    <3>3. c \o r \in Bytes
      BY <3>0, Joined, Zenon
    <3>2. l \o r = (d \o c) \o r
      BY <2>1, Zenon
    <3> QED BY <3>1, <3>2, <3>3, Zenon
  <2> QED BY <2>2, Zenon DEF d, c
<1>2. ASSUME r # <<>>
      PROVE  /\ Append(l, Head(r)) \o Tail(r) = l \o r
             /\ Append(l, Head(r)) \in Bytes /\ Len(Append(l, Head(r))) = Len(l) + 1
  <2>1. <<Head(r)>> \in Bytes /\ Tail(r) \in Bytes /\ r = <<Head(r)>> \o Tail(r) /\ Head(r) \in Byte
    BY <1>2, Ends, Zenon
  <2>2. /\ Append(l, Head(r)) = l \o <<Head(r)>>
        /\ Append(l, Head(r)) \in Bytes /\ Len(Append(l, Head(r))) = Len(l) + 1
    BY <2>1, AppendIsConcat, AppendProperties, Zenon DEF Bytes
  <2> DEFINE c == <<Head(r)>>
             t == Tail(r)
  <2>3. c \in Bytes /\ t \in Bytes /\ r = c \o t /\ Append(l, Head(r)) = l \o c
    BY <2>1, <2>2, Zenon
  <2> HIDE DEF c, t
  <2>4. (l \o c) \o t = l \o r
    <3>0. c \in Bytes /\ t \in Bytes
      BY <2>3, Zenon
    <3>1. (l \o c) \o t = l \o (c \o t)
      BY <3>0, Glue, ZenonT(30)
    <3>2. l \o r = l \o (c \o t)
      BY <2>3, Zenon
    <3> QED BY <3>1, <3>2, Zenon
  <2> QED BY <2>2, <2>3, <2>4, Zenon DEF t
<1>3. l \o r \in Bytes
  BY Halves, Zenon
<1> QED BY <1>1, <1>2, <1>3, ConcatEmptySeq, Zenon DEF Bytes

(* Typing a byte between the halves. *)
LEMMA Longer ==
  ASSUME NEW l \in Bytes, NEW r \in Bytes, NEW b \in Byte
  PROVE  /\ Upto(l \o r, Len(l)) \o <<b>> \o From(l \o r, Len(l)) = Append(l, b) \o r
         /\ Append(l, b) \in Bytes /\ Len(Append(l, b)) = Len(l) + 1
<1>1. Upto(l \o r, Len(l)) = l /\ From(l \o r, Len(l)) = r
  BY Halves, Zenon
<1>2. Append(l, b) = l \o <<b>> /\ Append(l, b) \in Bytes /\ Len(Append(l, b)) = Len(l) + 1
  BY AppendIsConcat, AppendProperties, Zenon DEF Bytes
<1> QED BY <1>1, <1>2, Zenon

(* What Arrow does to the reader's state, key by key; the echo is left out. *)
LEMMA ArrowCases ==
  ASSUME NEW e
  PROVE  /\ Arrow(e, "left").e = IF e.cursor > 0 THEN [e EXCEPT !.cursor = @ - 1] ELSE e
         /\ Arrow(e, "right").e = IF e.cursor < Len(e.line) THEN [e EXCEPT !.cursor = @ + 1] ELSE e
         /\ Arrow(e, "home").e = [e EXCEPT !.cursor = 0]
         /\ Arrow(e, "end").e = [e EXCEPT !.cursor = Len(e.line)]
         /\ Arrow(e, "delete").e = IF e.cursor < Len(e.line)
                                   THEN [e EXCEPT !.line = Without(e.line, e.cursor)] ELSE e
<1>1. \A x, y : Edit(x, y).e = x
  BY Zenon DEF Edit
<1>2. Arrow(e, "left").e = IF e.cursor > 0 THEN [e EXCEPT !.cursor = @ - 1] ELSE e
  <2>1. CASE e.cursor > 0
    <3>1. Arrow(e, "left") = Edit([e EXCEPT !.cursor = @ - 1], <<cursor_left(1)>>)
      BY <2>1, Zenon DEF Arrow
    <3> QED BY <2>1, <3>1, <1>1, Zenon
  <2>2. CASE ~(e.cursor > 0)
    <3>1. Arrow(e, "left") = Edit(e, <<>>)
      BY <2>2, Zenon DEF Arrow
    <3> QED BY <2>2, <3>1, <1>1, Zenon
  <2> QED BY <2>1, <2>2, Zenon
<1>3. Arrow(e, "right").e = IF e.cursor < Len(e.line) THEN [e EXCEPT !.cursor = @ + 1] ELSE e
  <2>1. CASE e.cursor < Len(e.line)
    <3>1. Arrow(e, "right") = Edit([e EXCEPT !.cursor = @ + 1], <<Put(e.line[e.cursor + 1])>>)
      BY <2>1, Zenon DEF Arrow
    <3> QED BY <2>1, <3>1, <1>1, Zenon
  <2>2. CASE ~(e.cursor < Len(e.line))
    <3>1. Arrow(e, "right") = Edit(e, <<>>)
      BY <2>2, Zenon DEF Arrow
    <3> QED BY <2>2, <3>1, <1>1, Zenon
  <2> QED BY <2>1, <2>2, Zenon
<1>4. Arrow(e, "home").e = [e EXCEPT !.cursor = 0]
  <2>1. Arrow(e, "home") = Edit([e EXCEPT !.cursor = 0], <<cursor_left(e.cursor)>>)
    BY Zenon DEF Arrow
  <2> QED BY <2>1, <1>1, Zenon
<1>5. Arrow(e, "end").e = [e EXCEPT !.cursor = Len(e.line)]
  <2>1. Arrow(e, "end") = Edit([e EXCEPT !.cursor = Len(e.line)], Puts(From(e.line, e.cursor)))
    BY Zenon DEF Arrow
  <2> QED BY <2>1, <1>1, Zenon
<1>6. Arrow(e, "delete").e = IF e.cursor < Len(e.line)
                             THEN [e EXCEPT !.line = Without(e.line, e.cursor)] ELSE e
  <2>1. CASE e.cursor < Len(e.line)
    <3>1. Arrow(e, "delete") = Edit([e EXCEPT !.line = Without(e.line, e.cursor)],
                                    redraw_tail(Without(e.line, e.cursor), e.cursor, e.cursor))
      BY <2>1, Zenon DEF Arrow
    <3> QED BY <2>1, <3>1, <1>1, Zenon
  <2>2. CASE ~(e.cursor < Len(e.line))
    <3>1. Arrow(e, "delete") = Edit(e, <<>>)
      BY <2>2, Zenon DEF Arrow
    <3> QED BY <2>2, <3>1, <1>1, Zenon
  <2> QED BY <2>1, <2>2, Zenon
<1> QED BY <1>2, <1>3, <1>4, <1>5, <1>6, Zenon

(* The lines the Up and Down keys recall. *)
Older(pos) == IF pos = 0 THEN Len(history) ELSE IF pos = 1 THEN 1 ELSE pos - 1
LineAt(pos) == IF pos = 0 THEN <<>> ELSE history[pos]
Recalled(e, pos) == [e EXCEPT !.line = LineAt(pos), !.cursor = Len(LineAt(pos)), !.pos = pos]

(* What those two keys do to the reader's line. *)
LEMMA RecallCases ==
  ASSUME NEW e, e.pos \in 0 .. Len(history), history \in Seq(Bytes)
  PROVE  /\ Arrow(e, "up").e = IF history # <<>> THEN Recalled(e, Older(e.pos)) ELSE e
         /\ Arrow(e, "down").e = IF e.pos = 0 THEN e
                                 ELSE Recalled(e, IF e.pos < Len(history) THEN e.pos + 1 ELSE 0)
<1>1. \A x, y : Edit(x, y).e = x
  BY Zenon DEF Edit
<1>2. \A p : replace_line(e, LineAt(p), p).e = Recalled(e, p)
  BY Zenon DEF replace_line, Edit, Recalled
<1>3. Arrow(e, "up").e = IF history # <<>> THEN Recalled(e, Older(e.pos)) ELSE e
  <2>1. CASE history # <<>>
    <3>1. Older(e.pos) # 0 /\ 0 # 1
      BY <2>1, EmptySeq, SMTT(30) DEF Older
    <3>2. LineAt(Older(e.pos)) = history[Older(e.pos)]
      BY <3>1, Zenon DEF LineAt
    <3>3. Arrow(e, "up") = replace_line(e, history[Older(e.pos)], Older(e.pos))
      BY <2>1, <3>1, Zenon DEF Arrow, Older
    <3>4. Arrow(e, "up") = replace_line(e, LineAt(Older(e.pos)), Older(e.pos))
      BY <3>2, <3>3, Zenon
    <3> QED BY <2>1, <3>4, <1>2, Zenon
  <2>2. CASE history = <<>>
    <3>1. Arrow(e, "up") = Edit(e, <<>>)
      BY <2>2, Zenon DEF Arrow
    <3> QED BY <2>2, <3>1, <1>1, Zenon
  <2> QED BY <2>1, <2>2, Zenon
<1>4. Arrow(e, "down").e = IF e.pos = 0 THEN e
                           ELSE Recalled(e, IF e.pos < Len(history) THEN e.pos + 1 ELSE 0)
  <2>1. CASE e.pos = 0
    <3>1. Arrow(e, "down") = Edit(e, <<>>)
      BY <2>1, Zenon DEF Arrow
    <3> QED BY <2>1, <3>1, <1>1, Zenon
  <2>2. CASE e.pos # 0 /\ e.pos < Len(history)
    <3>1. Arrow(e, "down") = replace_line(e, history[e.pos + 1], e.pos + 1)
      BY <2>2, Zenon DEF Arrow
    <3>2. e.pos + 1 # 0
      BY SMTT(30)
    <3>3. LineAt(e.pos + 1) = history[e.pos + 1]
      BY <3>2, Zenon DEF LineAt
    <3>4. Arrow(e, "down").e = Recalled(e, e.pos + 1)
      <4>1. Arrow(e, "down") = replace_line(e, LineAt(e.pos + 1), e.pos + 1)
        BY <3>1, <3>3, Zenon
      <4> QED BY <4>1, <1>2, Zenon
    <3> QED BY <2>2, <3>4, Zenon
  <2>3. CASE e.pos # 0 /\ ~(e.pos < Len(history))
    <3>1. Arrow(e, "down") = replace_line(e, <<>>, 0)
      BY <2>3, Zenon DEF Arrow
    <3>2. LineAt(0) = <<>>
      BY Zenon DEF LineAt
    <3>3. Arrow(e, "down").e = Recalled(e, 0)
      <4>1. Arrow(e, "down") = replace_line(e, LineAt(0), 0)
        BY <3>1, <3>2, Zenon
      <4> QED BY <4>1, <1>2, Zenon
    <3> QED BY <2>3, <3>3, Zenon
  <2> QED BY <2>1, <2>2, <2>3, Zenon
<1> QED BY <1>3, <1>4, Zenon

(* What a key does to the line in the user's mind, key by key. *)
LEMMA TypeCases ==
  ASSUME NEW r, NEW max
  PROVE  /\ Type(r, "left", max) = IF r.left # <<>>
              THEN [r EXCEPT !.left = DropLast(@), !.right = <<r.left[Len(r.left)]>> \o @] ELSE r
         /\ Type(r, "right", max) = IF r.right # <<>>
              THEN [r EXCEPT !.left = Append(@, Head(r.right)), !.right = Tail(@)] ELSE r
         /\ Type(r, "home", max) = [r EXCEPT !.left = <<>>, !.right = r.left \o @]
         /\ Type(r, "end", max) = [r EXCEPT !.left = @ \o r.right, !.right = <<>>]
         /\ Type(r, "bs", max) = IF r.left # <<>> THEN [r EXCEPT !.left = DropLast(@)] ELSE r
         /\ Type(r, "delete", max) = IF r.right # <<>> THEN [r EXCEPT !.right = Tail(@)] ELSE r
         /\ Type(r, "up", max) = IF history # <<>> THEN Recall(Older(r.pos)) ELSE r
         /\ Type(r, "down", max) = IF r.pos # 0 THEN Recall((r.pos + 1) % (Len(history) + 1)) ELSE r
         /\ Type(r, "enter", max) = r
         /\ \A k \in Letters : Type(r, k, max) = IF Len(r.left \o r.right) + 1 < max
                                                 THEN [r EXCEPT !.left = Append(@, k)] ELSE r
<1>1. Type(r, "left", max) = IF r.left # <<>>
        THEN [r EXCEPT !.left = DropLast(@), !.right = <<r.left[Len(r.left)]>> \o @] ELSE r
  <2>1. CASE r.left # <<>>
    BY <2>1, Zenon DEF Type, Lower, Upper
  <2>2. CASE r.left = <<>>
    BY <2>2, Zenon DEF Type, Lower, Upper
  <2> QED BY <2>1, <2>2, Zenon
<1>2. Type(r, "right", max) = IF r.right # <<>>
        THEN [r EXCEPT !.left = Append(@, Head(r.right)), !.right = Tail(@)] ELSE r
  <2>1. CASE r.right # <<>>
    BY <2>1, Zenon DEF Type, Lower, Upper
  <2>2. CASE r.right = <<>>
    BY <2>2, Zenon DEF Type, Lower, Upper
  <2> QED BY <2>1, <2>2, Zenon
<1>3. Type(r, "home", max) = [r EXCEPT !.left = <<>>, !.right = r.left \o @]
  BY Zenon DEF Type, Lower, Upper
<1>4. Type(r, "end", max) = [r EXCEPT !.left = @ \o r.right, !.right = <<>>]
  BY Zenon DEF Type, Lower, Upper
<1>5. Type(r, "bs", max) = IF r.left # <<>> THEN [r EXCEPT !.left = DropLast(@)] ELSE r
  <2>1. CASE r.left # <<>>
    BY <2>1, Zenon DEF Type, Lower, Upper
  <2>2. CASE r.left = <<>>
    BY <2>2, Zenon DEF Type, Lower, Upper
  <2> QED BY <2>1, <2>2, Zenon
<1>6. Type(r, "delete", max) = IF r.right # <<>> THEN [r EXCEPT !.right = Tail(@)] ELSE r
  <2>1. CASE r.right # <<>>
    BY <2>1, Zenon DEF Type, Lower, Upper
  <2>2. CASE r.right = <<>>
    BY <2>2, Zenon DEF Type, Lower, Upper
  <2> QED BY <2>1, <2>2, Zenon
<1>7. Type(r, "up", max) = IF history # <<>> THEN Recall(Older(r.pos)) ELSE r
  <2>1. CASE history # <<>>
    BY <2>1, Zenon DEF Type, Lower, Upper, Older
  <2>2. CASE history = <<>>
    BY <2>2, Zenon DEF Type, Lower, Upper
  <2> QED BY <2>1, <2>2, Zenon
<1>8. Type(r, "down", max) = IF r.pos # 0 THEN Recall((r.pos + 1) % (Len(history) + 1)) ELSE r
  <2>1. CASE r.pos # 0
    BY <2>1, Zenon DEF Type, Lower, Upper
  <2>2. CASE r.pos = 0
    BY <2>2, Zenon DEF Type, Lower, Upper
  <2> QED BY <2>1, <2>2, Zenon
<1>9. Type(r, "enter", max) = r
  BY Zenon DEF Type, Lower, Upper
<1>10. ASSUME NEW k \in Letters
       PROVE  Type(r, k, max) = IF Len(r.left \o r.right) + 1 < max
                                THEN [r EXCEPT !.left = Append(@, k)] ELSE r
  <2>1. k \in Lower \cup Upper /\ k \notin {"left", "right", "home", "end", "bs", "delete", "up", "down"}
    BY Zenon DEF Letters, Lower, Upper
  <2>2. CASE Len(r.left \o r.right) + 1 < max
    BY <2>1, <2>2, Zenon DEF Type
  <2>3. CASE ~(Len(r.left \o r.right) + 1 < max)
    BY <2>1, <2>3, Zenon DEF Type
  <2> QED BY <2>2, <2>3, Zenon
<1> QED BY <1>1, <1>2, <1>3, <1>4, <1>5, <1>6, <1>7, <1>8, <1>9, <1>10, Zenon

(* The parts of the line two states that agree have. *)
LEMMA Agreed ==
  ASSUME NEW e, NEW r, Agrees(e, r), history \in Seq(Bytes)
  PROVE  /\ e \in Editing /\ r \in Lines /\ r.left \in Bytes /\ r.right \in Bytes
         /\ e.line = r.left \o r.right /\ Len(e.line) = Len(r.left) + Len(r.right) /\ e.line \in Bytes
         /\ e.cursor = Len(r.left) /\ Len(r.left) \in Nat /\ Len(r.right) \in Nat
         /\ r.left # <<>> <=> Len(r.left) > 0
         /\ r.right # <<>> <=> Len(r.right) > 0
         /\ e.pos = r.pos /\ e.pos \in 0 .. Len(history) /\ Len(history) \in Nat
<1>1. /\ e \in Editing /\ r \in Lines /\ e.line = r.left \o r.right /\ e.cursor = Len(r.left)
      /\ e.pos = r.pos /\ r.pos <= Len(history)
  BY Zenon DEF Agrees
<1>2. r.left \in Bytes /\ r.right \in Bytes /\ r.pos \in Nat
  BY <1>1, Zenon DEF Lines
<1>3. Len(e.line) = Len(r.left) + Len(r.right) /\ e.line \in Bytes
  <2>1. Len(r.left \o r.right) = Len(r.left) + Len(r.right) /\ r.left \o r.right \in Bytes
    BY <1>2, Halves, Zenon
  <2> QED BY <1>1, <2>1, Zenon
<1>4. ASSUME NEW s \in Bytes PROVE Len(s) \in Nat /\ (s # <<>> <=> Len(s) > 0)
  <2>1. Len(s) \in Nat /\ (s # <<>> => Len(s) \in Nat \ {0})
    BY EmptySeq, LenProperties, Zenon DEF Bytes
  <2>2. s = <<>> => Len(s) = 0
    BY EmptySeq, Zenon
  <2> QED BY <2>1, <2>2, SMTT(30)
<1>5. Len(history) \in Nat
  BY LenProperties, Zenon
<1>6. e.pos \in 0 .. Len(history)
  BY <1>1, <1>2, <1>5, SMTT(30)
<1> QED BY <1>1, <1>2, <1>3, <1>4, <1>5, <1>6, Zenon

(* Remainders up to the divisor. *)
LEMMA Mod ==
  ASSUME NEW N \in Nat, N > 0, NEW k \in 0 .. N
  PROVE  k % N = IF k < N THEN k ELSE 0
<1> DEFINE q == k \div N
           m == k % N
<1>1. q \in Int /\ m \in 0 .. N - 1 /\ k = N * q + m
  BY SMTT(30)
<1> HIDE DEF q, m
<1>2. q = 0 \/ q = 1
  <2>1. q >= 0 /\ q < 2
    BY <1>1, SMTT(30)
  <2> QED BY <1>1, <2>1, SMTT(30)
<1>3. m = IF k < N THEN k ELSE 0
  BY <1>1, <1>2, SMTT(30)
<1> QED BY <1>3, Zenon DEF m

(* Every navigation key does to the reader's line what the user expects. *)
LEMMA ArrowAgrees ==
  ASSUME NEW e, NEW r, Agrees(e, r), history \in Seq(Bytes), NEW a \in Extended
  PROVE  /\ Agrees(Arrow(e, a).e, Type(r, a, e.max))
         /\ Arrow(e, a).e.esc = e.esc /\ Arrow(e, a).e.max = e.max
<1> DEFINE l == r.left
           m == r.right
           n == Len(l)
           f == Arrow(e, a).e
           s == Type(r, a, e.max)
           Good == Agrees(f, s) /\ f.esc = e.esc /\ f.max = e.max
<1>1. /\ e \in Editing /\ r \in Lines /\ l \in Bytes /\ m \in Bytes
      /\ e.line = l \o m /\ Len(e.line) = n + Len(m) /\ e.line \in Bytes
      /\ e.cursor = n /\ n \in Nat /\ Len(m) \in Nat
      /\ (l # <<>> <=> n > 0) /\ (m # <<>> <=> Len(m) > 0)
      /\ e.pos = r.pos /\ e.pos \in 0 .. Len(history) /\ Len(history) \in Nat
  BY Agreed, Zenon
<1>2. ASSUME f = e, s = r PROVE Good
  BY <1>2, Zenon
<1>3. m # <<>> <=> n < Len(e.line)
  <2>1. \A x, y \in Nat : y > 0 <=> x < x + y
    BY SMTT(30)
  <2> QED BY <1>1, <2>1, Zenon
<1>13. ASSUME f \in Editing, s \in Lines, f.line = s.left \o s.right, f.cursor = Len(s.left),
              f.pos = e.pos, s.pos = r.pos, f.esc = e.esc, f.max = e.max
       PROVE  Good
  BY <1>13, Zenon DEF Agrees
<1>4. CASE a = "left"
  <2>1. CASE l # <<>>
    <3>1. DropLast(l) \in Bytes /\ Len(DropLast(l)) = n - 1
      BY <1>1, <2>1, Ends, Zenon
    <3>2. <<l[Len(l)]>> \o m \in Bytes /\ e.line = DropLast(l) \o (<<l[Len(l)]>> \o m)
      BY <1>1, <2>1, Moved, Zenon
    <3>3. s = [r EXCEPT !.left = DropLast(l), !.right = <<l[Len(l)]>> \o m]
      BY <1>4, <2>1, TypeCases, Zenon
    <3>4. f = [e EXCEPT !.cursor = n - 1]
      BY <1>1, <1>4, <2>1, ArrowCases, ZenonT(30)
    <3>5. n - 1 \in Nat
      BY <1>1, <2>1, SMTT(30)
    <3>6. f \in Editing /\ f.line = e.line /\ f.cursor = n - 1 /\ f.pos = e.pos /\ f.esc = e.esc /\ f.max = e.max
      BY <1>1, <3>4, <3>5, Zenon DEF Editing
    <3>7. s \in Lines /\ s.left = DropLast(l) /\ s.right = <<l[Len(l)]>> \o m /\ s.pos = r.pos
      BY <1>1, <3>1, <3>2, <3>3, Zenon DEF Lines
    <3> QED BY <1>1, <3>1, <3>2, <3>6, <3>7, <1>13, Zenon
  <2>2. CASE l = <<>>
    <3>1. s = r
      BY <1>4, <2>2, TypeCases, Zenon
    <3>2. f = e
      BY <1>1, <1>4, <2>2, ArrowCases, ZenonT(30)
    <3> QED BY <1>2, <3>1, <3>2, Zenon
  <2> QED BY <2>1, <2>2, Zenon
<1>5. CASE a = "right"
  <2>1. CASE m # <<>>
    <3>1. /\ Append(l, Head(m)) \o Tail(m) = e.line /\ Append(l, Head(m)) \in Bytes
          /\ Len(Append(l, Head(m))) = n + 1
      BY <1>1, <2>1, Moved, Zenon
    <3>2. Tail(m) \in Bytes
      BY <1>1, <2>1, Ends, Zenon
    <3>3. s = [r EXCEPT !.left = Append(l, Head(m)), !.right = Tail(m)]
      BY <1>5, <2>1, TypeCases, Zenon
    <3>4. f = [e EXCEPT !.cursor = n + 1]
      <4>1. e.cursor < Len(e.line) /\ e.cursor = n
        BY <1>1, <1>3, <2>1, Zenon
      <4>2. Arrow(e, "right").e = [e EXCEPT !.cursor = @ + 1]
        BY <4>1, ArrowCases, ZenonT(30)
      <4> QED BY <1>5, <4>1, <4>2, ZenonT(30)
    <3>5. n + 1 \in Nat
      BY <1>1, SMTT(30)
    <3>6. f \in Editing /\ f.line = e.line /\ f.cursor = n + 1 /\ f.pos = e.pos /\ f.esc = e.esc /\ f.max = e.max
      BY <1>1, <3>4, <3>5, Zenon DEF Editing
    <3>7. s \in Lines /\ s.left = Append(l, Head(m)) /\ s.right = Tail(m) /\ s.pos = r.pos
      BY <1>1, <3>1, <3>2, <3>3, Zenon DEF Lines
    <3> QED BY <1>1, <3>1, <3>2, <3>6, <3>7, <1>13, Zenon
  <2>2. CASE m = <<>>
    <3>1. s = r
      BY <1>5, <2>2, TypeCases, Zenon
    <3>2. f = e
      BY <1>1, <1>3, <1>5, <2>2, ArrowCases, Zenon
    <3> QED BY <1>2, <3>1, <3>2, Zenon
  <2> QED BY <2>1, <2>2, Zenon
<1>6. CASE a = "home"
  <2>1. <<>> \in Bytes /\ Len(<<>>) = 0 /\ 0 \in Nat
    BY EmptySeq, SMTT(30) DEF Bytes
  <2>2. l \o m \in Bytes /\ e.line = <<>> \o (l \o m)
    BY <1>1, Moved, Zenon
  <2>3. s = [r EXCEPT !.left = <<>>, !.right = l \o m]
    BY <1>6, TypeCases, Zenon
  <2>4. f = [e EXCEPT !.cursor = 0]
    BY <1>6, ArrowCases, Zenon
  <2>5. f \in Editing /\ f.line = e.line /\ f.cursor = 0 /\ f.pos = e.pos /\ f.esc = e.esc /\ f.max = e.max
    BY <1>1, <2>1, <2>4, Zenon DEF Editing
  <2>6. s \in Lines /\ s.left = <<>> /\ s.right = l \o m /\ s.pos = r.pos
    BY <1>1, <2>1, <2>2, <2>3, Zenon DEF Lines
  <2> QED BY <1>1, <2>1, <2>2, <2>5, <2>6, <1>13, Zenon
<1>7. CASE a = "end"
  <2>1. <<>> \in Bytes /\ Len(e.line) \in Nat
    BY <1>1, EmptySeq, LenProperties, Zenon DEF Bytes
  <2>2. l \o m \in Bytes /\ e.line = (l \o m) \o <<>>
    BY <1>1, Moved, Zenon
  <2>3. s = [r EXCEPT !.left = l \o m, !.right = <<>>]
    BY <1>7, TypeCases, Zenon
  <2>4. f = [e EXCEPT !.cursor = Len(e.line)]
    BY <1>7, ArrowCases, Zenon
  <2>5. f \in Editing /\ f.line = e.line /\ f.cursor = Len(e.line) /\ f.pos = e.pos /\ f.esc = e.esc /\ f.max = e.max
    BY <1>1, <2>1, <2>4, Zenon DEF Editing
  <2>6. s \in Lines /\ s.left = l \o m /\ s.right = <<>> /\ s.pos = r.pos
    BY <1>1, <2>1, <2>2, <2>3, Zenon DEF Lines
  <2> QED BY <1>1, <2>1, <2>2, <2>5, <2>6, <1>13, Zenon
<1>8. CASE a = "delete"
  <2>1. CASE m # <<>>
    <3>1. Without(e.line, n) = l \o Tail(m)
      BY <1>1, <2>1, Shorter, ZenonT(30)
    <3>2. Tail(m) \in Bytes
      BY <1>1, <2>1, Ends, Zenon
    <3>3. l \o Tail(m) \in Bytes
      BY <1>1, <3>2, Halves, Zenon
    <3>4. s = [r EXCEPT !.right = Tail(m)]
      BY <1>8, <2>1, TypeCases, Zenon
    <3>5. f = [e EXCEPT !.line = Without(e.line, n)]
      <4>1. e.cursor < Len(e.line) /\ e.cursor = n
        BY <1>1, <1>3, <2>1, Zenon
      <4>2. Arrow(e, "delete").e = [e EXCEPT !.line = Without(e.line, e.cursor)]
        BY <4>1, ArrowCases, ZenonT(30)
      <4> QED BY <1>8, <4>1, <4>2, ZenonT(30)
    <3>6. f = [e EXCEPT !.line = l \o Tail(m)]
      BY <3>1, <3>5, Zenon
    <3>7. f \in Editing /\ f.line = l \o Tail(m) /\ f.cursor = n /\ f.pos = e.pos /\ f.esc = e.esc /\ f.max = e.max
      BY <1>1, <3>3, <3>6, Zenon DEF Editing
    <3>8. s \in Lines /\ s.left = l /\ s.right = Tail(m) /\ s.pos = r.pos
      BY <1>1, <3>2, <3>4, Zenon DEF Lines
    <3> QED BY <1>1, <3>2, <3>7, <3>8, <1>13, Zenon
  <2>2. CASE m = <<>>
    <3>1. s = r
      BY <1>8, <2>2, TypeCases, Zenon
    <3>2. f = e
      BY <1>1, <1>3, <1>8, <2>2, ArrowCases, Zenon
    <3> QED BY <1>2, <3>1, <3>2, Zenon
  <2> QED BY <2>1, <2>2, Zenon
<1>9. ASSUME NEW p \in 0 .. Len(history), f = Recalled(e, p), s = Recall(p) PROVE Good
  <2>1. p \in Nat /\ p <= Len(history) /\ (p # 0 => p \in 1 .. Len(history))
    BY <1>1, SMTT(30)
  <2>2. LineAt(p) \in Bytes /\ <<>> \in Bytes
    BY <2>1, ElementOfSeq, EmptySeq, Zenon DEF LineAt, Bytes
  <2>3. Len(LineAt(p)) \in Nat /\ LineAt(p) \o <<>> = LineAt(p)
    BY <2>2, LenProperties, ConcatEmptySeq, Zenon DEF Bytes
  <2>4. s \in Lines /\ s.left = LineAt(p) /\ s.right = <<>> /\ s.pos = p
    <3>1. s = [left |-> LineAt(p), right |-> <<>>, pos |-> p]
      BY <1>9, Zenon DEF Recall, LineAt
    <3>2. ASSUME NEW x \in Bytes, NEW y \in Bytes, NEW i \in Nat, NEW t,
                 t = [left |-> x, right |-> y, pos |-> i]
          PROVE  t \in Lines /\ t.left = x /\ t.right = y /\ t.pos = i
      BY <3>2, SMTT(30) DEF Lines
    <3> HIDE DEF s
    <3> QED BY <2>1, <2>2, <3>1, <3>2, SMTT(30)
  <2>5. /\ f \in Editing /\ f.line = LineAt(p) /\ f.cursor = Len(LineAt(p)) /\ f.pos = p
        /\ f.esc = e.esc /\ f.max = e.max
    BY <1>1, <1>9, <2>1, <2>2, <2>3, Zenon DEF Recalled, Editing
  <2> QED BY <2>1, <2>3, <2>4, <2>5, Zenon DEF Agrees
<1>10. CASE a = "up"
  <2>1. CASE history # <<>>
    <3>1. Older(e.pos) \in 0 .. Len(history)
      BY <1>1, <2>1, EmptySeq, SMTT(30) DEF Older
    <3>2. s = Recall(Older(e.pos))
      <4>1. s = Recall(Older(r.pos))
        BY <1>10, <2>1, TypeCases, Zenon
      <4> QED BY <1>1, <4>1, Zenon
    <3>3. f = Recalled(e, Older(e.pos))
      BY <1>1, <1>10, <2>1, RecallCases, Zenon
    <3> QED BY <1>9, <3>1, <3>2, <3>3, Zenon
  <2>2. CASE history = <<>>
    <3>1. s = r
      BY <1>10, <2>2, TypeCases, Zenon
    <3>2. f = e
      BY <1>1, <1>10, <2>2, RecallCases, Zenon
    <3> QED BY <1>2, <3>1, <3>2, Zenon
  <2> QED BY <2>1, <2>2, Zenon
<1>11. CASE a = "down"
  <2>1. CASE e.pos # 0
    <3> DEFINE p == IF e.pos < Len(history) THEN e.pos + 1 ELSE 0
    <3>1. p \in 0 .. Len(history) /\ p = (e.pos + 1) % (Len(history) + 1)
      <4>1. /\ Len(history) + 1 \in Nat /\ Len(history) + 1 > 0
            /\ e.pos + 1 \in 0 .. Len(history) + 1 /\ p \in 0 .. Len(history)
            /\ e.pos + 1 < Len(history) + 1 <=> e.pos < Len(history)
        BY <1>1, SMTT(30)
      <4>2. (e.pos + 1) % (Len(history) + 1) = IF e.pos + 1 < Len(history) + 1 THEN e.pos + 1 ELSE 0
        BY <4>1, Mod, Zenon
      <4> QED BY <4>1, <4>2, Zenon
    <3> HIDE DEF p
    <3>2. s = Recall(p)
      <4>1. s = Recall((r.pos + 1) % (Len(history) + 1))
        BY <1>1, <1>11, <2>1, TypeCases, ZenonT(30)
      <4> QED BY <1>1, <3>1, <4>1, Zenon
    <3>3. f = Recalled(e, p)
      BY <1>1, <1>11, <2>1, RecallCases, Zenon DEF p
    <3> QED BY <1>9, <3>1, <3>2, <3>3, Zenon
  <2>2. CASE e.pos = 0
    <3>1. s = r
      BY <1>1, <1>11, <2>2, TypeCases, Zenon
    <3>2. f = e
      BY <1>1, <1>11, <2>2, RecallCases, Zenon
    <3> QED BY <1>2, <3>1, <3>2, Zenon
  <2> QED BY <2>1, <2>2, Zenon
<1>12. a \in {"up", "down", "right", "left", "home", "end", "delete"}
  BY SMTT(30) DEF Extended, EscapeOf
<1> QED BY <1>4, <1>5, <1>6, <1>7, <1>8, <1>10, <1>11, <1>12, Zenon

-----------------------------------------------------------------------------
(***************************************************************************)
(* From keys to bytes: what is unread are the bytes of the keys pending.   *)
(***************************************************************************)
(* The bytes a pending key has sent. *)
KeyNames == Extended \cup Letters \cup {"bs", "enter"}
BytesOf(k) ==
    IF k \in Extended THEN EscapeOf[k]
    ELSE IF k = "bs" THEN <<"BS">> ELSE IF k = "enter" THEN <<"NL">> ELSE <<k>>

(* The pending keys ks and the unread bytes u: c[i] is where the bytes of the
   i-th key end.  Of the first key some bytes may have been consumed. *)
Sent(x, at, u) ==
    \A j \in 1 .. x.n : u[at + j] = BytesOf(x.key)[(Len(BytesOf(x.key)) - x.n) + j]
Cut(c, ks, u) ==
    /\ c[0] = 0 /\ c[Len(ks)] = Len(u)
    /\ \A i \in 1 .. Len(ks) :
          /\ c[i] = c[i - 1] + ks[i].n /\ 1 <= c[i] /\ c[i] <= Len(u)
          /\ Sent(ks[i], c[i - 1], u)
Keyed(ks, u) ==
    /\ u \in Bytes /\ ks \in Seq([key : KeyNames, n : Nat])
    /\ \A i \in 1 .. Len(ks) : 1 <= ks[i].n /\ ks[i].n <= Len(BytesOf(ks[i].key))
    /\ \A i \in 2 .. Len(ks) : ks[i].n = Len(BytesOf(ks[i].key))
    /\ \E c \in [0 .. Len(ks) -> Nat] : Cut(c, ks, u)

(* Every key sends one to four bytes. *)
LEMMA BytesOfOK ==
  ASSUME NEW k \in KeyNames PROVE BytesOf(k) \in Bytes /\ Len(BytesOf(k)) \in 1 .. 4
<1>1. CASE k \in Extended
  <2>1. BytesOf(k) = EscapeOf[k]
    BY <1>1, Zenon DEF BytesOf
  <2>2. Len(EscapeOf[k]) \in 1 .. 4
    <3>1. k \in {"up", "down", "right", "left", "home", "end", "delete"}
      BY <1>1, SMTT(30) DEF Extended, EscapeOf
    <3> QED BY <3>1, SMTT(30) DEF EscapeOf
  <2> QED BY <1>1, <2>1, <2>2, EscapeBytes, Zenon
<1>2. CASE k \notin Extended
  <2>1. /\ \A b \in Byte : <<b>> \in Seq(Byte) /\ Len(<<b>>) \in 1 .. 4
        /\ "BS" \in Byte /\ "NL" \in Byte /\ "a" \in Byte /\ "b" \in Byte /\ "A" \in Byte /\ "B" \in Byte
    <3>1. "BS" \in Byte /\ "NL" \in Byte /\ "a" \in Byte /\ "b" \in Byte /\ "A" \in Byte /\ "B" \in Byte
      BY Zenon DEF Byte
    <3>2. \A b \in Byte : <<b>> \in Seq(Byte) /\ Len(<<b>>) \in 1 .. 4
      BY SMTT(30)
    <3> QED BY <3>1, <3>2, Zenon
  <2>2. k = "bs" \/ k = "enter" \/ k \in {"a", "b", "A", "B"}
    BY <1>2, Zenon DEF KeyNames, Letters
  <2>3. BytesOf(k) = <<"BS">> \/ BytesOf(k) = <<"NL">> \/ (BytesOf(k) = <<k>> /\ k \in {"a", "b", "A", "B"})
    BY <1>2, <2>2, Zenon DEF BytesOf
  <2>4. k \in {"a", "b", "A", "B"} => k \in Byte
    BY <2>1, Zenon
  <2> QED BY <2>1, <2>3, <2>4, Zenon DEF Bytes
<1> QED BY <1>1, <1>2, Zenon

(* A key is typed: its bytes are the last of the unread ones. *)
LEMMA KeyedAppend ==
  ASSUME NEW ks, NEW u, Keyed(ks, u), NEW k \in KeyNames
  PROVE  Keyed(Append(ks, [key |-> k, n |-> Len(BytesOf(k))]), u \o BytesOf(k))
<1> DEFINE b == BytesOf(k)
           nb == Len(b)
           x == [key |-> k, n |-> nb]
           K == [key : KeyNames, n : Nat]
           L == Len(ks)
           U == Len(u)
           ks2 == Append(ks, x)
           u2 == u \o b
<1>1. PICK c \in [0 .. L -> Nat] : Cut(c, ks, u)
  BY Zenon DEF Keyed
<1>2. /\ u \in Bytes /\ ks \in Seq(K)
      /\ \A i \in 1 .. L : 1 <= ks[i].n /\ ks[i].n <= Len(BytesOf(ks[i].key))
      /\ \A i \in 2 .. L : ks[i].n = Len(BytesOf(ks[i].key))
  BY Zenon DEF Keyed
<1>3. b \in Bytes /\ nb \in 1 .. 4 /\ x.key = k /\ x.n = nb /\ Len(b) = nb
  BY BytesOfOK, Zenon
<1>4. x \in K /\ nb \in Nat /\ nb >= 1 /\ nb <= nb
  BY <1>3, SMTT(30)
<1>5. L \in Nat /\ U \in Nat
  BY <1>2, LenProperties, Zenon DEF Bytes
<1> HIDE DEF b, nb, x, K
<1>6. /\ ks2 \in Seq(K) /\ Len(ks2) = L + 1
      /\ \A i \in 1 .. L : ks2[i] = ks[i]
      /\ ks2[L + 1] = x
  <2>1. /\ Append(ks, x) \in Seq(K) /\ Len(Append(ks, x)) = Len(ks) + 1
        /\ \A i \in 1 .. Len(ks) : Append(ks, x)[i] = ks[i]
        /\ Append(ks, x)[Len(ks) + 1] = x
    <3> HIDE DEF L
    <3> QED BY <1>2, <1>4, AppendProperties, SMTT(30)
  <2> QED BY <2>1, Zenon
<1>7. /\ u2 \in Bytes /\ Len(u2) = U + nb
      /\ \A i \in 1 .. U + nb : u2[i] = IF i <= U THEN u[i] ELSE b[i - U]
  <2>1. u \in Seq(Byte) /\ b \in Seq(Byte)
    BY <1>2, <1>3, Zenon DEF Bytes
  <2>2. /\ u2 \in Seq(Byte) /\ Len(u2) = Len(u) + Len(b)
        /\ \A i \in 1 .. Len(u) + Len(b) : u2[i] = IF i <= Len(u) THEN u[i] ELSE b[i - Len(u)]
    BY <2>1, ConcatProperties, Zenon
  <2> HIDE DEF u2
  <2> QED BY <1>3, <2>2, Zenon DEF Bytes
<1>8. /\ c[0] = 0 /\ c[L] = U
      /\ \A i \in 1 .. L :
          /\ c[i] = c[i - 1] + ks[i].n /\ 1 <= c[i] /\ c[i] <= U
          /\ Sent(ks[i], c[i - 1], u)
  BY <1>1, Zenon DEF Cut
<1>9. \A i \in 1 .. L : ks[i].n \in Nat /\ c[i - 1] \in Nat
  <2>1. ASSUME NEW i \in 1 .. L PROVE ks[i].n \in Nat
    <3>1. ks[i] \in K
      BY <1>2, ElementOfSeq, Zenon
    <3> QED BY <3>1, Zenon DEF K
  <2>2. ASSUME NEW i \in 1 .. L PROVE i - 1 \in 0 .. L
    BY <1>5, SMTT(30)
  <2> QED BY <1>1, <2>1, <2>2, Zenon
<1> DEFINE d == [i \in 0 .. L + 1 |-> IF i <= L THEN c[i] ELSE U + nb]
<1> HIDE DEF L, U, ks2, u2
<1>10. /\ d \in [0 .. L + 1 -> Nat] /\ d[0] = 0 /\ d[L + 1] = U + nb /\ d[L] = U
       /\ \A i \in 1 .. L : d[i] = c[i] /\ d[i - 1] = c[i - 1]
  BY <1>1, <1>4, <1>5, <1>8, SMTT(30)
<1> HIDE DEF d
<1>11. ASSUME NEW i \in 1 .. L + 1
       PROVE  /\ d[i] = d[i - 1] + ks2[i].n /\ 1 <= d[i] /\ d[i] <= U + nb
              /\ 1 <= ks2[i].n /\ ks2[i].n <= Len(BytesOf(ks2[i].key))
              /\ i \in 2 .. L + 1 => ks2[i].n = Len(BytesOf(ks2[i].key))
              /\ Sent(ks2[i], d[i - 1], u2)
  <2>1. CASE i \in 1 .. L
    <3>1. ks2[i] = ks[i] /\ d[i] = c[i] /\ d[i - 1] = c[i - 1]
      BY <1>6, <1>10, <2>1, Zenon
    <3>2. /\ c[i] = c[i - 1] + ks[i].n /\ 1 <= c[i] /\ c[i] <= U /\ ks[i].n \in Nat /\ c[i - 1] \in Nat
          /\ Sent(ks[i], c[i - 1], u)
      BY <1>8, <1>9, <2>1, Zenon
    <3>3. ASSUME NEW j \in 1 .. ks[i].n PROVE u2[c[i - 1] + j] = u[c[i - 1] + j]
      <4>1. c[i - 1] + j \in 1 .. U + nb /\ c[i - 1] + j <= U
        BY <1>4, <1>5, <3>2, SMTT(30)
      <4> QED BY <1>7, <4>1, Zenon
    <3>4. c[i] <= U + nb /\ (i \in 2 .. L + 1 => i \in 2 .. L)
      BY <1>4, <1>5, <2>1, <3>2, SMTT(30)
    <3>5. Sent(ks[i], c[i - 1], u2)
      BY <3>2, <3>3, Zenon DEF Sent
    <3>6. /\ 1 <= ks[i].n /\ ks[i].n <= Len(BytesOf(ks[i].key))
          /\ i \in 2 .. L + 1 => ks[i].n = Len(BytesOf(ks[i].key))
      BY <1>2, <2>1, <3>4, Zenon DEF L
    <3> QED BY <3>1, <3>2, <3>4, <3>5, <3>6, Zenon
  <2>2. CASE i = L + 1
    <3>1. ks2[i] = x /\ x.key = k /\ x.n = nb /\ BytesOf(k) = b /\ Len(b) = nb
      BY <1>3, <1>6, <2>2, Zenon DEF b
    <3>2. i - 1 = L /\ 1 <= U + nb /\ U + nb <= U + nb
      BY <1>4, <1>5, <2>2, SMTT(30)
    <3>3. ASSUME NEW j \in 1 .. nb PROVE u2[U + j] = b[(nb - nb) + j]
      <4>1. U + j \in 1 .. U + nb /\ ~(U + j <= U) /\ (U + j) - U = j /\ (nb - nb) + j = j
        BY <1>4, <1>5, SMTT(30)
      <4> QED BY <1>7, <4>1, Zenon
    <3>4. Sent(x, U, u2)
      BY <3>1, <3>3, Zenon DEF Sent
    <3>5. d[i] = U + nb /\ d[i - 1] = U
      BY <1>10, <2>2, <3>2, Zenon
    <3> QED BY <1>4, <3>1, <3>2, <3>4, <3>5, Zenon
  <2>3. i \in 1 .. L \/ i = L + 1
    BY <1>5, SMTT(30)
  <2> QED BY <2>1, <2>2, <2>3, Zenon
<1>12. \A i \in 2 .. L + 1 : i \in 1 .. L + 1
  BY <1>5, SMTT(30)
<1>13. Cut(d, ks2, u2)
  BY <1>6, <1>7, <1>10, <1>11, ZenonT(30) DEF Cut
<1>14. Keyed(ks2, u2)
  BY <1>6, <1>7, <1>10, <1>11, <1>12, <1>13, Zenon DEF Keyed, K
<1> QED BY <1>14, Zenon DEF ks2, u2, x, nb, b

(* How many bytes of the first pending key are consumed, and where
   decode_escape is after m bytes of a key. *)
Gone(ks) == IF ks = <<>> THEN 0 ELSE Len(BytesOf(ks[1].key)) - ks[1].n
EscAfter(m) == IF m = 0 THEN "none" ELSE IF m = 1 THEN "esc" ELSE IF m = 2 THEN "csi" ELSE "del"

(* The oldest unread byte is the next one of the first pending key. *)
LEMMA KeyedHead ==
  ASSUME NEW ks, NEW u, Keyed(ks, u), u # <<>>
  PROVE  /\ ks # <<>> /\ Head(ks) = ks[1] /\ ks[1].key \in KeyNames /\ ks[1].n \in Nat
         /\ 1 <= ks[1].n /\ ks[1].n <= Len(BytesOf(ks[1].key)) /\ ks[1] \in [key : KeyNames, n : Nat]
         /\ Head(u) = BytesOf(ks[1].key)[Gone(ks) + 1]
         /\ Gone(ks) = Len(BytesOf(ks[1].key)) - ks[1].n
<1> DEFINE K == [key : KeyNames, n : Nat]
<1>1. PICK c \in [0 .. Len(ks) -> Nat] : Cut(c, ks, u)
  BY Zenon DEF Keyed
<1>2. /\ u \in Seq(Byte) /\ ks \in Seq(K)
      /\ \A i \in 1 .. Len(ks) : 1 <= ks[i].n /\ ks[i].n <= Len(BytesOf(ks[i].key))
      /\ c[0] = 0 /\ c[Len(ks)] = Len(u)
      /\ \A i \in 1 .. Len(ks) : Sent(ks[i], c[i - 1], u)
  BY <1>1, Zenon DEF Keyed, Cut, Bytes
<1>3. Len(u) # 0 /\ Head(u) = u[1]
  BY <1>2, EmptySeq, HeadTailProperties, SMTT(30)
<1>4. ks # <<>>
  <2>1. Len(<<>>) = 0
    BY SMTT(30)
  <2> QED BY <1>2, <1>3, <2>1, Zenon
<1> HIDE DEF K
<1>5. 1 \in 1 .. Len(ks) /\ Head(ks) = ks[1] /\ ks[1] \in K
  <2>1. 1 \in 1 .. Len(ks)
    BY <1>2, <1>4, EmptySeq, LenProperties, SMTT(30)
  <2>2. ks[1] \in K
    BY <1>2, <2>1, ElementOfSeq, Zenon
  <2> QED BY <2>1, <2>2, <1>2, <1>4, SMTT(30)
<1>6. ks[1].key \in KeyNames /\ ks[1].n \in Nat
  BY <1>5, Zenon DEF K
<1>7. Gone(ks) = Len(BytesOf(ks[1].key)) - ks[1].n
  BY <1>4, Zenon DEF Gone
<1>8. u[1] = BytesOf(ks[1].key)[Gone(ks) + 1]
  <2>1. 1 - 1 = 0 /\ 0 + 1 = 1 /\ \A n \in Nat : 1 <= n => 1 \in 1 .. n
    BY SMTT(30)
  <2>2. Sent(ks[1], 0, u) /\ 1 \in 1 .. ks[1].n
    BY <1>2, <1>5, <1>6, <2>1, Zenon
  <2> QED BY <1>7, <2>1, <2>2, Zenon DEF Sent
<1> QED BY <1>2, <1>3, <1>4, <1>5, <1>6, <1>7, <1>8, Zenon DEF K

(* What a cut of the bytes says of each key. *)
LEMMA CutFacts ==
  ASSUME NEW ks, NEW u, Keyed(ks, u), u # <<>>
  PROVE  \E c \in [0 .. Len(ks) -> Nat] :
           /\ c[0] = 0 /\ c[Len(ks)] = Len(u)
           /\ \A i \in 1 .. Len(ks) :
                /\ c[i] = c[i - 1] + ks[i].n /\ 1 <= c[i] /\ c[i] <= Len(u) /\ Sent(ks[i], c[i - 1], u)
                /\ i \in 0 .. Len(ks) /\ i - 1 \in 0 .. Len(ks) /\ c[i] \in Nat /\ c[i - 1] \in Nat
                /\ ks[i].n \in Nat /\ 1 <= ks[i].n /\ ks[i].n <= Len(BytesOf(ks[i].key))
                /\ Len(BytesOf(ks[i].key)) \in Nat
           /\ Len(ks) \in Nat /\ Len(ks) >= 1 /\ Len(u) \in Nat /\ Len(u) >= 1
           /\ Tail(u) \in Bytes /\ Len(Tail(u)) = Len(u) - 1
           /\ \A i \in 1 .. Len(u) - 1 : Tail(u)[i] = u[i + 1]
<1> DEFINE K == [key : KeyNames, n : Nat]
<1>1. PICK c \in [0 .. Len(ks) -> Nat] : Cut(c, ks, u)
  BY Zenon DEF Keyed
<1>2. /\ u \in Seq(Byte) /\ ks \in Seq(K) /\ ks # <<>>
      /\ \A i \in 1 .. Len(ks) : 1 <= ks[i].n /\ ks[i].n <= Len(BytesOf(ks[i].key))
  BY KeyedHead, Zenon DEF Keyed, Bytes
<1>3. /\ Len(ks) \in Nat /\ Len(ks) >= 1 /\ Len(u) \in Nat /\ Len(u) >= 1
  BY <1>2, EmptySeq, LenProperties, SMTT(30)
<1>4. /\ Tail(u) \in Seq(Byte) /\ Len(Tail(u)) = Len(u) - 1
      /\ \A i \in 1 .. Len(Tail(u)) : Tail(u)[i] = u[i + 1]
  BY <1>2, HeadTailProperties, SMTT(30)
<1>5. ASSUME NEW i \in 1 .. Len(ks)
      PROVE  /\ i \in 0 .. Len(ks) /\ i - 1 \in 0 .. Len(ks) /\ c[i] \in Nat /\ c[i - 1] \in Nat
             /\ ks[i].n \in Nat /\ Len(BytesOf(ks[i].key)) \in Nat
  <2>1. i \in 0 .. Len(ks) /\ i - 1 \in 0 .. Len(ks)
    BY <1>3, SMTT(30)
  <2> HIDE DEF K
  <2>2. ks[i] \in K
    BY <1>2, ElementOfSeq, Zenon
  <2>3. ks[i].n \in Nat /\ ks[i].key \in KeyNames
    BY <2>2, Zenon DEF K
  <2>4. Len(BytesOf(ks[i].key)) \in Nat
    BY <2>3, BytesOfOK, LenProperties, Zenon DEF Bytes
  <2> QED BY <1>1, <2>1, <2>3, <2>4, Zenon
<1> QED BY <1>1, <1>2, <1>3, <1>4, <1>5, Zenon DEF Cut, Bytes

(* A byte is consumed that is not the last of its key. *)
LEMMA KeyedPart ==
  ASSUME NEW ks, NEW u, Keyed(ks, u), u # <<>>, ks[1].n > 1
  PROVE  /\ Keyed([ks EXCEPT ![1].n = @ - 1], Tail(u))
         /\ Gone([ks EXCEPT ![1].n = @ - 1]) = Gone(ks) + 1
<1> DEFINE K == [key : KeyNames, n : Nat]
           L == Len(ks)
           x == [ks[1] EXCEPT !.n = @ - 1]
           ks2 == [ks EXCEPT ![1].n = @ - 1]
           v == Tail(u)
<1>1. PICK c \in [0 .. L -> Nat] :
           /\ c[0] = 0 /\ c[L] = Len(u)
           /\ \A i \in 1 .. L :
                /\ c[i] = c[i - 1] + ks[i].n /\ 1 <= c[i] /\ c[i] <= Len(u) /\ Sent(ks[i], c[i - 1], u)
                /\ i \in 0 .. L /\ i - 1 \in 0 .. L /\ c[i] \in Nat /\ c[i - 1] \in Nat
                /\ ks[i].n \in Nat /\ 1 <= ks[i].n /\ ks[i].n <= Len(BytesOf(ks[i].key))
                /\ Len(BytesOf(ks[i].key)) \in Nat
           /\ L \in Nat /\ L >= 1 /\ Len(u) \in Nat /\ Len(u) >= 1
           /\ v \in Bytes /\ Len(v) = Len(u) - 1
           /\ \A i \in 1 .. Len(u) - 1 : v[i] = u[i + 1]
  BY CutFacts, ZenonT(30)
<1>2. /\ ks \in Seq(K) /\ \A i \in 2 .. L : ks[i].n = Len(BytesOf(ks[i].key))
  BY Zenon DEF Keyed
<1>3. /\ ks[1].key \in KeyNames /\ ks[1].n \in Nat /\ ks[1] \in K
      /\ Gone(ks) = Len(BytesOf(ks[1].key)) - ks[1].n /\ ks # <<>>
  BY KeyedHead, Zenon
<1>4. x \in K /\ x.key = ks[1].key /\ x.n = ks[1].n - 1
  <2>1. ks[1].n - 1 \in Nat
    BY <1>3, SMTT(30)
  <2> QED BY <1>3, <2>1, Zenon
<1>5. 1 \in 1 .. L /\ 0 \in 0 .. L /\ L \in 0 .. L
  BY <1>1, SMTT(30)
<1>6. ks2 = [ks EXCEPT ![1] = x]
  BY Zenon
<1> HIDE DEF x, K, ks2
<1>7. /\ ks2 \in Seq(K) /\ Len(ks2) = L /\ ks2[1] = x
      /\ \A i \in 2 .. L : ks2[i] = ks[i]
  <2>1. /\ [ks EXCEPT ![1] = x] \in Seq(K) /\ Len([ks EXCEPT ![1] = x]) = Len(ks)
        /\ \A j \in 1 .. Len(ks) : [ks EXCEPT ![1] = x][j] = IF j = 1 THEN x ELSE ks[j]
    BY <1>2, <1>4, <1>5, ExceptSeq, SMTT(30)
  <2>2. \A i \in 2 .. L : i \in 1 .. L /\ i # 1
    BY <1>1, SMTT(30)
  <2> QED BY <1>5, <1>6, <2>1, <2>2, Zenon
<1> HIDE DEF L, v
<1> DEFINE d == [i \in 0 .. L |-> IF i = 0 THEN 0 ELSE c[i] - 1]
<1>8. d \in [0 .. L -> Nat] /\ d[0] = 0 /\ d[L] = Len(u) - 1
      /\ \A i \in 1 .. L : d[i] = c[i] - 1
  <2>1. \A i \in 0 .. L : i = 0 \/ i \in 1 .. L
    BY <1>1, SMTT(30)
  <2>2. ASSUME NEW i \in 1 .. L PROVE c[i] - 1 \in Nat /\ i # 0 /\ i \in 0 .. L
    <3>1. c[i] \in Nat /\ 1 <= c[i]
      BY <1>1, Zenon
    <3> QED BY <1>1, <3>1, SMTT(30)
  <2>3. L \in 1 .. L /\ 0 \in Nat
    BY <1>1, SMTT(30)
  <2> QED BY <1>1, <1>5, <2>1, <2>2, <2>3, ZenonT(30)
<1> HIDE DEF d
<1>9. ASSUME NEW i \in 1 .. L
      PROVE  /\ d[i] = d[i - 1] + ks2[i].n /\ 1 <= d[i] /\ d[i] <= Len(u) - 1
             /\ 1 <= ks2[i].n /\ ks2[i].n <= Len(BytesOf(ks2[i].key))
             /\ Sent(ks2[i], d[i - 1], v)
  <2>0. /\ c[i] = c[i - 1] + ks[i].n /\ 1 <= c[i] /\ c[i] <= Len(u) /\ Sent(ks[i], c[i - 1], u)
        /\ c[i] \in Nat /\ c[i - 1] \in Nat
        /\ ks[i].n \in Nat /\ 1 <= ks[i].n /\ ks[i].n <= Len(BytesOf(ks[i].key))
        /\ Len(BytesOf(ks[i].key)) \in Nat
    BY <1>1, Zenon
  <2>1. CASE i = 1
    <3> DEFINE n == ks[1].n
               b == BytesOf(ks[1].key)
               t == Len(b)
    <3>1. ks2[i] = x /\ x.n = n - 1 /\ BytesOf(x.key) = b /\ i - 1 = 0 /\ c[i - 1] = 0
      <4>1. 1 - 1 = 0
        BY SMTT(30)
      <4> QED BY <1>1, <1>4, <1>7, <2>1, <4>1, Zenon
    <3>2. n \in Nat /\ n > 1 /\ t \in Nat /\ n <= t /\ c[i] = n /\ n <= Len(u) /\ Len(u) \in Nat
      <4>1. n \in Nat /\ n > 1 /\ t \in Nat /\ n <= t /\ c[i] = 0 + n /\ c[i] <= Len(u) /\ Len(u) \in Nat
        BY <1>1, <2>0, <2>1, <3>1, Zenon
      <4> HIDE DEF n, t
      <4> QED BY <4>1, SMTT(30)
    <3>3. Sent(ks[1], 0, u)
      BY <2>0, <2>1, <3>1, Zenon
    <3> HIDE DEF n, t, b
    <3>4. n - 1 = 0 + (n - 1) /\ 1 <= n - 1 /\ n - 1 <= Len(u) - 1 /\ n - 1 <= t
      BY <3>2, SMTT(30)
    <3>5. ASSUME NEW j \in 1 .. n - 1 PROVE v[0 + j] = b[(t - (n - 1)) + j]
      <4>1. /\ 0 + j \in 1 .. Len(u) - 1 /\ (0 + j) + 1 = 0 + (j + 1) /\ j + 1 \in 1 .. n
            /\ (t - n) + (j + 1) = (t - (n - 1)) + j
        BY <3>2, SMTT(30)
      <4>2. u[0 + (j + 1)] = b[(t - n) + (j + 1)]
        BY <3>3, <4>1, Zenon DEF Sent, n, t, b
      <4> QED BY <1>1, <4>1, <4>2, Zenon
    <3>6. Sent(x, 0, v)
      BY <3>1, <3>5, Zenon DEF Sent, t
    <3>7. d[i] = n - 1 /\ d[i - 1] = 0
      BY <1>8, <3>1, <3>2, Zenon
    <3> QED BY <3>1, <3>4, <3>6, <3>7, Zenon DEF t
  <2>2. CASE i # 1
    <3>1. i \in 2 .. L /\ i - 1 \in 1 .. L
      BY <1>1, <2>2, SMTT(30)
    <3>2. ks2[i] = ks[i] /\ d[i] = c[i] - 1 /\ d[i - 1] = c[i - 1] - 1
      BY <1>7, <1>8, <3>1, ZenonT(30)
    <3> DEFINE n == ks[i].n
               a == c[i - 1]
               e == c[i]
    <3>3. 1 <= a /\ a \in Nat /\ e \in Nat /\ n \in Nat /\ e = a + n /\ e <= Len(u) /\ Len(u) \in Nat /\ 1 <= n
      BY <1>1, <2>0, <3>1, Zenon
    <3> HIDE DEF n, a, e
    <3>4. e - 1 = (a - 1) + n /\ 1 <= e - 1 /\ e - 1 <= Len(u) - 1
      BY <3>3, SMTT(30)
    <3>5. ASSUME NEW j \in 1 .. n PROVE v[(a - 1) + j] = u[a + j]
      <4>1. (a - 1) + j \in 1 .. Len(u) - 1 /\ ((a - 1) + j) + 1 = a + j
        BY <3>3, SMTT(30)
      <4>2. v[(a - 1) + j] = u[((a - 1) + j) + 1]
        BY <1>1, <4>1, Zenon
      <4> QED BY <4>1, <4>2, Zenon
    <3>6. Sent(ks[i], a - 1, v)
      BY <2>0, <3>5, Zenon DEF Sent, n, a
    <3> QED BY <2>0, <3>2, <3>4, <3>6, ZenonT(30) DEF n, a, e
  <2> QED BY <2>1, <2>2, Zenon
<1>10. Cut(d, ks2, v)
  BY <1>1, <1>7, <1>8, <1>9, Zenon DEF Cut
<1>11. \A i \in 2 .. L : ks2[i].n = Len(BytesOf(ks2[i].key))
  BY <1>2, <1>7, Zenon DEF L
<1>12. Keyed(ks2, v)
  BY <1>1, <1>7, <1>8, <1>9, <1>10, <1>11, ZenonT(30) DEF Keyed, K
<1>13. Gone(ks2) = Gone(ks) + 1
  <2>1. ks2 # <<>>
    <3>1. Len(<<>>) = 0 /\ L # 0
      BY <1>1, SMTT(30)
    <3> QED BY <1>7, <3>1, ZenonT(30)
  <2>2. Gone(ks2) = Len(BytesOf(ks[1].key)) - (ks[1].n - 1)
    BY <1>4, <1>7, <2>1, Zenon DEF Gone
  <2>3. Len(BytesOf(ks[1].key)) \in Nat
    BY <1>1, <1>5, Zenon
  <2>4. \A a, b \in Nat : a - (b - 1) = (a - b) + 1
    BY SMTT(30)
  <2> QED BY <1>3, <2>2, <2>3, <2>4, Zenon
<1> QED BY <1>12, <1>13, Zenon DEF ks2, v

(* The last byte of a key is consumed. *)
LEMMA KeyedTake ==
  ASSUME NEW ks, NEW u, Keyed(ks, u), u # <<>>, ks[1].n = 1
  PROVE  Keyed(Tail(ks), Tail(u)) /\ Gone(Tail(ks)) = 0
<1> DEFINE K == [key : KeyNames, n : Nat]
           L == Len(ks)
           ks2 == Tail(ks)
           v == Tail(u)
<1>1. PICK c \in [0 .. L -> Nat] :
           /\ c[0] = 0 /\ c[L] = Len(u)
           /\ \A i \in 1 .. L :
                /\ c[i] = c[i - 1] + ks[i].n /\ 1 <= c[i] /\ c[i] <= Len(u) /\ Sent(ks[i], c[i - 1], u)
                /\ i \in 0 .. L /\ i - 1 \in 0 .. L /\ c[i] \in Nat /\ c[i - 1] \in Nat
                /\ ks[i].n \in Nat /\ 1 <= ks[i].n /\ ks[i].n <= Len(BytesOf(ks[i].key))
                /\ Len(BytesOf(ks[i].key)) \in Nat
           /\ L \in Nat /\ L >= 1 /\ Len(u) \in Nat /\ Len(u) >= 1
           /\ v \in Bytes /\ Len(v) = Len(u) - 1
           /\ \A i \in 1 .. Len(u) - 1 : v[i] = u[i + 1]
  BY CutFacts, ZenonT(30)
<1>2. /\ ks \in Seq(K) /\ \A i \in 2 .. L : ks[i].n = Len(BytesOf(ks[i].key))
  BY Zenon DEF Keyed
<1>3. ks # <<>>
  BY KeyedHead, Zenon
<1> HIDE DEF K
<1>4. ks2 \in Seq(K) /\ Len(ks2) = L - 1 /\ \A i \in 1 .. L - 1 : ks2[i] = ks[i + 1]
  <2>1. /\ Tail(ks) \in Seq(K) /\ Len(Tail(ks)) = Len(ks) - 1
        /\ \A i \in 1 .. Len(Tail(ks)) : Tail(ks)[i] = ks[i + 1]
    BY <1>2, <1>3, HeadTailProperties, SMTT(30)
  <2> QED BY <2>1, Zenon
<1> HIDE DEF L, v, ks2
<1>5. c[1] = 1
  <2>1. 1 \in 1 .. L /\ 1 - 1 = 0 /\ 0 + 1 = 1
    BY <1>1, SMTT(30)
  <2> QED BY <1>1, <2>1, Zenon
<1> DEFINE d == [i \in 0 .. L - 1 |-> c[i + 1] - 1]
<1>6. d \in [0 .. L - 1 -> Nat] /\ d[0] = 0 /\ d[L - 1] = Len(u) - 1
      /\ \A i \in 0 .. L - 1 : d[i] = c[i + 1] - 1
  <2>1. ASSUME NEW i \in 0 .. L - 1 PROVE c[i + 1] - 1 \in Nat
    <3>1. i + 1 \in 1 .. L
      BY <1>1, SMTT(30)
    <3>2. c[i + 1] \in Nat /\ 1 <= c[i + 1]
      BY <1>1, <3>1, Zenon
    <3> QED BY <3>2, SMTT(30)
  <2>2. 0 \in 0 .. L - 1 /\ L - 1 \in 0 .. L - 1 /\ 0 + 1 = 1 /\ (L - 1) + 1 = L /\ 1 - 1 = 0
    BY <1>1, SMTT(30)
  <2> QED BY <1>1, <1>5, <2>1, <2>2, Zenon
<1> HIDE DEF d
<1>7. ASSUME NEW i \in 1 .. L - 1
      PROVE  /\ d[i] = d[i - 1] + ks2[i].n /\ 1 <= d[i] /\ d[i] <= Len(u) - 1
             /\ 1 <= ks2[i].n /\ ks2[i].n = Len(BytesOf(ks2[i].key))
             /\ ks2[i].n <= Len(BytesOf(ks2[i].key))
             /\ Sent(ks2[i], d[i - 1], v)
  <2>1. /\ i + 1 \in 1 .. L /\ i \in 1 .. L /\ (i + 1) - 1 = i /\ i + 1 \in 2 .. L
        /\ i \in 0 .. L - 1 /\ i - 1 \in 0 .. L - 1 /\ (i - 1) + 1 = i
    BY <1>1, SMTT(30)
  <2>2. /\ c[i + 1] = c[i] + ks[i + 1].n /\ c[i + 1] <= Len(u) /\ Sent(ks[i + 1], c[i], u)
        /\ c[i + 1] \in Nat /\ c[i] \in Nat /\ 1 <= c[i]
        /\ ks[i + 1].n \in Nat /\ 1 <= ks[i + 1].n /\ ks[i + 1].n <= Len(BytesOf(ks[i + 1].key))
        /\ ks[i + 1].n = Len(BytesOf(ks[i + 1].key))
    <3>1. ks[i + 1].n = Len(BytesOf(ks[i + 1].key))
      BY <1>2, <2>1, Zenon DEF L
    <3>2. c[i] \in Nat /\ 1 <= c[i]
      BY <1>1, <2>1, Zenon
    <3>3. /\ c[i + 1] = c[(i + 1) - 1] + ks[i + 1].n /\ c[i + 1] <= Len(u) /\ Sent(ks[i + 1], c[(i + 1) - 1], u)
          /\ c[i + 1] \in Nat
          /\ ks[i + 1].n \in Nat /\ 1 <= ks[i + 1].n /\ ks[i + 1].n <= Len(BytesOf(ks[i + 1].key))
      BY <1>1, <2>1, Zenon
    <3> QED BY <2>1, <3>1, <3>2, <3>3, Zenon
  <2>3. ks2[i] = ks[i + 1] /\ d[i] = c[i + 1] - 1 /\ d[i - 1] = c[i] - 1
    BY <1>4, <1>6, <2>1, ZenonT(30)
  <2> DEFINE n == ks[i + 1].n
             a == c[i]
             e == c[i + 1]
  <2>4. 1 <= a /\ a \in Nat /\ e \in Nat /\ n \in Nat /\ e = a + n /\ e <= Len(u) /\ Len(u) \in Nat /\ 1 <= n
    BY <1>1, <2>2, Zenon
  <2> HIDE DEF n, a, e
  <2>5. e - 1 = (a - 1) + n /\ 1 <= e - 1 /\ e - 1 <= Len(u) - 1
    BY <2>4, SMTT(30)
  <2>6. ASSUME NEW j \in 1 .. n PROVE v[(a - 1) + j] = u[a + j]
    <3>1. (a - 1) + j \in 1 .. Len(u) - 1 /\ ((a - 1) + j) + 1 = a + j
      BY <2>4, SMTT(30)
    <3>2. v[(a - 1) + j] = u[((a - 1) + j) + 1]
      BY <1>1, <3>1, Zenon
    <3> QED BY <3>1, <3>2, Zenon
  <2>7. Sent(ks[i + 1], a - 1, v)
    BY <2>2, <2>6, Zenon DEF Sent, n, a
  <2> QED BY <2>2, <2>3, <2>5, <2>7, ZenonT(30) DEF n, a, e
<1>8. Cut(d, ks2, v)
  BY <1>1, <1>4, <1>6, <1>7, ZenonT(30) DEF Cut
<1>9. \A i \in 2 .. L - 1 : i \in 1 .. L - 1
  BY <1>1, SMTT(30)
<1>10. Keyed(ks2, v)
  BY <1>1, <1>4, <1>6, <1>7, <1>8, <1>9, ZenonT(30) DEF Keyed, K
<1>11. Gone(ks2) = 0
  <2>1. CASE ks2 = <<>>
    BY <2>1, Zenon DEF Gone
  <2>2. CASE ks2 # <<>>
    <3>1. 1 \in 1 .. L - 1
      BY <1>1, <1>4, <2>2, EmptySeq, SMTT(30)
    <3>2. ks2[1].n = Len(BytesOf(ks2[1].key)) /\ ks2[1] \in K
      BY <1>4, <1>7, <3>1, ElementOfSeq, ZenonT(30)
    <3>3. ks2[1].n \in Nat /\ \A n \in Nat : n - n = 0
      BY <3>2, SMTT(30) DEF K
    <3> QED BY <2>2, <3>2, <3>3, ZenonT(30) DEF Gone
  <2> QED BY <2>1, <2>2, Zenon
<1> QED BY <1>10, <1>11, Zenon DEF ks2, v

-----------------------------------------------------------------------------
(***************************************************************************)
(* Byte by byte: what the reader makes of a key is what the user means.    *)
(***************************************************************************)
(* The bytes of a navigation key, one by one: a final byte names one key. *)
LEMMA EscapeShape ==
  ASSUME NEW k \in Extended
  PROVE  /\ EscapeOf[k][1] = "ESC" /\ EscapeOf[k][2] = "["
         /\ k # "delete" => /\ Len(EscapeOf[k]) = 3 /\ EscapeOf[k][3] \in DOMAIN Final
                            /\ Final[EscapeOf[k][3]] = k /\ EscapeOf[k][3] # "3"
         /\ k = "delete" => Len(EscapeOf[k]) = 4 /\ EscapeOf[k][3] = "3"
<1>1. k \in {"up", "down", "right", "left", "home", "end", "delete"}
  BY SMTT(30) DEF Extended, EscapeOf
<1>2. EscapeOf[k][1] = "ESC" /\ EscapeOf[k][2] = "["
  BY <1>1, SMTT(30) DEF EscapeOf
<1>3. CASE k = "delete"
  <2>1. Len(EscapeOf["delete"]) = 4 /\ EscapeOf["delete"][3] = "3"
    BY SMTT(30) DEF EscapeOf
  <2> QED BY <1>2, <1>3, <2>1, Zenon
<1>4. CASE k # "delete"
  <2>1. Len(EscapeOf[k]) = 3
    BY <1>1, <1>4, SMTT(30) DEF EscapeOf
  <2>2. /\ EscapeOf["up"][3] = "A" /\ EscapeOf["down"][3] = "B" /\ EscapeOf["right"][3] = "C"
        /\ EscapeOf["left"][3] = "D" /\ EscapeOf["home"][3] = "H" /\ EscapeOf["end"][3] = "F"
    BY SMTT(30) DEF EscapeOf
  <2>3. /\ Final["A"] = "up" /\ Final["B"] = "down" /\ Final["C"] = "right"
        /\ Final["D"] = "left" /\ Final["H"] = "home" /\ Final["F"] = "end"
    BY SMTT(30) DEF Final
  <2>4. {"A", "B", "C", "D", "H", "F"} \subseteq DOMAIN Final
    BY SMTT(30) DEF Final
  <2> QED BY <1>1, <1>2, <1>4, <2>1, <2>2, <2>3, <2>4, ZenonT(30)
<1> QED BY <1>3, <1>4, ZenonT(30)

(* decode_escape between two bytes leaves the line alone. *)
LEMMA EscSet ==
  ASSUME NEW e, NEW r, Agrees(e, r), NEW x \in EscStates
  PROVE  LET f == [e EXCEPT !.esc = x] IN Agrees(f, r) /\ f.esc = x /\ f.max = e.max
<1> DEFINE f == [e EXCEPT !.esc = x]
<1>1. e \in Editing
  BY Zenon DEF Agrees
<1>2. /\ f \in Editing /\ f.esc = x /\ f.max = e.max /\ f.line = e.line
      /\ f.cursor = e.cursor /\ f.pos = e.pos
  BY <1>1, Zenon DEF Editing
<1> HIDE DEF f
<1>3. Agrees(f, r) /\ f.esc = x /\ f.max = e.max
  BY <1>2, Zenon DEF Agrees
<1> QED BY <1>3, Zenon DEF f

(* A navigation key, byte by byte, against what the user means by it. *)
LEMMA NavigationAgrees ==
  ASSUME NEW e, NEW r, Agrees(e, r), history \in Seq(Bytes), NEW k \in Extended,
         NEW m \in 0 .. Len(EscapeOf[k]) - 1, e.esc = EscAfter(m)
  PROVE  LET f == Step(e, EscapeOf[k][m + 1]).e
         IN  /\ m + 1 < Len(EscapeOf[k]) => Agrees(f, r) /\ f.esc = EscAfter(m + 1)
             /\ ~(m + 1 < Len(EscapeOf[k])) => Agrees(f, Type(r, k, e.max)) /\ f.esc = "none"
<1> DEFINE byte == EscapeOf[k][m + 1]
           f == Step(e, byte).e
           back == [e EXCEPT !.esc = "none"]
<1>1. Len(EscapeOf[k]) \in {3, 4} /\ m \in {0, 1, 2, 3} /\ (m = 3 => k = "delete")
  <2>1. Len(EscapeOf[k]) = 3 \/ (Len(EscapeOf[k]) = 4 /\ k = "delete")
    BY EscapeShape, Zenon
  <2>2. \A n : n = 3 => (m \in 0 .. n - 1 => m \in {0, 1, 2})
    BY SMTT(30)
  <2>3. \A n : n = 4 => (m \in 0 .. n - 1 => m \in {0, 1, 2, 3})
    BY SMTT(30)
  <2>4. 3 \notin {0, 1, 2}
    BY SMTT(30)
  <2> QED BY <2>1, <2>2, <2>3, <2>4, Zenon
<1>2. /\ EscAfter(0) = "none" /\ EscAfter(1) = "esc" /\ EscAfter(2) = "csi" /\ EscAfter(3) = "del"
  BY SMTT(30) DEF EscAfter
<1>3. /\ 0 + 1 = 1 /\ 1 + 1 = 2 /\ 2 + 1 = 3 /\ 3 + 1 = 4 /\ 1 < 3 /\ 1 < 4 /\ 2 < 3 /\ 2 < 4
      /\ 3 < 4 /\ ~(3 < 3) /\ ~(4 < 4)
  BY SMTT(30)
<1>4. /\ EscapeOf[k][1] = "ESC" /\ EscapeOf[k][2] = "["
      /\ k # "delete" => /\ Len(EscapeOf[k]) = 3 /\ EscapeOf[k][3] \in DOMAIN Final
                         /\ Final[EscapeOf[k][3]] = k /\ EscapeOf[k][3] # "3"
      /\ k = "delete" => Len(EscapeOf[k]) = 4 /\ EscapeOf[k][3] = "3"
  BY EscapeShape, Zenon
<1>5. \A x \in EscStates : Agrees([e EXCEPT !.esc = x], r) /\ [e EXCEPT !.esc = x].esc = x
                           /\ [e EXCEPT !.esc = x].max = e.max
  BY EscSet, Zenon
<1>6. "none" \in EscStates /\ "esc" \in EscStates /\ "csi" \in EscStates /\ "del" \in EscStates
  BY Zenon DEF EscStates
<1>7. Agrees(Arrow(back, k).e, Type(r, k, e.max)) /\ Arrow(back, k).e.esc = "none"
  <2>1. Agrees(back, r) /\ back.esc = "none" /\ back.max = e.max
    BY <1>5, <1>6, Zenon
  <2> HIDE DEF back
  <2>2. Agrees(Arrow(back, k).e, Type(r, k, back.max)) /\ Arrow(back, k).e.esc = back.esc
    BY <2>1, ArrowAgrees, Zenon
  <2> QED BY <2>1, <2>2, Zenon
<1> DEFINE Good == /\ m + 1 < Len(EscapeOf[k]) => Agrees(f, r) /\ f.esc = EscAfter(m + 1)
                   /\ ~(m + 1 < Len(EscapeOf[k])) => Agrees(f, Type(r, k, e.max)) /\ f.esc = "none"
<1> SUFFICES Good
  BY Zenon
<1> HIDE DEF byte
<1>8. CASE m = 0
  <2>1. byte = "ESC" /\ e.esc = "none" /\ m + 1 = 1
    BY <1>2, <1>3, <1>4, <1>8, Zenon DEF byte
  <2>2. Step(e, "ESC") = Edit([e EXCEPT !.esc = "esc"], <<>>)
    BY <2>1, Zenon DEF Step
  <2>3. f = [e EXCEPT !.esc = "esc"]
    <3>1. Edit([e EXCEPT !.esc = "esc"], <<>>).e = [e EXCEPT !.esc = "esc"]
      BY Zenon DEF Edit
    <3> QED BY <2>1, <2>2, <3>1, Zenon
  <2> HIDE DEF f
  <2> QED BY <1>1, <1>2, <1>3, <1>5, <1>6, <2>1, <2>3, ZenonT(30)
<1>9. CASE m = 1
  <2>1. byte = "[" /\ e.esc = "esc" /\ m + 1 = 2
    BY <1>2, <1>3, <1>4, <1>9, Zenon DEF byte
  <2>2. Step(e, "[") = decode_escape(e, "[")
    BY <2>1, Zenon DEF Step
  <2>3. decode_escape(e, "[") = Edit([e EXCEPT !.esc = "csi"], <<>>)
    BY <2>1, Zenon DEF decode_escape
  <2>4. f = [e EXCEPT !.esc = "csi"]
    <3>1. Edit([e EXCEPT !.esc = "csi"], <<>>).e = [e EXCEPT !.esc = "csi"]
      BY Zenon DEF Edit
    <3> QED BY <2>1, <2>2, <2>3, <3>1, Zenon
  <2> HIDE DEF f
  <2> QED BY <1>1, <1>2, <1>3, <1>5, <1>6, <2>1, <2>4, ZenonT(30)
<1>10. CASE m = 2 /\ k = "delete"
  <2>1. byte = "3" /\ e.esc = "csi" /\ m + 1 = 3
    BY <1>2, <1>3, <1>4, <1>10, Zenon DEF byte
  <2>2. Step(e, "3") = decode_escape(e, "3")
    BY <2>1, Zenon DEF Step
  <2>3. decode_escape(e, "3") = Edit([e EXCEPT !.esc = "del"], <<>>)
    <3>1. "3" \notin DOMAIN Final
      BY SMTT(30) DEF Final
    <3> QED BY <2>1, <3>1, Zenon DEF decode_escape
  <2>4. f = [e EXCEPT !.esc = "del"]
    <3>1. Edit([e EXCEPT !.esc = "del"], <<>>).e = [e EXCEPT !.esc = "del"]
      BY Zenon DEF Edit
    <3> QED BY <2>1, <2>2, <2>3, <3>1, Zenon
  <2> HIDE DEF f
  <2> QED BY <1>2, <1>3, <1>4, <1>5, <1>6, <1>10, <2>1, <2>4, ZenonT(30)
<1>11. CASE m = 2 /\ k # "delete"
  <2>1. byte \in DOMAIN Final /\ Final[byte] = k /\ byte # "3" /\ e.esc = "csi" /\ m + 1 = 3
    BY <1>2, <1>3, <1>4, <1>11, Zenon DEF byte
  <2>2. Step(e, byte) = decode_escape(e, byte)
    BY <2>1, Zenon DEF Step
  <2>3. decode_escape(e, byte) = Arrow(back, k)
    BY <2>1, Zenon DEF decode_escape
  <2>4. f = Arrow(back, k).e
    BY <2>2, <2>3, Zenon
  <2> HIDE DEF f, back
  <2> QED BY <1>3, <1>4, <1>7, <1>11, <2>1, <2>4, Zenon
<1>12. CASE m = 3
  <2>1. e.esc = "del" /\ m + 1 = 4 /\ k = "delete"
    BY <1>1, <1>2, <1>3, <1>12, Zenon
  <2>2. Step(e, byte) = decode_escape(e, byte)
    BY <2>1, Zenon DEF Step
  <2>3. decode_escape(e, byte) = Arrow(back, k)
    BY <2>1, Zenon DEF decode_escape
  <2>4. f = Arrow(back, k).e
    BY <2>2, <2>3, Zenon
  <2> HIDE DEF f, back
  <2> QED BY <1>3, <1>4, <1>7, <2>1, <2>4, ZenonT(30)
<1> HIDE DEF Good
<1> QED BY <1>1, <1>8, <1>9, <1>10, <1>11, <1>12, Zenon

(* A letter: inserted at the cursor unless the buffer is full. *)
LEMMA LetterAgrees ==
  ASSUME NEW e, NEW r, Agrees(e, r), history \in Seq(Bytes), NEW k \in Letters, e.esc = "none"
  PROVE  Agrees(Step(e, k).e, Type(r, k, e.max)) /\ Step(e, k).e.esc = "none"
<1> DEFINE l == r.left
           q == r.right
           n == Len(e.line)
           w == Append(l, k)
           f == Step(e, k).e
           s == Type(r, k, e.max)
<1>0. \A x, y : Edit(x, y).e = x
  BY Zenon DEF Edit
<1>1. /\ e \in Editing /\ r \in Lines /\ l \in Bytes /\ q \in Bytes
      /\ e.line = l \o q /\ e.cursor = Len(l) /\ Len(l) \in Nat /\ e.line \in Bytes
      /\ e.pos = r.pos /\ r.pos <= Len(history)
  BY Agreed, Zenon DEF Agrees
<1>2. k \in Byte /\ k # "ESC" /\ k # "BS"
  BY Zenon DEF Letters, Byte
<1>3. Step(e, k) = insert(e, k)
  BY <1>2, Zenon DEF Step
<1>4. s = IF Len(l \o q) + 1 < e.max THEN [r EXCEPT !.left = Append(@, k)] ELSE r
  BY TypeCases, ZenonT(30)
<1>5. n \in Nat /\ e.max \in Nat
  BY <1>1, LenProperties, Zenon DEF Bytes, Editing
<1>6. CASE n + 1 >= e.max
  <2>1. insert(e, k) = Edit(e, <<>>)
    <3>1. ~(n + 1 < e.max)
      BY <1>5, <1>6, SMTT(30)
    <3> QED BY <1>6, <3>1, Zenon DEF insert
  <2>2. s = r
    <3>1. ~(n + 1 < e.max)
      BY <1>5, <1>6, SMTT(30)
    <3> QED BY <1>1, <1>4, <3>1, ZenonT(30)
  <2> QED BY <1>0, <1>3, <2>1, <2>2, Zenon
<1>7. CASE ~(n + 1 >= e.max)
  <2> DEFINE z == Upto(e.line, e.cursor) \o <<k>> \o From(e.line, e.cursor)
             g == [e EXCEPT !.line = z, !.cursor = @ + 1]
  <2>1. n + 1 < e.max
    BY <1>5, <1>7, SMTT(30)
  <2>2. insert(e, k).e = g
    <3>1. CASE e.cursor = n
      <4>1. insert(e, k) = Edit(g, <<Put(k)>>)
        BY <1>7, <2>1, <3>1, Zenon DEF insert
      <4> HIDE DEF g
      <4> QED BY <1>0, <4>1, Zenon
    <3>2. CASE e.cursor # n
      <4>1. insert(e, k) = Edit(g, Puts(From(z, e.cursor)) \o Times(n - e.cursor, Back))
        BY <1>7, <2>1, <3>2, Zenon DEF insert
      <4> HIDE DEF g
      <4> QED BY <1>0, <4>1, Zenon
    <3> QED BY <3>1, <3>2, Zenon
  <2>3. z = w \o q /\ w \in Bytes /\ Len(w) = Len(l) + 1
    <3>1. z = Upto(l \o q, Len(l)) \o <<k>> \o From(l \o q, Len(l))
      <4> HIDE DEF l, q
      <4> QED BY <1>1, Zenon
    <3>2. /\ Upto(l \o q, Len(l)) \o <<k>> \o From(l \o q, Len(l)) = w \o q
          /\ w \in Bytes /\ Len(w) = Len(l) + 1
      <4> HIDE DEF l, q
      <4> QED BY <1>1, <1>2, Longer, Zenon
    <3> HIDE DEF z
    <3> QED BY <3>1, <3>2, Zenon
  <2>4. z \in Bytes
    <3> HIDE DEF w, z
    <3>1. w \o q \in Bytes
      BY <1>1, <2>3, Joined, Zenon
    <3> QED BY <2>3, <3>1, Zenon
  <2>5. s = [r EXCEPT !.left = w]
    BY <1>1, <1>4, <2>1, Zenon
  <2> HIDE DEF w, z
  <2>6. s \in Lines /\ s.left = w /\ s.right = q /\ s.pos = r.pos
    BY <1>1, <2>3, <2>5, ZenonT(30) DEF Lines
  <2>7. e.cursor + 1 \in Nat
    BY <1>1, SMTT(30)
  <2>8. g \in Editing /\ g.line = z /\ g.cursor = e.cursor + 1 /\ g.pos = e.pos /\ g.esc = e.esc
    BY <1>1, <2>4, <2>7, Zenon DEF Editing
  <2> HIDE DEF g
  <2>9. Agrees(g, s) /\ g.esc = "none"
    BY <1>1, <2>3, <2>6, <2>8, Zenon DEF Agrees
  <2> QED BY <1>3, <2>2, <2>9, Zenon
<1> QED BY <1>6, <1>7, Zenon

(* Backspace. *)
LEMMA BackspaceAgrees ==
  ASSUME NEW e, NEW r, Agrees(e, r), history \in Seq(Bytes), e.esc = "none"
  PROVE  Agrees(Step(e, "BS").e, Type(r, "bs", e.max)) /\ Step(e, "BS").e.esc = "none"
<1> DEFINE l == r.left
           q == r.right
           w == DropLast(l)
           s == Type(r, "bs", e.max)
<1>0. \A x, y : Edit(x, y).e = x
  BY Zenon DEF Edit
<1>1. /\ e \in Editing /\ r \in Lines /\ l \in Bytes /\ q \in Bytes
      /\ e.line = l \o q /\ e.cursor = Len(l) /\ Len(l) \in Nat /\ e.line \in Bytes
      /\ e.pos = r.pos /\ r.pos <= Len(history) /\ (l # <<>> <=> Len(l) > 0)
  BY Agreed, Zenon DEF Agrees
<1>3. Step(e, "BS") = backspace(e)
  BY Zenon DEF Step
<1>4. s = IF l # <<>> THEN [r EXCEPT !.left = DropLast(@)] ELSE r
  BY TypeCases, Zenon
<1>6. CASE e.cursor = 0
  <2>1. backspace(e) = Edit(e, <<>>)
    BY <1>6, Zenon DEF backspace
  <2>2. s = r
    <3>1. ~(0 > 0)
      BY SMTT(30)
    <3> QED BY <1>1, <1>4, <1>6, <3>1, Zenon
  <2> QED BY <1>0, <1>3, <2>1, <2>2, Zenon
<1>7. CASE e.cursor # 0
  <2> DEFINE z == Without(e.line, e.cursor - 1)
             g == [e EXCEPT !.line = z, !.cursor = @ - 1]
  <2>1. l # <<>> /\ Len(l) - 1 \in Nat
    BY <1>1, <1>7, SMTT(30)
  <2>2. backspace(e).e = g
    <3>1. backspace(e) = Edit(g, <<Back>> \o redraw_tail(z, e.cursor - 1, e.cursor - 1))
      BY <1>7, Zenon DEF backspace
    <3> HIDE DEF g
    <3> QED BY <1>0, <3>1, Zenon
  <2>3. w \in Bytes /\ Len(w) = Len(l) - 1
    BY <1>1, <2>1, Ends, Zenon
  <2>4. z = w \o q
    BY <1>1, <2>1, Shorter, ZenonT(30)
  <2>5. s = [r EXCEPT !.left = w]
    BY <1>4, <2>1, Zenon
  <2> HIDE DEF w, z
  <2>6. z \in Bytes
    BY <1>1, <2>3, <2>4, Joined, Zenon
  <2>7. s \in Lines /\ s.left = w /\ s.right = q /\ s.pos = r.pos
    BY <1>1, <2>3, <2>5, Zenon DEF Lines
  <2>8. g \in Editing /\ g.line = z /\ g.cursor = e.cursor - 1 /\ g.pos = e.pos /\ g.esc = e.esc
    BY <1>1, <2>1, <2>6, Zenon DEF Editing
  <2> HIDE DEF g
  <2>9. Agrees(g, s) /\ g.esc = "none"
    BY <1>1, <2>3, <2>4, <2>7, <2>8, Zenon DEF Agrees
  <2> QED BY <1>3, <2>2, <2>9, ZenonT(30)
<1> QED BY <1>6, <1>7, Zenon

(* One byte of a key other than Enter, against what the user means by the key. *)
LEMMA StepAgrees ==
  ASSUME NEW e, NEW r, Agrees(e, r), history \in Seq(Bytes), NEW k \in KeyNames, k # "enter",
         NEW m \in 0 .. Len(BytesOf(k)) - 1, e.esc = EscAfter(m)
  PROVE  LET f == Step(e, BytesOf(k)[m + 1]).e
         IN  /\ m + 1 < Len(BytesOf(k)) => Agrees(f, r) /\ f.esc = EscAfter(m + 1)
             /\ ~(m + 1 < Len(BytesOf(k))) => Agrees(f, Type(r, k, e.max)) /\ f.esc = "none"
<1>1. CASE k \in Extended
  <2>1. BytesOf(k) = EscapeOf[k]
    BY <1>1, Zenon DEF BytesOf
  <2> DEFINE f == Step(e, EscapeOf[k][m + 1]).e
  <2>2. m \in 0 .. Len(EscapeOf[k]) - 1
    BY <2>1, Zenon
  <2>3. /\ m + 1 < Len(EscapeOf[k]) => Agrees(f, r) /\ f.esc = EscAfter(m + 1)
        /\ ~(m + 1 < Len(EscapeOf[k])) => Agrees(f, Type(r, k, e.max)) /\ f.esc = "none"
    BY <1>1, <2>2, NavigationAgrees, Zenon
  <2>4. f = Step(e, BytesOf(k)[m + 1]).e
    BY <2>1, Zenon
  <2> HIDE DEF f
  <2> QED BY <2>1, <2>3, <2>4, Zenon
<1>2. CASE k \notin Extended
  <2>1. \A b : Len(<<b>>) = 1 /\ <<b>>[1] = b
    BY SMTT(30)
  <2>2. Len(BytesOf(k)) = 1
    BY <1>2, <2>1, Zenon DEF BytesOf
  <2>3. m = 0 /\ m + 1 = 1 /\ ~(m + 1 < 1)
    BY <2>2, SMTT(30)
  <2>4. e.esc = "none"
    BY <2>3, Zenon DEF EscAfter
  <2>5. CASE k = "bs"
    <3>1. BytesOf(k)[m + 1] = "BS"
      BY <1>2, <2>1, <2>3, <2>5, Zenon DEF BytesOf
    <3>2. Agrees(Step(e, "BS").e, Type(r, k, e.max)) /\ Step(e, "BS").e.esc = "none"
      BY <2>4, <2>5, BackspaceAgrees, Zenon
    <3> QED BY <2>2, <2>3, <3>1, <3>2, Zenon
  <2>6. CASE k # "bs"
    <3>1. BytesOf(k)[m + 1] = k /\ k \in Letters
      BY <1>2, <2>1, <2>3, <2>6, Zenon DEF BytesOf, KeyNames
    <3>2. Agrees(Step(e, k).e, Type(r, k, e.max)) /\ Step(e, k).e.esc = "none"
      BY <2>4, <3>1, LetterAgrees, Zenon
    <3> QED BY <2>2, <2>3, <3>1, <3>2, Zenon
  <2> QED BY <2>5, <2>6, Zenon
<1> QED BY <1>1, <1>2, Zenon

(* Of all bytes between keys, only Enter's is the newline. *)
LEMMA NewlineIsEnter ==
  ASSUME NEW k \in KeyNames
  PROVE  /\ BytesOf(k)[1] = "NL" <=> k = "enter"
         /\ k = "enter" => Len(BytesOf(k)) = 1
<1>1. \A b : Len(<<b>>) = 1 /\ <<b>>[1] = b
  BY SMTT(30)
<1>2. "enter" \notin Extended /\ "bs" \notin Extended
  BY SMTT(30) DEF Extended, EscapeOf
<1>3. CASE k \in Extended
  <2>1. BytesOf(k)[1] = "ESC"
    BY <1>3, EscapeShape, Zenon DEF BytesOf
  <2> QED BY <1>2, <1>3, <2>1, Zenon
<1>4. CASE k = "enter"
  <2>1. BytesOf("enter") = <<"NL">>
    BY <1>2, Zenon DEF BytesOf
  <2> QED BY <1>1, <1>4, <2>1, Zenon
<1>5. CASE k = "bs"
  <2>1. BytesOf("bs") = <<"BS">>
    BY <1>2, Zenon DEF BytesOf
  <2> QED BY <1>1, <1>5, <2>1, Zenon
<1>6. CASE k \notin Extended /\ k # "enter" /\ k # "bs"
  <2>1. BytesOf(k) = <<k>> /\ k \in Letters
    BY <1>6, Zenon DEF BytesOf, KeyNames
  <2>2. k # "NL"
    BY <2>1, Zenon DEF Letters
  <2> QED BY <1>1, <1>6, <2>1, <2>2, Zenon
<1> QED BY <1>3, <1>4, <1>5, <1>6, Zenon

(* The bytes an ordinary key sends are those of the key the user means: Shift
   and Caps Lock are applied when the scancode arrives. *)
LEMMA TypedBytes ==
  ASSUME NEW k \in DOMAIN Unshifted, shift \in BOOLEAN, caps \in BOOLEAN
  PROVE  \/ (IF Ascii(k) = "NUL" THEN <<>> ELSE <<Ascii(k)>>) = <<>>
         \/ /\ (IF Ascii(k) = "NUL" THEN <<>> ELSE <<Ascii(k)>>) = BytesOf(Meant(k))
            /\ Meant(k) \in KeyNames
<1>1. k \in {"a", "b", "bs", "enter", "f1"}
  BY SMTT(30) DEF Unshifted
<1>2. /\ Unshifted["a"] = "a" /\ Unshifted["b"] = "b" /\ Unshifted["bs"] = "BS"
      /\ Unshifted["enter"] = "NL" /\ Unshifted["f1"] = "NUL"
      /\ Shifted["a"] = "A" /\ Shifted["b"] = "B" /\ Shifted["bs"] = "BS"
      /\ Shifted["enter"] = "NL" /\ Shifted["f1"] = "NUL"
      /\ Upcase["a"] = "A" /\ Upcase["b"] = "B" /\ Downcase["A"] = "a" /\ Downcase["B"] = "b"
  BY SMTT(30) DEF Unshifted, Shifted, Upcase, Downcase
<1>3. Letters \cap Extended = {} /\ "enter" \notin Extended /\ "bs" \notin Extended
  BY SMTT(30) DEF Extended, EscapeOf, Letters
<1>4. /\ BytesOf("bs") = <<"BS">> /\ BytesOf("enter") = <<"NL">>
      /\ \A c \in Letters : BytesOf(c) = <<c>>
  <2>1. "bs" \notin Letters /\ "enter" \notin Letters
    BY Zenon DEF Letters
  <2> QED BY <1>3, <2>1, Zenon DEF BytesOf
<1>5. CASE k = "f1"
  <2>1. "NUL" \notin Lower /\ "NUL" \notin Upper
    BY Zenon DEF Lower, Upper
  <2>2. Ascii(k) = "NUL"
    BY <1>2, <1>5, <2>1, SMTT(30) DEF Ascii
  <2> QED BY <2>2, Zenon
<1>6. CASE k \in {"bs", "enter"}
  <2>1. "BS" \notin Lower \cup Upper /\ "NL" \notin Lower \cup Upper
    BY Zenon DEF Lower, Upper
  <2>2. Ascii("bs") = "BS" /\ Ascii("enter") = "NL"
    BY <1>2, <2>1, SMTT(30) DEF Ascii
  <2>3. Meant(k) = k /\ k \in KeyNames
    BY <1>6, Zenon DEF Meant, KeyNames
  <2> QED BY <1>4, <1>6, <2>2, <2>3, Zenon
<1>7. CASE k \in {"a", "b"}
  <2>1. Ascii(k) = Meant(k) /\ Meant(k) \in Letters
    <3>1. /\ "a" \in Lower /\ "a" \notin Upper /\ "A" \in Upper /\ "A" \notin Lower
          /\ "b" \in Lower /\ "b" \notin Upper /\ "B" \in Upper /\ "B" \notin Lower
      BY Zenon DEF Lower, Upper
    <3>2. CASE k = "a"
      BY <1>2, <3>1, <3>2, SMTT(30) DEF Ascii, Meant, Letters
    <3>3. CASE k = "b"
      BY <1>2, <3>1, <3>3, SMTT(30) DEF Ascii, Meant, Letters
    <3> QED BY <1>7, <3>2, <3>3, Zenon
  <2>2. Meant(k) \in KeyNames /\ Meant(k) # "NUL"
    BY <2>1, Zenon DEF KeyNames, Letters
  <2> QED BY <1>4, <2>1, <2>2, Zenon
<1> QED BY <1>1, <1>5, <1>6, <1>7, ZenonT(30)

-----------------------------------------------------------------------------
(***************************************************************************)
(* The invariant.                                                          *)
(***************************************************************************)
(* TERMINAL_READER admits one process to read_line. *)
Inside(p) == st[p] \in {"reading", "done"}
OneReader ==
    /\ st \in [Procs -> {"out", "spin", "reading", "done"}]
    /\ \A p \in Procs : Inside(p) => reader
    /\ \A p, q \in Procs : Inside(p) /\ Inside(q) => p = q

(* Until a byte is lost: the unread bytes are those of the pending keys, of
   which the reader has consumed the ones its escape state says, and its line
   is the user's. *)
LineKept ==
    /\ history \in Seq(Bytes) /\ ed \in [Procs -> Editing] /\ Keyed(pending, unread)
    /\ \A p \in Procs : st[p] = "spin" => \E n \in Maxes : ed[p] = Fresh(n)
    /\ (\A p \in Procs : ~Inside(p)) => ref = Restart
    /\ (\A p \in Procs : ~Reading(p)) => Gone(pending) = 0
    /\ \A p \in Procs : Reading(p) => Agrees(ed[p], ref) /\ ed[p].esc = EscAfter(Gone(pending))

LineInv ==
    /\ TermInv /\ OneReader
    /\ shift \in BOOLEAN /\ caps \in BOOLEAN /\ lost \in BOOLEAN
    /\ ~lost => LineKept

(* A new line: nothing typed, nothing recalled. *)
LEMMA FreshAgrees ==
  ASSUME NEW n \in Nat, history \in Seq(Bytes)
  PROVE  Fresh(n) \in Editing /\ Agrees(Fresh(n), Restart) /\ Fresh(n).esc = "none"
<1>1. <<>> \in Bytes /\ Len(<<>>) = 0 /\ <<>> \o <<>> = <<>>
  BY ConcatEmptySeq, SMTT(30) DEF Bytes
<1>2. 0 \in Nat /\ 0 <= Len(history)
  BY LenProperties, SMTT(30)
<1>3. "none" \in EscStates
  BY Zenon DEF EscStates
<1>4. /\ Fresh(n).line = <<>> /\ Fresh(n).cursor = 0 /\ Fresh(n).pos = 0 /\ Fresh(n).esc = "none"
      /\ Restart.left = <<>> /\ Restart.right = <<>> /\ Restart.pos = 0
  BY Zenon DEF Fresh, Restart
<1>5. Fresh(n) \in Editing /\ Restart \in Lines
  BY <1>1, <1>2, <1>3, Zenon DEF Fresh, Restart, Editing, Lines
<1> QED BY <1>1, <1>2, <1>4, <1>5, Zenon DEF Agrees

(* remember: HISTORY holds lines. *)
LEMMA RememberOK ==
  ASSUME history \in Seq(Bytes), NEW line \in Bytes, remember(line)
  PROVE  history' \in Seq(Bytes)
<1>1. CASE history' = history
  BY <1>1, Zenon
<1>2. CASE /\ ~(Len(line) <= 1)
           /\ history' = Append(IF Len(history) = HistoryCap THEN Tail(history) ELSE history, DropLast(line))
  <2> DEFINE h == IF Len(history) = HistoryCap THEN Tail(history) ELSE history
  <2>1. line # <<>>
    BY <1>2, SMTT(30)
  <2>2. DropLast(line) \in Bytes
    BY <2>1, Ends, Zenon
  <2>3. Len(history) = HistoryCap => history # <<>>
    BY TerminalAssumption, SMTT(30)
  <2>4. history # <<>> => Tail(history) \in Seq(Bytes)
    BY HeadTailProperties, SMTT(30)
  <2>5. h \in Seq(Bytes)
    BY <2>3, <2>4, Zenon
  <2> HIDE DEF h
  <2>6. Append(h, DropLast(line)) \in Seq(Bytes)
    BY <2>2, <2>5, AppendProperties, SMTT(30)
  <2> QED BY <1>2, <2>6, Zenon DEF h
<1> QED BY <1>1, <1>2, Zenon DEF remember

(* The byte a reader pops is the oldest unread one. *)
LEMMA PoppedByte ==
  ASSUME TermInv, len > 0
  PROVE  unread \in Bytes /\ unread # <<>> /\ buf[tail] = Head(unread)
<1>1. BufferCap \in Nat /\ BufferCap > 0
  BY TerminalAssumption, SMTT(30)
<1>2. Ring.buf = buf /\ Ring.tail = tail /\ Ring.len = len
  BY Zenon DEF Ring
<1>3. /\ tail \in Index /\ len \in 0 .. BufferCap /\ unread \in Bytes /\ Len(unread) = len
      /\ \A i \in 1 .. len : unread[i] = buf[SlotOf(tail, i)]
  BY <1>2, SlotsOfHolds, Zenon DEF TermInv
<1>4. 1 \in 1 .. len /\ SlotOf(tail, 1) = tail
  BY <1>1, <1>3, SMTT(30) DEF SlotOf, Index
<1>5. unread # <<>>
  <2>1. Len(<<>>) = 0 /\ ~(0 > 0)
    BY SMTT(30)
  <2> QED BY <1>3, <2>1, Zenon
<1>6. Head(unread) = unread[1]
  BY <1>3, <1>5, HeadTailProperties, SMTT(30) DEF Bytes
<1> QED BY <1>3, <1>4, <1>5, <1>6, ZenonT(30)

(* What a scancode does to the pending keys. *)
LEMMA TypedKept ==
  ASSUME LineInv, NEW k, NEW bytes \in Bytes, Typed(k, bytes), ~lost', ~lost,
         Len(bytes) <= 4, bytes = <<>> \/ (bytes = BytesOf(Meant(k)) /\ Meant(k) \in KeyNames)
  PROVE  Keyed(pending, unread)' /\ Gone(pending)' = Gone(pending) /\ ref' = ref
<1>1. /\ unread' = Newest(unread \o bytes) /\ ref' = ref
      /\ lost' = (lost \/ len + Len(bytes) > BufferCap)
  BY Zenon DEF Typed, PushAll
<1>2. /\ bytes = <<>> => pending' = pending
      /\ bytes # <<>> => pending' = Append(pending, [key |-> Meant(k), n |-> Len(bytes)])
  BY Zenon DEF Typed
<1>3. Keyed(pending, unread)
  BY Zenon DEF LineInv, LineKept
<1>4. unread \in Bytes /\ Len(unread) = len
  <2>1. Holds(Ring, unread)
    BY Zenon DEF LineInv, TermInv
  <2>2. Ring.len = len
    BY Zenon DEF Ring
  <2> QED BY <2>1, <2>2, HeldBytes, Zenon
<1>5. unread' = unread \o bytes
  <2>1. Len(unread \o bytes) = len + Len(bytes)
    BY <1>4, ConcatProperties, Zenon DEF Bytes
  <2> QED BY <1>1, <2>1, Zenon DEF Newest
<1>6. CASE bytes = <<>>
  <2>1. unread \o <<>> = unread
    BY <1>4, ConcatEmptySeq, Zenon DEF Bytes
  <2>2. unread' = unread /\ pending' = pending
    BY <1>2, <1>5, <1>6, <2>1, Zenon
  <2> QED BY <1>1, <1>3, <2>2, Zenon
<1>7. CASE bytes # <<>>
  <2> DEFINE x == [key |-> Meant(k), n |-> Len(bytes)]
             K == [key : KeyNames, n : Nat]
  <2>1. bytes = BytesOf(Meant(k)) /\ Meant(k) \in KeyNames
    BY <1>7, Zenon
  <2>2. Keyed(Append(pending, x), unread \o bytes)
    BY <1>3, <2>1, KeyedAppend, Zenon
  <2>3. pending' = Append(pending, x)
    BY <1>2, <1>7, ZenonT(30)
  <2>4. x.key = Meant(k) /\ x.n = Len(bytes) /\ x \in K /\ Len(bytes) \in Nat
    BY <2>1, LenProperties, SMTT(30) DEF Bytes
  <2>5. pending \in Seq(K)
    BY <1>3, ZenonT(30) DEF Keyed
  <2> HIDE DEF x, K
  <2>6. /\ Append(pending, x) # <<>> /\ Len(pending) \in Nat
        /\ \A i \in 1 .. Len(pending) : Append(pending, x)[i] = pending[i]
        /\ Append(pending, x)[Len(pending) + 1] = x
    BY <2>4, <2>5, AppendProperties, LenProperties, SMTT(30)
  <2>7. Gone(Append(pending, x)) = Gone(pending)
    <3>1. CASE pending = <<>>
      <4>1. Len(<<>>) + 1 = 1 /\ Len(bytes) - Len(bytes) = 0
        BY <2>4, SMTT(30)
      <4>2. Append(pending, x)[1] = x
        BY <2>6, <3>1, <4>1, Zenon
      <4> QED BY <2>1, <2>4, <2>6, <3>1, <4>1, <4>2, ZenonT(30) DEF Gone
    <3>2. CASE pending # <<>>
      <4>1. 1 \in 1 .. Len(pending)
        BY <2>5, <2>6, <3>2, EmptySeq, SMTT(30)
      <4> QED BY <2>6, <3>2, <4>1, ZenonT(30) DEF Gone
    <3> QED BY <3>1, <3>2, Zenon
  <2> QED BY <1>1, <1>5, <2>2, <2>3, <2>7, Zenon
<1> QED BY <1>6, <1>7, Zenon

(* A scancode arrives, whatever the readers are doing. *)
LEMMA ScancodeLine == ASSUME LineInv, on_key_irq PROVE LineInv'
<1> DEFINE k == Head(wire).c
           brk == Head(wire).brk
           one == IF Ascii(k) = "NUL" THEN <<>> ELSE <<Ascii(k)>>
<1>1. /\ UNCHANGED <<reader, st, ed, history>>
      /\ shift' = (IF ~extended /\ k = "shift" THEN ~brk ELSE shift)
      /\ caps' = (IF ~extended /\ k = "caps" /\ ~brk THEN ~caps ELSE caps)
      /\ \/ UNCHANGED <<ring, aux>>
         \/ extended /\ ~brk /\ Typed(k, EscapeOf[k])
         \/ ~extended /\ k \notin {"E0", "shift", "caps"} /\ ~brk /\ Typed(k, one)
  BY Zenon DEF on_key_irq
<1>2. /\ TermInv /\ TermInv' /\ shift \in BOOLEAN /\ caps \in BOOLEAN /\ lost \in BOOLEAN /\ OneReader
  BY ScancodeOK, Zenon DEF LineInv
<1>3. extended => k \in Extended
  BY <1>2, ScancodeKey, Zenon
<1>4. ~extended /\ k # "E0" => k \in Keys \ Extended
  BY <1>2, ScancodeKey, Zenon
<1> HIDE DEF k, brk
<1>5. shift' \in BOOLEAN /\ caps' \in BOOLEAN
  BY <1>1, <1>2, Zenon
<1>6. OneReader'
  BY <1>1, <1>2, Zenon DEF OneReader, Inside
<1>7. /\ lost' \in BOOLEAN /\ (lost => lost')
      /\ ~lost /\ ~lost' => Keyed(pending, unread)' /\ Gone(pending)' = Gone(pending) /\ ref' = ref
  <2>1. CASE UNCHANGED <<ring, aux>>
    BY <1>2, <2>1, Zenon DEF aux, LineInv, LineKept, Keyed, Gone
  <2>2. CASE extended /\ Typed(k, EscapeOf[k])
    <3>1. lost' = (lost \/ len + Len(EscapeOf[k]) > BufferCap)
      BY <2>2, ZenonT(30) DEF Typed, PushAll
    <3>2. "a" \notin Extended /\ "b" \notin Extended
      BY SMTT(30) DEF Extended, EscapeOf
    <3>3. Meant(k) = k /\ EscapeOf[k] = BytesOf(k) /\ k \in KeyNames
      BY <1>3, <2>2, <3>2, Zenon DEF Meant, BytesOf, KeyNames
    <3>4. EscapeOf[k] \in Bytes /\ Len(EscapeOf[k]) <= 4
      BY <1>3, <2>2, EscapeBytes, Zenon
    <3>5. ASSUME ~lost, ~lost'
          PROVE  Keyed(pending, unread)' /\ Gone(pending)' = Gone(pending) /\ ref' = ref
      <4> DEFINE b == EscapeOf[k]
      <4>1. b \in Bytes /\ Len(b) <= 4 /\ b = BytesOf(Meant(k)) /\ Meant(k) \in KeyNames /\ Typed(k, b)
        BY <2>2, <3>3, <3>4, Zenon
      <4> HIDE DEF b
      <4> QED BY <3>5, <4>1, TypedKept, Zenon
    <3> QED BY <3>1, <3>5, Zenon
  <2>3. CASE ~extended /\ k \notin {"E0", "shift", "caps"} /\ Typed(k, one)
    <3>1. lost' = (lost \/ len + Len(one) > BufferCap)
      BY <2>3, Zenon DEF Typed, PushAll
    <3>2. k \in DOMAIN Unshifted
      BY <1>4, <2>3, KeysAssumption, Zenon
    <3>3. one \in Bytes /\ Len(one) <= 4
      BY <3>2, AsciiByte, Zenon
    <3>4. one = <<>> \/ (one = BytesOf(Meant(k)) /\ Meant(k) \in KeyNames)
      BY <1>2, <3>2, TypedBytes, Zenon
    <3> HIDE DEF one
    <3>5. ASSUME ~lost, ~lost'
          PROVE  Keyed(pending, unread)' /\ Gone(pending)' = Gone(pending) /\ ref' = ref
      BY <2>3, <3>3, <3>4, <3>5, TypedKept, ZenonT(30)
    <3> QED BY <3>1, <3>5, Zenon
  <2> QED BY <1>1, <2>1, <2>2, <2>3, ZenonT(30)
<1>8. ASSUME ~lost' PROVE LineKept'
  <2>1. LineKept
    BY <1>7, <1>8, Zenon DEF LineInv
  <2>2. /\ Keyed(pending, unread)' /\ Gone(pending)' = Gone(pending) /\ ref' = ref
    BY <1>7, <1>8, Zenon
  <2>3. history' = history /\ st' = st /\ ed' = ed
    BY <1>1, Zenon
  <2>4. /\ history' \in Seq(Bytes) /\ ed' \in [Procs -> Editing]
        /\ \A p \in Procs : st'[p] = "spin" => \E n \in Maxes : ed'[p] = Fresh(n)
        /\ (\A p \in Procs : ~Inside(p)') => ref' = Restart
        /\ (\A p \in Procs : ~Reading(p)') => Gone(pending)' = 0
    BY <2>1, <2>2, <2>3, Zenon DEF LineKept, Inside, Reading
  <2>5. ASSUME NEW p \in Procs, Reading(p)'
        PROVE  Agrees(ed[p], ref)' /\ ed'[p].esc = EscAfter(Gone(pending)')
    <3>1. Agrees(ed[p], ref) /\ ed[p].esc = EscAfter(Gone(pending))
      BY <2>1, <2>3, <2>5, Zenon DEF LineKept, Reading
    <3> QED BY <2>2, <2>3, <3>1, Zenon DEF Agrees
  <2> QED BY <2>2, <2>4, <2>5, Zenon DEF LineKept
<1> QED BY <1>2, <1>5, <1>6, <1>7, <1>8, Zenon DEF LineInv

(* Steps that leave keys, bytes and readers alone. *)
LEMMA FrameLine ==
  ASSUME LineInv, TermInv', UNCHANGED <<shift, caps, reader, st, ed, history, unread, pending, ref, lost>>
  PROVE  LineInv'
<1>1. OneReader'
  BY Zenon DEF LineInv, OneReader, Inside
<1>2. ASSUME ~lost PROVE LineKept'
  <2>1. LineKept
    BY <1>2, Zenon DEF LineInv
  <2> QED BY <2>1, Zenon DEF LineKept, Inside, Reading, Agrees, Keyed, Gone
<1> QED BY <1>1, <1>2, Zenon DEF LineInv

(* A process asks for a line. *)
LEMMA AskLine ==
  ASSUME LineInv, TermInv', NEW p \in Procs, NEW n \in Maxes, sys_read(p, n)
  PROVE  LineInv'
<1>1. /\ st[p] = "out" /\ st' = [st EXCEPT ![p] = "spin"] /\ ed' = [ed EXCEPT ![p] = Fresh(n)]
      /\ UNCHANGED <<shift, caps, reader, history, unread, pending, ref, lost>>
  BY Zenon DEF sys_read, kbd, aux
<1>2. OneReader /\ st \in [Procs -> {"out", "spin", "reading", "done"}]
  BY Zenon DEF LineInv, OneReader
<1>3. /\ st' \in [Procs -> {"out", "spin", "reading", "done"}] /\ st'[p] = "spin"
      /\ \A q \in Procs : q # p => st'[q] = st[q]
  BY <1>1, <1>2, Zenon
<1>4. \A q \in Procs : (Inside(q)' <=> Inside(q)) /\ (Reading(q)' <=> Reading(q)) /\ (Reading(q) => q # p)
  BY <1>1, <1>3, Zenon DEF Inside, Reading
<1>5. OneReader'
  BY <1>1, <1>2, <1>3, <1>4, Zenon DEF OneReader
<1>6. ASSUME ~lost PROVE LineKept'
  <2>1. /\ history \in Seq(Bytes) /\ ed \in [Procs -> Editing] /\ Keyed(pending, unread)
        /\ \A q \in Procs : st[q] = "spin" => \E i \in Maxes : ed[q] = Fresh(i)
        /\ (\A q \in Procs : ~Inside(q)) => ref = Restart
        /\ (\A q \in Procs : ~Reading(q)) => Gone(pending) = 0
        /\ \A q \in Procs : Reading(q) => Agrees(ed[q], ref) /\ ed[q].esc = EscAfter(Gone(pending))
    BY <1>6, Zenon DEF LineInv, LineKept
  <2>2. n \in Nat
    BY TerminalAssumption, Zenon
  <2>3. Fresh(n) \in Editing
    BY <2>1, <2>2, FreshAgrees, Zenon
  <2>4. /\ ed' \in [Procs -> Editing] /\ ed'[p] = Fresh(n)
        /\ \A q \in Procs : q # p => ed'[q] = ed[q]
    BY <1>1, <2>1, <2>3, Zenon
  <2>5. \A q \in Procs : st'[q] = "spin" => \E i \in Maxes : ed'[q] = Fresh(i)
    BY <1>3, <2>1, <2>4, Zenon
  <2>6. Keyed(pending, unread)' /\ Gone(pending)' = Gone(pending) /\ history' \in Seq(Bytes)
    BY <1>1, <2>1, Zenon
  <2>7. ASSUME NEW q \in Procs, Reading(q)'
        PROVE  Agrees(ed[q], ref)' /\ ed'[q].esc = EscAfter(Gone(pending)')
    <3>1. ed'[q] = ed[q] /\ Agrees(ed[q], ref) /\ ed[q].esc = EscAfter(Gone(pending))
      BY <1>4, <2>1, <2>4, <2>7, Zenon
    <3> QED BY <1>1, <2>6, <3>1, Zenon DEF Agrees
  <2>8. /\ (\A q \in Procs : ~Inside(q)') => ref' = Restart
        /\ (\A q \in Procs : ~Reading(q)') => Gone(pending)' = 0
    BY <1>1, <1>4, <2>1, <2>6, Zenon
  <2> QED BY <2>4, <2>5, <2>6, <2>7, <2>8, ZenonT(30) DEF LineKept
<1> QED BY <1>1, <1>5, <1>6, Zenon DEF LineInv

(* The compare-exchange on TERMINAL_READER succeeds. *)
LEMMA EnterLine ==
  ASSUME LineInv, TermInv', NEW p \in Procs, enter_read_line(p)
  PROVE  LineInv'
<1>1. /\ st[p] = "spin" /\ ~reader /\ reader' = TRUE /\ st' = [st EXCEPT ![p] = "reading"]
      /\ UNCHANGED <<shift, caps, ed, history, unread, pending, ref, lost>>
  BY Zenon DEF enter_read_line, acquire, kbd, aux
<1>2. OneReader /\ st \in [Procs -> {"out", "spin", "reading", "done"}]
  BY Zenon DEF LineInv, OneReader
<1>3. /\ st' \in [Procs -> {"out", "spin", "reading", "done"}] /\ st'[p] = "reading"
      /\ \A q \in Procs : q # p => st'[q] = st[q]
  BY <1>1, <1>2, Zenon
<1>4. \A q \in Procs : ~Inside(q) /\ ~Reading(q)
  BY <1>1, <1>2, Zenon DEF OneReader, Inside, Reading
<1>5. \A q \in Procs : (Inside(q)' <=> q = p) /\ (Reading(q)' <=> q = p)
  BY <1>3, <1>4, Zenon DEF Inside, Reading
<1>6. OneReader'
  BY <1>1, <1>3, <1>5, Zenon DEF OneReader
<1>7. ASSUME ~lost PROVE LineKept'
  <2>1. /\ history \in Seq(Bytes) /\ ed \in [Procs -> Editing] /\ Keyed(pending, unread)
        /\ \A q \in Procs : st[q] = "spin" => \E i \in Maxes : ed[q] = Fresh(i)
        /\ ref = Restart /\ Gone(pending) = 0
    BY <1>4, <1>7, Zenon DEF LineInv, LineKept
  <2>2. PICK n \in Maxes : ed[p] = Fresh(n)
    BY <1>1, <2>1, Zenon
  <2>3. n \in Nat
    BY TerminalAssumption, Zenon
  <2>4. Agrees(ed[p], ref) /\ ed[p].esc = EscAfter(Gone(pending))
    <3>1. EscAfter(0) = "none"
      BY Zenon DEF EscAfter
    <3>2. Agrees(Fresh(n), Restart) /\ Fresh(n).esc = "none"
      BY <2>1, <2>3, FreshAgrees, Zenon
    <3> QED BY <2>1, <2>2, <3>1, <3>2, ZenonT(30)
  <2>5. \A q \in Procs : st'[q] = "spin" => st[q] = "spin"
    BY <1>3, Zenon
  <2>6. Keyed(pending, unread)' /\ Gone(pending)' = Gone(pending) /\ history' \in Seq(Bytes)
        /\ ed' \in [Procs -> Editing]
    BY <1>1, <2>1, Zenon
  <2>7. Agrees(ed[p], ref)' /\ ed'[p].esc = EscAfter(Gone(pending)')
    BY <1>1, <2>4, <2>6, Zenon DEF Agrees
  <2>8. \A q \in Procs : st'[q] = "spin" => \E i \in Maxes : ed'[q] = Fresh(i)
    BY <1>1, <2>1, <2>5, Zenon
  <2> QED BY <1>5, <2>6, <2>7, <2>8, ZenonT(30) DEF LineKept
<1> QED BY <1>1, <1>6, <1>7, Zenon DEF LineInv

(* The line is handed over and TERMINAL_READER cleared. *)
LEMMA LeaveLine ==
  ASSUME LineInv, TermInv', NEW p \in Procs, leave_read_line(p)
  PROVE  LineInv'
<1>1. /\ st[p] = "done" /\ st' = [st EXCEPT ![p] = "out"] /\ ed' = [ed EXCEPT ![p] = Fresh(1)]
      /\ ref' = Restart /\ reader' = FALSE /\ UNCHANGED <<shift, caps, history, unread, pending, lost>>
  BY Zenon DEF leave_read_line, kbd
<1>2. OneReader /\ st \in [Procs -> {"out", "spin", "reading", "done"}]
  BY Zenon DEF LineInv, OneReader
<1>3. /\ st' \in [Procs -> {"out", "spin", "reading", "done"}] /\ st'[p] = "out"
      /\ \A q \in Procs : q # p => st'[q] = st[q]
  BY <1>1, <1>2, Zenon
<1>4. \A q \in Procs : Inside(q) => q = p
  BY <1>1, <1>2, Zenon DEF OneReader, Inside
<1>5. \A q \in Procs : ~Inside(q)' /\ ~Reading(q)' /\ ~Reading(q)
  BY <1>1, <1>3, <1>4, Zenon DEF Inside, Reading
<1>6. OneReader'
  BY <1>3, <1>5, Zenon DEF OneReader
<1>7. ASSUME ~lost PROVE LineKept'
  <2>1. /\ history \in Seq(Bytes) /\ ed \in [Procs -> Editing] /\ Keyed(pending, unread)
        /\ \A q \in Procs : st[q] = "spin" => \E i \in Maxes : ed[q] = Fresh(i)
        /\ Gone(pending) = 0
    BY <1>5, <1>7, Zenon DEF LineInv, LineKept
  <2>2. Fresh(1) \in Editing
    <3>1. 1 \in Nat
      BY SMTT(30)
    <3> QED BY <2>1, <3>1, FreshAgrees, Zenon
  <2>3. ed' \in [Procs -> Editing] /\ \A q \in Procs : q # p => ed'[q] = ed[q]
    BY <1>1, <2>1, <2>2, Zenon
  <2>4. \A q \in Procs : st'[q] = "spin" => \E i \in Maxes : ed'[q] = Fresh(i)
    BY <1>3, <2>1, <2>3, Zenon
  <2>5. Keyed(pending, unread)' /\ Gone(pending)' = 0 /\ history' \in Seq(Bytes)
    BY <1>1, <2>1, Zenon
  <2> QED BY <1>1, <1>5, <2>3, <2>4, <2>5, ZenonT(30) DEF LineKept
<1> QED BY <1>1, <1>6, <1>7, Zenon DEF LineInv

(* The reader consumes a byte: in the middle of a key its escape state advances,
   with the last byte of a key the key takes effect on both lines, and with a
   newline the line ends. *)
LEMMA ByteLine ==
  ASSUME LineInv, TermInv', NEW p \in Procs, next_byte(p)
  PROVE  LineInv'
<1> DEFINE byte == buf[tail]
           e == ed[p]
           line == IF Len(e.line) < e.max THEN Append(e.line, "NL") ELSE e.line
           ends == byte = "NL" /\ e.esc = "none"
<1>1. /\ st[p] = "reading" /\ len > 0 /\ unread' = Tail(unread) /\ Consumed(e.max)
      /\ UNCHANGED <<shift, caps, reader, lost>>
      /\ ends => /\ ed' = [ed EXCEPT ![p].line = line] /\ st' = [st EXCEPT ![p] = "done"]
                 /\ remember(line)
      /\ ~ends => ed' = [ed EXCEPT ![p] = Step(e, byte).e] /\ UNCHANGED <<st, history>>
  BY Zenon DEF next_byte, pop, kbd
<1>2. OneReader /\ st \in [Procs -> {"out", "spin", "reading", "done"}] /\ TermInv
  BY Zenon DEF LineInv, OneReader
<1>3. unread # <<>> /\ byte = Head(unread)
  BY <1>1, <1>2, PoppedByte, Zenon
<1> HIDE DEF byte, ends
<1>4. \A q \in Procs : Inside(q) => q = p
  BY <1>1, <1>2, Zenon DEF OneReader, Inside
<1>5. /\ st' \in [Procs -> {"out", "spin", "reading", "done"}]
      /\ \A q \in Procs : q # p => st'[q] = st[q]
      /\ st'[p] = IF ends THEN "done" ELSE "reading"
  <2>1. CASE ends
    BY <1>1, <1>2, <2>1, Zenon
  <2>2. CASE ~ends
    BY <1>1, <1>2, <2>2, Zenon
  <2> QED BY <2>1, <2>2, Zenon
<1>6. \A q \in Procs : (Inside(q)' <=> q = p) /\ (Reading(q)' <=> q = p /\ ~ends)
  BY <1>4, <1>5, Zenon DEF Inside, Reading
<1>7. OneReader'
  <2>1. reader'
    BY <1>1, <1>2, Zenon DEF OneReader, Inside
  <2> QED BY <1>5, <1>6, <2>1, Zenon DEF OneReader
<1>8. ASSUME ~lost PROVE LineKept'
  <2>1. /\ history \in Seq(Bytes) /\ ed \in [Procs -> Editing] /\ Keyed(pending, unread)
        /\ \A q \in Procs : st[q] = "spin" => \E i \in Maxes : ed[q] = Fresh(i)
        /\ Agrees(e, ref) /\ e.esc = EscAfter(Gone(pending)) /\ e \in Editing
    <3>1. LineKept
      BY <1>8, Zenon DEF LineInv
    <3>2. Reading(p)
      BY <1>1, Zenon DEF Reading
    <3> QED BY <3>1, <3>2, Zenon DEF LineKept
  <2> DEFINE key == pending[1].key
             n == pending[1].n
             b == BytesOf(key)
             m == Gone(pending)
  <2>2. /\ Head(pending) = pending[1] /\ key \in KeyNames /\ n \in Nat /\ 1 <= n /\ n <= Len(b)
        /\ byte = b[m + 1] /\ m = Len(b) - n
    BY <1>3, <2>1, KeyedHead, Zenon
  <2>3. /\ n > 1 => pending' = [pending EXCEPT ![1].n = @ - 1] /\ ref' = ref
        /\ ~(n > 1) => pending' = Tail(pending) /\ ref' = Type(ref, key, e.max)
    BY <1>1, <1>8, <2>2, Zenon DEF Consumed
  <2>4. Len(b) \in Nat
    BY <2>2, BytesOfOK, LenProperties, ZenonT(30) DEF Bytes
  <2> HIDE DEF e, key, n, b, m
  <2>5. /\ m \in 0 .. Len(b) - 1 /\ m \in Nat /\ (n > 1 <=> m + 1 < Len(b)) /\ (~(n > 1) => n = 1)
    BY <2>2, <2>4, SMTT(30)
  <2>6. /\ Keyed(pending, unread)'
        /\ Gone(pending)' = IF n > 1 THEN m + 1 ELSE 0
    <3>1. CASE n > 1
      <4>1. /\ Keyed([pending EXCEPT ![1].n = @ - 1], Tail(unread))
            /\ Gone([pending EXCEPT ![1].n = @ - 1]) = Gone(pending) + 1
        BY <1>3, <2>1, <3>1, KeyedPart, Zenon DEF n
      <4> QED BY <1>1, <2>3, <3>1, <4>1, ZenonT(30) DEF m
    <3>2. CASE ~(n > 1)
      <4>1. Keyed(Tail(pending), Tail(unread)) /\ Gone(Tail(pending)) = 0
        BY <1>3, <2>1, <2>5, <3>2, KeyedTake, ZenonT(30) DEF n
      <4> QED BY <1>1, <2>3, <3>2, <4>1, ZenonT(30)
    <3> QED BY <3>1, <3>2, Zenon
  <2>7. CASE ends
    <3>1. m = 0 /\ m + 1 = 1
      <4>1. m = 0
        BY <2>1, <2>7, Zenon DEF ends, EscAfter, m, e
      <4> QED BY <4>1, SMTT(30)
    <3>2. Len(b) = 1
      <4>1. b[1] = "NL"
        BY <2>2, <2>7, <3>1, Zenon DEF ends
      <4> QED BY <2>2, <4>1, NewlineIsEnter, Zenon DEF b
    <3>3. Gone(pending)' = 0
      <4>1. ~(1 < 1)
        BY SMTT(30)
      <4> QED BY <2>5, <2>6, <3>1, <3>2, <4>1, ZenonT(30)
    <3>4. line \in Bytes
      <4>1. e.line \in Seq(Byte) /\ "NL" \in Byte
        BY <2>1, Zenon DEF Editing, Bytes, Byte
      <4>2. Append(e.line, "NL") \in Seq(Byte)
        BY <4>1, AppendProperties, Zenon
      <4> QED BY <4>1, <4>2, Zenon DEF Bytes
    <3> HIDE DEF line
    <3>5. history' \in Seq(Bytes)
      BY <1>1, <2>1, <2>7, <3>4, RememberOK, ZenonT(30)
    <3>6. ed' \in [Procs -> Editing] /\ \A q \in Procs : q # p => ed'[q] = ed[q]
      <4>1. [e EXCEPT !.line = line] \in Editing
        BY <2>1, <3>4, Zenon DEF Editing
      <4>2. ed' = [ed EXCEPT ![p] = [e EXCEPT !.line = line]]
        BY <1>1, <2>7, Zenon DEF e
      <4> QED BY <2>1, <4>1, <4>2, Zenon
    <3>7. \A q \in Procs : st'[q] = "spin" => \E i \in Maxes : ed'[q] = Fresh(i)
      BY <1>5, <2>1, <2>7, <3>6, ZenonT(30)
    <3> QED BY <1>6, <2>6, <2>7, <3>3, <3>5, <3>6, <3>7, ZenonT(30) DEF LineKept
  <2>8. CASE ~ends
    <3> DEFINE f == Step(e, byte).e
    <3>1. key # "enter"
      <4> SUFFICES ASSUME key = "enter" PROVE FALSE
        BY Zenon
      <4>1. b[1] = "NL" /\ Len(b) = 1
        BY <2>2, NewlineIsEnter, Zenon DEF b
      <4>2. m = 0 /\ m + 1 = 1
        BY <2>5, <4>1, SMTT(30)
      <4>3. EscAfter(0) = "none"
        BY Zenon DEF EscAfter
      <4>4. byte = "NL" /\ e.esc = "none"
        BY <2>1, <2>2, <4>1, <4>2, <4>3, ZenonT(30) DEF m
      <4> QED BY <2>8, <4>4, Zenon DEF ends, e
    <3>2. /\ m + 1 < Len(b) => Agrees(f, ref) /\ f.esc = EscAfter(m + 1)
          /\ ~(m + 1 < Len(b)) => Agrees(f, Type(ref, key, e.max)) /\ f.esc = "none"
      <4>1. e.esc = EscAfter(m)
        BY <2>1, Zenon DEF m
      <4> DEFINE g == Step(e, BytesOf(key)[m + 1]).e
      <4>2. /\ m + 1 < Len(BytesOf(key)) => Agrees(g, ref) /\ g.esc = EscAfter(m + 1)
            /\ ~(m + 1 < Len(BytesOf(key))) => Agrees(g, Type(ref, key, e.max)) /\ g.esc = "none"
        BY <2>1, <2>2, <2>5, <3>1, <4>1, StepAgrees, ZenonT(30) DEF b
      <4>3. f = g
        BY <2>2, Zenon DEF b
      <4> HIDE DEF f, g
      <4> QED BY <4>2, <4>3, Zenon DEF b
    <3> HIDE DEF f
    <3>3. Agrees(f, ref') /\ f.esc = EscAfter(Gone(pending)')
      <4>1. EscAfter(0) = "none"
        BY Zenon DEF EscAfter
      <4>2. CASE n > 1
        BY <2>3, <2>5, <2>6, <3>2, <4>2, ZenonT(30)
      <4>3. CASE ~(n > 1)
        BY <2>3, <2>5, <2>6, <3>2, <4>1, <4>3, ZenonT(30)
      <4> QED BY <4>2, <4>3, Zenon
    <3>4. f \in Editing /\ history' = history
      BY <1>1, <2>8, <3>3, Zenon DEF Agrees
    <3>5. /\ ed' \in [Procs -> Editing] /\ ed'[p] = f
          /\ \A q \in Procs : q # p => ed'[q] = ed[q]
      <4>1. ed' = [ed EXCEPT ![p] = f]
        BY <1>1, <2>8, Zenon DEF f, e
      <4> QED BY <2>1, <3>4, <4>1, Zenon
    <3>6. Agrees(ed[p], ref)' /\ ed'[p].esc = EscAfter(Gone(pending)')
      BY <3>3, <3>4, <3>5, Zenon DEF Agrees
    <3>7. \A q \in Procs : st'[q] = "spin" => \E i \in Maxes : ed'[q] = Fresh(i)
      BY <1>5, <2>1, <2>8, <3>5, ZenonT(30)
    <3> QED BY <1>6, <2>1, <2>6, <2>8, <3>4, <3>5, <3>6, <3>7, ZenonT(30) DEF LineKept
  <2> QED BY <2>7, <2>8, Zenon
<1> QED BY <1>1, <1>7, <1>8, Zenon DEF LineInv

(* Nothing typed, nobody reading. *)
LEMMA LineInit == Init => LineInv
<1> SUFFICES ASSUME Init PROVE LineInv
  BY Zenon
<1>1. /\ shift = FALSE /\ caps = FALSE /\ lost = FALSE /\ history = <<>> /\ ref = Restart
      /\ st = [p \in Procs |-> "out"] /\ ed = [p \in Procs |-> Fresh(1)]
      /\ unread = <<>> /\ pending = <<>>
  BY Zenon DEF Init
<1>2. TermInv
  BY TermInit, Zenon
<1>3. \A p \in Procs : st[p] = "out" /\ ~Inside(p) /\ ~Reading(p)
  BY <1>1, Zenon DEF Inside, Reading
<1>4. OneReader
  BY <1>1, <1>3, Zenon DEF OneReader
<1>5. history \in Seq(Bytes)
  BY <1>1, SMTT(30)
<1>6. Fresh(1) \in Editing
  <2>1. 1 \in Nat
    BY SMTT(30)
  <2> QED BY <1>5, <2>1, FreshAgrees, Zenon
<1>7. Keyed(pending, unread)
  <2> DEFINE K == [key : KeyNames, n : Nat]
             c == [i \in 0 .. 0 |-> 0]
  <2>1. /\ <<>> \in Seq(Byte) /\ <<>> \in Seq(K) /\ Len(<<>>) = 0
        /\ \A i \in 1 .. 0 : FALSE
        /\ \A i \in 2 .. 0 : FALSE
    BY SMTT(30)
  <2>2. c \in [0 .. 0 -> Nat] /\ c[0] = 0
    BY SMTT(30)
  <2> HIDE DEF c
  <2>3. Cut(c, <<>>, <<>>)
    BY <2>1, <2>2, Zenon DEF Cut
  <2>4. Keyed(<<>>, <<>>)
    BY <2>1, <2>2, <2>3, Zenon DEF Keyed, Bytes
  <2> QED BY <1>1, <2>4, Zenon
<1>8. Gone(pending) = 0 /\ ed \in [Procs -> Editing]
  BY <1>1, <1>6, Zenon DEF Gone
<1>9. LineKept
  BY <1>1, <1>3, <1>5, <1>7, <1>8, Zenon DEF LineKept
<1> QED BY <1>1, <1>2, <1>4, <1>9, ZenonT(30) DEF LineInv

(* Every step keeps it. *)
LEMMA LineStep == LineInv /\ [Next]_vars => LineInv'
<1> SUFFICES ASSUME LineInv, [Next]_vars PROVE LineInv'
  BY Zenon
<1>1. TermInv /\ TermInv'
  BY TermStep, Zenon DEF LineInv
<1>2. ASSUME NEW k \in Keys, NEW brk \in BOOLEAN, press(k, brk) PROVE LineInv'
  <2>1. UNCHANGED <<shift, caps, reader, st, ed, history, unread, pending, ref, lost>>
    BY <1>2, Zenon DEF press, kbd, aux
  <2> QED BY <1>1, <2>1, FrameLine, Zenon
<1>3. CASE UNCHANGED vars
  <2>1. UNCHANGED <<shift, caps, reader, st, ed, history, unread, pending, ref, lost>>
    BY <1>3, Zenon DEF vars
  <2> QED BY <1>1, <2>1, FrameLine, Zenon
<1> QED BY <1>1, <1>2, <1>3, ScancodeLine, AskLine, EnterLine, ByteLine, LeaveLine, ZenonT(30) DEF Next

(* read_line, decode_escape and the interrupt handler, for every number of
   readers, buffer size and capacity: until the ring drops a byte, the line and
   cursor of the process in read_line are what the keys pressed make of them,
   however interrupts and readers interleave. *)
THEOREM LinesAsTyped == Spec => []LineAsTyped
<1>1. LineInv => LineAsTyped
  <2> SUFFICES ASSUME LineInv, ~lost, Settled, NEW p \in Procs, Reading(p)
               PROVE  /\ ed[p].esc = "none" /\ ed[p].line = ref.left \o ref.right
                      /\ ed[p].cursor = Len(ref.left)
    BY Zenon DEF LineAsTyped
  <2>1. Agrees(ed[p], ref) /\ ed[p].esc = EscAfter(Gone(pending)) /\ Keyed(pending, unread)
    BY Zenon DEF LineInv, LineKept
  <2>2. Gone(pending) = 0
    <3>1. CASE pending = <<>>
      BY <3>1, Zenon DEF Gone
    <3>2. CASE pending # <<>>
      <4> DEFINE x == pending[1]
                 K == [key : KeyNames, n : Nat]
      <4>1. pending \in Seq(K)
        BY <2>1, Zenon DEF Keyed
      <4> HIDE DEF K
      <4>2. 1 \in 1 .. Len(pending) /\ Head(pending) = x
        BY <3>2, <4>1, EmptySeq, LenProperties, HeadTailProperties, SMTT(30)
      <4>3. x \in K
        BY <4>1, <4>2, ElementOfSeq, Zenon
      <4>4. x.key \in KeyNames /\ x.n \in Nat
        BY <4>3, Zenon DEF K
      <4>5. x.n = IF x.key \in Extended THEN Len(EscapeOf[x.key]) ELSE 1
        BY <3>2, <4>2, Zenon DEF Settled
      <4>6. x.n = Len(BytesOf(x.key))
        <5>1. \A b : Len(<<b>>) = 1
          BY SMTT(30)
        <5> QED BY <4>5, <5>1, Zenon DEF BytesOf
      <4>7. \A n \in Nat : n - n = 0
        BY SMTT(30)
      <4> QED BY <3>2, <4>4, <4>6, <4>7, Zenon DEF Gone
    <3> QED BY <3>1, <3>2, Zenon
  <2> QED BY <2>1, <2>2, Zenon DEF Agrees, EscAfter
<1> QED BY <1>1, LineInit, LineStep, PTL DEF Spec
=============================================================================
