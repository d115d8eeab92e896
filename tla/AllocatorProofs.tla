--------------------------- MODULE AllocatorProofs ---------------------------
(***************************************************************************)
(* The two allocators that search, for every size.  Heap: no byte is given *)
(* out twice, and the list of free blocks stays in order and merged.       *)
(* alloc_contiguous: the search is first fit, and fill_range exact.        *)
(***************************************************************************)
EXTENDS Heap, PmmScan, TLAPS, WellFoundedInduction, SequenceTheorems

FreeBlock == {b \in [addr : Nat, size : Nat] : b.size >= MinBlock}

(* Each block ends before the next one begins, and does not touch it. *)
Ordered(blocks) ==
  \A i, j \in DOMAIN blocks : i < j => End(blocks[i]) < blocks[j].addr
Sound(blocks) == blocks \in Seq(FreeBlock) /\ Ordered(blocks)

(* No free block has a byte of [from, to); all of them are within it. *)
Outside(blocks, from, to) ==
  \A i \in DOMAIN blocks : End(blocks[i]) <= from \/ to <= blocks[i].addr
Inside(blocks, from, to) ==
  \A i \in DOMAIN blocks : from <= blocks[i].addr /\ End(blocks[i]) <= to

LiveEnd(b) == b.addr + adjust(b.layout[1])

LiveOK ==
  /\ live \subseteq [addr : Nat, layout : Layouts]
  /\ \A b \in live : /\ b.addr % b.layout[2] = 0
                     /\ HeapStart <= b.addr /\ LiveEnd(b) <= mapped_end
                     /\ Outside(list, b.addr, LiveEnd(b))
  /\ \A b, c \in live : b # c => LiveEnd(b) <= c.addr \/ LiveEnd(c) <= b.addr

(* The inductive invariant. *)
HeapInv ==
  /\ mapped_end \in Nat /\ (mapped_end = 0 \/ mapped_end >= HeapStart)
  /\ Sound(list) /\ Inside(list, HeapStart, mapped_end)
  /\ LiveOK

-----------------------------------------------------------------------------
(* align_up rounds up, to a multiple of the alignment. *)
LEMMA AlignUp ==
  ASSUME NEW a \in Nat, NEW align \in Nat \ {0}
  PROVE  /\ align_up(a, align) \in Nat /\ a <= align_up(a, align)
         /\ align_up(a, align) % align = 0
<1> DEFINE x == a + align - 1
           q == x \div align
<1>1. x \in Nat /\ align \in Int /\ align > 0
  BY SMTT(30)
<1>2. q \in Int /\ x % align \in 0..(align - 1) /\ x = align * q + (x % align)
  BY <1>1, SMTT(30)
<1>3. q >= 0
  BY <1>1, <1>2, SMTT(30)
<1>4. q * align \in Nat /\ a <= q * align
  BY <1>1, <1>2, <1>3, SMTT(30)
<1>5. (q * align) % align = 0
  BY <1>1, <1>2, SMTT(30)
<1> QED BY <1>4, <1>5, Zenon DEF align_up

(* A whole number of pages that is not none is at least one. *)
LEMMA WholePages ==
  ASSUME NEW m \in Nat \ {0}, m % PageSize = 0
  PROVE  m >= PageSize
BY HeapAssumption, SMTT(30)

(* What a caller gets is never smaller than the header of a free block. *)
LEMMA Adjusted ==
  ASSUME NEW layout \in Layouts
  PROVE  /\ layout[1] \in Nat /\ layout[2] \in Nat \ {0}
         /\ adjust(layout[1]) \in Nat \ {0} /\ adjust(layout[1]) >= MinBlock
BY HeapAssumption, SMTT(30) DEF adjust

-----------------------------------------------------------------------------
(* What is known of the free blocks. *)
LEMMA SoundFacts ==
  ASSUME NEW blocks, Sound(blocks)
  PROVE  /\ blocks \in Seq(FreeBlock) /\ Len(blocks) \in Nat /\ DOMAIN blocks = 1..Len(blocks)
         /\ \A i \in 1..Len(blocks) : /\ blocks[i] \in FreeBlock
                                      /\ blocks[i].addr \in Nat /\ blocks[i].size \in Nat
                                      /\ blocks[i].size >= MinBlock
                                      /\ End(blocks[i]) = blocks[i].addr + blocks[i].size
                                      /\ End(blocks[i]) \in Nat
         /\ \A i, j \in 1..Len(blocks) : i < j => End(blocks[i]) < blocks[j].addr
<1>1. blocks \in Seq(FreeBlock) /\ Ordered(blocks)
  BY Zenon DEF Sound
<1>2. Len(blocks) \in Nat /\ DOMAIN blocks = 1..Len(blocks)
  BY <1>1, LenProperties, Zenon
<1>3. \A i \in 1..Len(blocks) : blocks[i] \in FreeBlock
  BY <1>1, ElementOfSeq, Zenon
<1>4. \A b \in FreeBlock : /\ b.addr \in Nat /\ b.size \in Nat /\ b.size >= MinBlock
                           /\ End(b) = b.addr + b.size /\ End(b) \in Nat
  BY SMTT(30) DEF FreeBlock, End
<1>5. \A i, j \in 1..Len(blocks) : i < j => End(blocks[i]) < blocks[j].addr
  BY <1>1, <1>2, Zenon DEF Ordered
<1> QED BY <1>1, <1>2, <1>3, <1>4, <1>5, Zenon

(* The first k blocks, and those from the m-th on. *)
LEMMA PartElements ==
  ASSUME NEW blocks \in Seq(FreeBlock), NEW k \in 0..Len(blocks), NEW m \in 1..(Len(blocks) + 1)
  PROVE  /\ SubSeq(blocks, 1, k) \in Seq(FreeBlock) /\ Len(SubSeq(blocks, 1, k)) = k
         /\ \A i \in 1..k : SubSeq(blocks, 1, k)[i] = blocks[i]
         /\ SubSeq(blocks, m, Len(blocks)) \in Seq(FreeBlock)
         /\ Len(SubSeq(blocks, m, Len(blocks))) = Len(blocks) + 1 - m
         /\ \A i \in 1..(Len(blocks) + 1 - m) : SubSeq(blocks, m, Len(blocks))[i] = blocks[m + i - 1]
<1> DEFINE n == Len(blocks)
           A == SubSeq(blocks, 1, k)
           C == SubSeq(blocks, m, n)
<1>1. n \in Nat /\ \A i \in 1..n : blocks[i] \in FreeBlock
  BY LenProperties, ElementOfSeq, Zenon
<1> HIDE DEF n
<1>2. k \in Int /\ m \in Int /\ n \in Int /\ 1 \in Int /\ k <= n /\ 1 <= m /\ 0 <= k /\ m <= n + 1
  BY <1>1, SMTT(30) DEF n
<1>3. /\ A \in Seq(FreeBlock) /\ Len(A) = IF 1 <= k THEN k - 1 + 1 ELSE 0
      /\ \A i \in 1..(k - 1 + 1) : A[i] = blocks[1 + i - 1]
  <2>1. \A i \in 1..k : blocks[i] \in FreeBlock
    BY <1>1, <1>2, SMTT(30)
  <2> QED BY <1>2, <2>1, SubSeqProperties, SMTT(30)
<1>4. /\ C \in Seq(FreeBlock) /\ Len(C) = IF m <= n THEN n - m + 1 ELSE 0
      /\ \A i \in 1..(n - m + 1) : C[i] = blocks[m + i - 1]
  <2>1. \A i \in m..n : blocks[i] \in FreeBlock
    BY <1>1, <1>2, SMTT(30)
  <2> QED BY <1>2, <2>1, SubSeqProperties, SMTT(30)
<1> HIDE DEF A, C
<1>5. Len(A) = k /\ Len(C) = n + 1 - m
  BY <1>2, <1>3, <1>4, SMTT(30)
<1>6. \A i \in 1..k : A[i] = blocks[i]
  <2> SUFFICES ASSUME NEW i \in 1..k PROVE A[i] = blocks[i]
    BY Zenon
  <2>1. i \in 1..(k - 1 + 1) /\ 1 + i - 1 = i
    BY <1>2, SMTT(30)
  <2> QED BY <1>3, <2>1, Zenon
<1>7. \A i \in 1..(n + 1 - m) : C[i] = blocks[m + i - 1]
  BY <1>2, <1>4, SMTT(30)
<1> QED BY <1>3, <1>4, <1>5, <1>6, <1>7, Zenon DEF A, C, n

(* The search of insert stops somewhere. *)
LEMMA LowerExists ==
  ASSUME NEW blocks \in Seq(FreeBlock), NEW addr \in Nat
  PROVE  LET n == Lower(blocks, addr)
         IN  /\ n \in 0..Len(blocks)
             /\ \A i \in 1..n : blocks[i].addr < addr
             /\ n < Len(blocks) => blocks[n + 1].addr >= addr
<1> DEFINE S == {k \in Nat : k <= Len(blocks) /\ (k < Len(blocks) => blocks[k + 1].addr >= addr)}
<1>1. Len(blocks) \in Nat /\ \A i \in 1..Len(blocks) : blocks[i].addr \in Nat
  BY SMTT(30) DEF FreeBlock
<1>2. S # {} /\ S \subseteq Nat
  BY <1>1, SMTT(30)
<1>3. PICK n \in S : \A k \in S : ~(<<k, n>> \in OpToRel(<, Nat))
  BY <1>2, NatLessThanWellFounded, WFMin, Zenon
<1>4. \A k \in Nat : k < n => k \notin S
  BY <1>2, <1>3, Zenon DEF OpToRel
<1>5. \A i \in 1..n : blocks[i].addr < addr
  <2> SUFFICES ASSUME NEW i \in 1..n PROVE blocks[i].addr < addr
    BY Zenon
  <2>1. i - 1 \in Nat /\ i - 1 < n /\ i - 1 < Len(blocks) /\ (i - 1) + 1 = i
    BY <1>1, SMTT(30)
  <2>2. i - 1 \notin S
    BY <2>1, <1>4, Zenon
  <2> QED BY <2>1, <2>2, <1>1, SMTT(30)
<1>6. \E k \in 0..Len(blocks) : /\ \A i \in 1..k : blocks[i].addr < addr
                                /\ k < Len(blocks) => blocks[k + 1].addr >= addr
  BY <1>1, <1>5, SMTT(30)
<1> QED BY <1>6, Zenon DEF Lower

-----------------------------------------------------------------------------
(* The blocks up to the k-th, then x, then those from the m-th on. *)
Splice(blocks, k, m, x) ==
  SubSeq(blocks, 1, k) \o <<x>> \o SubSeq(blocks, m, Len(blocks))

(* The elements of such a list. *)
Spliced(blocks, k, m, x, new) ==
  /\ new \in Seq(FreeBlock) /\ Len(new) = k + 2 + Len(blocks) - m
  /\ \A i \in 1..k : new[i] = blocks[i]
  /\ new[k + 1] = x
  /\ \A i \in (k + 2)..Len(new) : new[i] = blocks[i + m - k - 2]

(* SubSeq and \o give a spliced list exactly those elements. *)
LEMMA SpliceElements ==
  ASSUME NEW blocks \in Seq(FreeBlock), NEW x \in FreeBlock,
         NEW k \in 0..Len(blocks), NEW m \in (k + 1)..(Len(blocks) + 1)
  PROVE  Spliced(blocks, k, m, x, Splice(blocks, k, m, x))
<1> DEFINE A == SubSeq(blocks, 1, k)
           C == SubSeq(blocks, m, Len(blocks))
           B == A \o <<x>>
           D == B \o C
           n == Len(blocks)
<1>1. n \in Nat /\ k \in Int /\ m \in Int /\ 0 <= k /\ k < m /\ m <= n + 1
  BY LenProperties, SMTT(30)
<1>2. /\ A \in Seq(FreeBlock) /\ Len(A) = k /\ \A i \in 1..k : A[i] = blocks[i]
      /\ C \in Seq(FreeBlock) /\ Len(C) = n + 1 - m
      /\ \A i \in 1..(n + 1 - m) : C[i] = blocks[m + i - 1]
  <2>1. k \in 0..Len(blocks) /\ m \in 1..(Len(blocks) + 1)
    BY <1>1, SMTT(30)
  <2> QED BY <2>1, PartElements, ZenonT(30)
<1> HIDE DEF A, C
<1>3. <<x>> \in Seq(FreeBlock) /\ Len(<<x>>) = 1 /\ <<x>>[1] = x
  BY SMTT(30)
<1>4. /\ B \in Seq(FreeBlock) /\ Len(B) = Len(A) + 1
      /\ \A i \in 1..(Len(A) + 1) : B[i] = IF i <= Len(A) THEN A[i] ELSE <<x>>[i - Len(A)]
  BY <1>2, <1>3, ConcatProperties, SMTT(30)
<1> HIDE DEF B
<1>5. Len(B) = k + 1 /\ B[k + 1] = x /\ \A i \in 1..k : B[i] = blocks[i]
  <2>1. Len(B) = k + 1 /\ \A i \in 1..k : B[i] = blocks[i]
    BY <1>1, <1>2, <1>4, SMTT(30)
  <2>2. B[k + 1] = <<x>>[(k + 1) - k]
    BY <1>1, <1>2, <1>4, SMTT(30)
  <2>3. (k + 1) - k = 1
    BY <1>1, SMTT(30)
  <2> QED BY <1>3, <2>1, <2>2, <2>3, Zenon
<1>6. /\ D \in Seq(FreeBlock) /\ Len(D) = Len(B) + Len(C)
      /\ \A i \in 1..(Len(B) + Len(C)) : D[i] = IF i <= Len(B) THEN B[i] ELSE C[i - Len(B)]
  BY <1>2, <1>4, ConcatProperties, ZenonT(30)
<1> HIDE DEF D
<1>7. Len(D) = k + 2 + n - m /\ \A i \in 1..(k + 1) : D[i] = B[i]
  <2> HIDE DEF n
  <2>1. Len(B) = k + 1 /\ Len(C) = n + 1 - m
    BY <1>2, <1>5, Zenon
  <2>2. Len(D) = k + 2 + n - m
    BY <1>1, <1>6, <2>1, SMTT(30)
  <2>3. \A i \in 1..(k + 1) : i \in 1..(Len(B) + Len(C)) /\ i <= Len(B)
    BY <1>1, <2>1, SMTT(30)
  <2>4. \A i \in 1..(k + 1) : D[i] = B[i]
    BY <1>6, <2>3, Zenon
  <2> QED BY <2>2, <2>4, Zenon
<1>8. \A i \in (k + 2)..Len(D) : D[i] = blocks[i + m - k - 2]
  <2> SUFFICES ASSUME NEW i \in (k + 2)..Len(D) PROVE D[i] = blocks[i + m - k - 2]
    BY Zenon
  <2>1. D[i] = C[i - (k + 1)]
    BY <1>1, <1>2, <1>5, <1>6, <1>7, SMTT(30)
  <2>2. i - (k + 1) \in 1..(n + 1 - m) /\ m + (i - (k + 1)) - 1 = i + m - k - 2
    BY <1>1, <1>7, SMTT(30)
  <2>3. C[i - (k + 1)] = blocks[m + (i - (k + 1)) - 1]
    BY <1>2, <2>2, Zenon
  <2> QED BY <2>1, <2>2, <2>3, Zenon
<1>9. (\A i \in 1..k : D[i] = blocks[i]) /\ D[k + 1] = x
  BY <1>1, <1>5, <1>7, SMTT(30)
<1>10. Splice(blocks, k, m, x) = D
  BY Zenon DEF Splice, A, B, C, D
<1> QED BY <1>6, <1>7, <1>8, <1>9, <1>10, ZenonT(30) DEF Spliced

(* A block put between those that end before it and those that begin after it
   leaves the list in order, and takes no byte that is not its own. *)
LEMMA SpliceOK ==
  ASSUME NEW blocks, Sound(blocks), NEW x \in FreeBlock,
         NEW k \in 0..Len(blocks), NEW m \in (k + 1)..(Len(blocks) + 1),
         \A i \in 1..k : End(blocks[i]) < x.addr,
         \A i \in m..Len(blocks) : End(x) < blocks[i].addr
  PROVE  LET new == Splice(blocks, k, m, x)
         IN  /\ Sound(new)
             /\ \A from, to \in Nat :
                  /\ Outside(blocks, from, to) /\ (End(x) <= from \/ to <= x.addr)
                       => Outside(new, from, to)
                  /\ Inside(blocks, from, to) /\ from <= x.addr /\ End(x) <= to
                       => Inside(new, from, to)
<1> DEFINE new == Splice(blocks, k, m, x)
<1>1. /\ blocks \in Seq(FreeBlock) /\ Len(blocks) \in Nat /\ DOMAIN blocks = 1..Len(blocks)
      /\ \A i \in 1..Len(blocks) : blocks[i].addr \in Nat /\ End(blocks[i]) \in Nat
      /\ \A i, j \in 1..Len(blocks) : i < j => End(blocks[i]) < blocks[j].addr
  BY SoundFacts, Zenon
<1>2. /\ new \in Seq(FreeBlock) /\ Len(new) = k + 2 + Len(blocks) - m
      /\ \A i \in 1..k : new[i] = blocks[i]
      /\ new[k + 1] = x
      /\ \A i \in (k + 2)..Len(new) : new[i] = blocks[i + m - k - 2]
  <2>1. Spliced(blocks, k, m, x, new)
    BY <1>1, SpliceElements, Zenon
  <2> QED BY <2>1, Zenon DEF Spliced
<1> HIDE DEF new
<1>3. DOMAIN new = 1..Len(new)
  BY <1>2, SMTT(30)
<1>4. x.addr \in Nat /\ End(x) \in Nat /\ x.addr <= End(x)
  BY SMTT(30) DEF FreeBlock, End
<1>5. \A i \in 1..Len(new) :
        \/ i <= k /\ i \in 1..Len(blocks) /\ new[i] = blocks[i]
        \/ i = k + 1 /\ new[i] = x
        \/ /\ i > k + 1 /\ i + m - k - 2 \in m..Len(blocks)
           /\ i + m - k - 2 \in 1..Len(blocks) /\ new[i] = blocks[i + m - k - 2]
  BY <1>1, <1>2, SMTT(30)
<1>6. Ordered(new)
  <2> SUFFICES ASSUME NEW i \in 1..Len(new), NEW j \in 1..Len(new), i < j
               PROVE  End(new[i]) < new[j].addr
    BY <1>3, Zenon DEF Ordered
  <2>0. k \in Int /\ m \in Int /\ 0 <= k /\ k < m /\ m <= Len(blocks) + 1 /\ Len(blocks) \in Nat
    BY <1>1, SMTT(30)
  <2>1. CASE j <= k
    <3>1. i \in 1..k /\ j \in 1..k /\ i \in 1..Len(blocks) /\ j \in 1..Len(blocks)
      BY <2>0, <2>1, SMTT(30)
    <3>2. new[i] = blocks[i] /\ new[j] = blocks[j]
      BY <1>2, <3>1, Zenon
    <3> QED BY <1>1, <3>1, <3>2, Zenon
  <2>2. CASE j = k + 1
    <3>1. i \in 1..k
      BY <2>0, <2>2, SMTT(30)
    <3>2. new[i] = blocks[i] /\ new[j] = x
      BY <1>2, <2>2, <3>1, Zenon
    <3> QED BY <3>1, <3>2, Zenon
  <2>3. CASE j > k + 1 /\ i <= k
    <3>1. /\ j + m - k - 2 \in 1..Len(blocks) /\ i \in 1..Len(blocks) /\ i < j + m - k - 2
          /\ i \in 1..k /\ j \in (k + 2)..Len(new)
      BY <1>2, <2>0, <2>3, SMTT(30)
    <3>2. new[i] = blocks[i] /\ new[j] = blocks[j + m - k - 2]
      BY <1>2, <3>1, Zenon
    <3> QED BY <1>1, <3>1, <3>2, Zenon
  <2>4. CASE j > k + 1 /\ i = k + 1
    <3>1. j + m - k - 2 \in m..Len(blocks) /\ j \in (k + 2)..Len(new)
      BY <1>2, <2>0, <2>4, SMTT(30)
    <3>2. new[i] = x /\ new[j] = blocks[j + m - k - 2]
      BY <1>2, <2>4, <3>1, Zenon
    <3> QED BY <3>1, <3>2, Zenon
  <2>5. CASE j > k + 1 /\ i > k + 1
    <3>1. /\ j + m - k - 2 \in 1..Len(blocks) /\ i + m - k - 2 \in 1..Len(blocks)
          /\ i + m - k - 2 < j + m - k - 2
          /\ i \in (k + 2)..Len(new) /\ j \in (k + 2)..Len(new)
      BY <1>2, <2>0, <2>5, SMTT(30)
    <3>2. new[i] = blocks[i + m - k - 2] /\ new[j] = blocks[j + m - k - 2]
      BY <1>2, <3>1, Zenon
    <3> QED BY <1>1, <3>1, <3>2, Zenon
  <2> QED BY <2>0, <2>1, <2>2, <2>3, <2>4, <2>5, SMTT(30)
<1>7. ASSUME NEW from \in Nat, NEW to \in Nat, Outside(blocks, from, to),
             End(x) <= from \/ to <= x.addr
      PROVE  Outside(new, from, to)
  BY <1>1, <1>3, <1>5, <1>7, Zenon DEF Outside
<1>8. ASSUME NEW from \in Nat, NEW to \in Nat, Inside(blocks, from, to),
             from <= x.addr, End(x) <= to
      PROVE  Inside(new, from, to)
  BY <1>1, <1>3, <1>5, <1>8, Zenon DEF Inside
<1> QED BY <1>2, <1>6, <1>7, <1>8, ZenonT(30) DEF Sound, new

(* `new` is in order and merged, and only the bytes of [addr, addr + size) are
   free in it that are not free in `blocks`. *)
Inserted(blocks, addr, size, new) ==
  /\ Sound(new)
  /\ \A from, to \in Nat :
       /\ from < to /\ Outside(blocks, from, to) /\ (addr + size <= from \/ to <= addr)
            => Outside(new, from, to)
       /\ Inside(blocks, from, to) /\ from <= addr /\ addr + size <= to
            => Inside(new, from, to)

(* insert of bytes that are in no free block: the list stays in order and
   merged, and only those bytes become free. *)
LEMMA InsertOK ==
  ASSUME NEW blocks, Sound(blocks), NEW addr \in Nat, NEW size \in Nat, size >= MinBlock,
         Outside(blocks, addr, addr + size)
  PROVE  Inserted(blocks, addr, size, insert(blocks, addr, size))
<1> DEFINE n == Lower(blocks, addr)
           joinsNext == n < Len(blocks) /\ addr + size = blocks[n + 1].addr
           joinsPrev == n > 0 /\ End(blocks[n]) = addr
           whole == size + IF joinsNext THEN blocks[n + 1].size ELSE 0
           k == IF joinsPrev THEN n - 1 ELSE n
           m == IF joinsNext THEN n + 2 ELSE n + 1
           x == IF joinsPrev THEN Block(blocks[n].addr, blocks[n].size + whole)
                ELSE Block(addr, whole)
<1>1. /\ blocks \in Seq(FreeBlock) /\ Len(blocks) \in Nat /\ DOMAIN blocks = 1..Len(blocks)
      /\ \A i \in 1..Len(blocks) : /\ blocks[i].addr \in Nat /\ blocks[i].size \in Nat
                                   /\ blocks[i].size >= MinBlock
                                   /\ End(blocks[i]) = blocks[i].addr + blocks[i].size
      /\ \A i, j \in 1..Len(blocks) : i < j => End(blocks[i]) < blocks[j].addr
  BY SoundFacts, Zenon
<1>2. MinBlock \in Nat /\ MinBlock >= 1
  BY HeapAssumption, SMTT(30)
<1>3. /\ n \in 0..Len(blocks)
      /\ \A i \in 1..n : blocks[i].addr < addr
      /\ n < Len(blocks) => blocks[n + 1].addr >= addr
  BY <1>1, LowerExists, Zenon
<1>4. insert(blocks, addr, size) = Splice(blocks, k, m, x)
  BY Zenon DEF insert, Splice
<1> HIDE DEF n
<1>5. \A i \in 1..n : End(blocks[i]) <= addr
  <2> SUFFICES ASSUME NEW i \in 1..n PROVE End(blocks[i]) <= addr
    BY Zenon
  <2>1. i \in 1..Len(blocks) /\ blocks[i].addr < addr
    BY <1>1, <1>3, SMTT(30)
  <2>2. End(blocks[i]) <= addr \/ addr + size <= blocks[i].addr
    BY <1>1, <2>1, Zenon DEF Outside
  <2>3. blocks[i].addr \in Nat
    BY <1>1, <2>1, Zenon
  <2> QED BY <2>1, <2>2, <2>3, SMTT(30)
<1>6. \A i \in (n + 1)..Len(blocks) : addr + size <= blocks[i].addr
  <2> SUFFICES ASSUME NEW i \in (n + 1)..Len(blocks) PROVE addr + size <= blocks[i].addr
    BY Zenon
  <2>1. i \in 1..Len(blocks) /\ n + 1 \in 1..Len(blocks) /\ n < Len(blocks)
    BY <1>1, <1>3, SMTT(30)
  <2>2. /\ blocks[i].addr \in Nat /\ blocks[i].size \in Nat /\ blocks[i].size >= MinBlock
        /\ End(blocks[i]) = blocks[i].addr + blocks[i].size
        /\ blocks[n + 1].addr \in Nat /\ blocks[n + 1].size \in Nat
        /\ End(blocks[n + 1]) = blocks[n + 1].addr + blocks[n + 1].size
        /\ blocks[n + 1].addr >= addr
    BY <1>1, <1>3, <2>1, Zenon
  <2>3. n + 1 < i => End(blocks[n + 1]) < blocks[i].addr
    BY <1>1, <2>1, Zenon
  <2>4. n + 1 < i \/ n + 1 = i
    BY <1>3, <1>1, SMTT(30)
  <2>5. blocks[i].addr >= addr
    BY <2>2, <2>3, <2>4, SMTT(30)
  <2>6. End(blocks[i]) <= addr \/ addr + size <= blocks[i].addr
    BY <1>1, <2>1, Zenon DEF Outside
  <2>7. ~(End(blocks[i]) <= addr)
    <3>1. /\ blocks[i].addr \in Nat /\ blocks[i].size \in Nat /\ blocks[i].size >= 1
          /\ End(blocks[i]) = blocks[i].addr + blocks[i].size
      BY <1>2, <2>2, SMTT(30)
    <3> QED BY <2>5, <3>1, SMTT(30)
  <2> QED BY <2>6, <2>7, Zenon
<1>7. \A i \in 1..(n - 1) : End(blocks[i]) < blocks[n].addr
  BY <1>1, <1>3, SMTT(30)
<1>8. \A i \in (n + 2)..Len(blocks) : End(blocks[n + 1]) < blocks[i].addr
  BY <1>1, <1>3, SMTT(30)
<1>9. n > 0 => n \in 1..Len(blocks)
  BY <1>1, <1>3, SMTT(30)
<1>10. n < Len(blocks) => n + 1 \in 1..Len(blocks)
  BY <1>1, <1>3, SMTT(30)
<1>11. k \in 0..Len(blocks) /\ m \in (k + 1)..(Len(blocks) + 1)
  BY <1>1, <1>3, SMTT(30)
<1>12. /\ whole \in Nat /\ whole >= size
       /\ joinsNext => addr + whole = End(blocks[n + 1])
       /\ ~joinsNext => whole = size
  <2>1. CASE joinsNext
    <3>1. /\ blocks[n + 1].addr \in Nat /\ blocks[n + 1].size \in Nat
          /\ End(blocks[n + 1]) = blocks[n + 1].addr + blocks[n + 1].size
      BY <1>1, <1>10, <2>1, Zenon
    <3>2. whole = size + blocks[n + 1].size
      BY <2>1, Zenon
    <3> HIDE DEF whole
    <3>3. /\ whole \in Nat /\ whole >= size
          /\ addr + whole = End(blocks[n + 1])
      <4>1. addr + size = blocks[n + 1].addr
        BY <2>1, Zenon
      <4> QED BY <3>1, <3>2, <4>1, SMTT(30)
    <3> QED BY <2>1, <3>3, Zenon
  <2>2. CASE ~joinsNext
    <3>1. whole = size + 0
      BY <2>2, Zenon
    <3> QED BY <2>2, <3>1, SMTT(30)
  <2> QED BY <2>1, <2>2, Zenon
<1> DEFINE last == addr + whole
<1> HIDE DEF whole
<1>13. /\ x \in FreeBlock /\ End(x) = last
       /\ joinsPrev => x.addr = blocks[n].addr
       /\ ~joinsPrev => x.addr = addr
  <2>1. CASE joinsPrev
    <3>1. /\ blocks[n].addr \in Nat /\ blocks[n].size \in Nat
          /\ blocks[n].addr + blocks[n].size = addr
      BY <2>1, <1>1, <1>9, Zenon
    <3>2. x = [addr |-> blocks[n].addr, size |-> blocks[n].size + whole]
      BY <2>1, Zenon DEF Block
    <3>0. whole \in Nat /\ whole >= size
      BY <1>12, Zenon
    <3> HIDE DEF x
    <3>3. /\ x.addr = blocks[n].addr /\ x.size = blocks[n].size + whole
          /\ x \in [addr : Nat, size : Nat]
      BY <3>0, <3>1, <3>2, SMTT(30)
    <3>4. x.size >= MinBlock /\ x.addr + x.size = addr + whole
      BY <3>0, <3>1, <3>3, <1>2, SMTT(30)
    <3> QED BY <2>1, <3>3, <3>4, Zenon DEF End, FreeBlock
  <2>2. CASE ~joinsPrev
    BY <2>2, <1>1, <1>2, <1>12, SMTT(30) DEF Block, End, FreeBlock
  <2> QED BY <2>1, <2>2, Zenon
<1> HIDE DEF x
<1>14. \A i \in 1..k : End(blocks[i]) < x.addr
  <2>1. CASE joinsPrev
    BY <2>1, <1>3, <1>7, <1>13, ZenonT(30)
  <2>2. CASE ~joinsPrev
    <3>1. \A i \in 1..n : End(blocks[i]) < addr
      <4> SUFFICES ASSUME NEW i \in 1..n PROVE End(blocks[i]) < addr
        BY Zenon
      <4>1. n \in Nat /\ n > 0 /\ n \in 1..Len(blocks) /\ i \in 1..Len(blocks) /\ i \in Int
        BY <1>1, <1>3, SMTT(30)
      <4>2. End(blocks[i]) \in Int /\ blocks[n].addr \in Int /\ blocks[n].addr < addr
        <5>1. n \in 1..n
          BY <4>1, SMTT(30)
        <5>2. blocks[n].addr < addr
          BY <1>3, <5>1, Zenon
        <5>3. End(blocks[i]) \in Nat /\ blocks[n].addr \in Nat
          <6>1. \A j \in 1..Len(blocks) : blocks[j].addr \in Nat /\ End(blocks[j]) \in Nat
            BY SoundFacts, Zenon
          <6> QED BY <4>1, <6>1, Zenon
        <5> QED BY <5>2, <5>3, SMTT(30)
      <4>3. CASE i = n
        BY <2>2, <1>5, <4>1, <4>2, <4>3, SMTT(30)
      <4>4. CASE i # n
        <5>1. End(blocks[i]) < blocks[n].addr
          BY <1>7, <4>1, <4>4, SMTT(30)
        <5> QED BY <4>2, <5>1, SMTT(30)
      <4> QED BY <4>3, <4>4, Zenon
    <3> QED BY <2>2, <3>1, <1>13, Zenon
  <2> QED BY <2>1, <2>2, Zenon
<1>15. \A i \in m..Len(blocks) : End(x) < blocks[i].addr
  <2>1. CASE joinsNext
    BY <2>1, <1>3, <1>8, <1>12, <1>13, ZenonT(30)
  <2>2. CASE ~joinsNext
    <3>1. \A i \in (n + 1)..Len(blocks) : addr + size < blocks[i].addr
      <4> SUFFICES ASSUME NEW i \in (n + 1)..Len(blocks) PROVE addr + size < blocks[i].addr
        BY Zenon
      <4>1. /\ n \in Nat /\ n < Len(blocks) /\ i \in Int /\ n + 1 \in 1..Len(blocks)
            /\ i \in 1..Len(blocks) /\ n + 1 \in (n + 1)..Len(blocks)
        BY <1>1, <1>3, SMTT(30)
      <4>2. /\ blocks[i].addr \in Nat /\ blocks[n + 1].addr \in Nat /\ blocks[n + 1].size \in Nat
            /\ End(blocks[n + 1]) = blocks[n + 1].addr + blocks[n + 1].size
        BY <1>1, <4>1, Zenon
      <4>3. addr + size <= blocks[i].addr /\ addr + size <= blocks[n + 1].addr
        BY <1>6, <4>1, Zenon
      <4>4. CASE i = n + 1
        BY <2>2, <4>1, <4>2, <4>3, <4>4, SMTT(30)
      <4>5. CASE i # n + 1
        <5>1. i \in (n + 2)..Len(blocks)
          BY <1>1, <4>1, <4>5, SMTT(30)
        <5>2. End(blocks[n + 1]) < blocks[i].addr
          BY <1>8, <5>1, Zenon
        <5> QED BY <4>2, <4>3, <5>2, SMTT(30)
      <4> QED BY <4>4, <4>5, Zenon
    <3> QED BY <2>2, <3>1, <1>12, <1>13, ZenonT(30)
  <2> QED BY <2>1, <2>2, Zenon
<1> DEFINE new == Splice(blocks, k, m, x)
<1> HIDE DEF k, m
<1>16. /\ Sound(new)
       /\ \A from, to \in Nat :
            /\ Outside(blocks, from, to) /\ (End(x) <= from \/ to <= x.addr)
                 => Outside(new, from, to)
            /\ Inside(blocks, from, to) /\ from <= x.addr /\ End(x) <= to
                 => Inside(new, from, to)
  BY <1>11, <1>13, <1>14, <1>15, SpliceOK, ZenonT(30)
<1> HIDE DEF new
<1>17. ASSUME NEW from \in Nat, NEW to \in Nat, from < to, Outside(blocks, from, to),
              addr + size <= from \/ to <= addr
       PROVE  Outside(new, from, to)
  <2>1. joinsPrev => End(blocks[n]) <= from \/ to <= blocks[n].addr
    BY <1>1, <1>9, <1>17, Zenon DEF Outside
  <2>2. joinsNext => End(blocks[n + 1]) <= from \/ to <= blocks[n + 1].addr
    BY <1>1, <1>10, <1>17, ZenonT(30) DEF Outside
  <2>3. addr + size <= from => last <= from
    BY <1>2, <1>12, <1>17, <2>2, SMTT(30)
  <2>4. to <= addr => to <= x.addr
    BY <1>13, <1>17, <2>1, SMTT(30)
  <2> QED BY <1>13, <1>16, <1>17, <2>3, <2>4, ZenonT(30)
<1>18. ASSUME NEW from \in Nat, NEW to \in Nat, Inside(blocks, from, to),
              from <= addr, addr + size <= to
       PROVE  Inside(new, from, to)
  <2>1. joinsPrev => from <= blocks[n].addr
    BY <1>1, <1>9, <1>18, Zenon DEF Inside
  <2>2. joinsNext => End(blocks[n + 1]) <= to
    BY <1>1, <1>10, <1>18, ZenonT(30) DEF Inside
  <2>3. from <= x.addr /\ last <= to
    BY <1>12, <1>13, <1>18, <2>1, <2>2, ZenonT(30)
  <2> QED BY <1>13, <1>16, <1>18, <2>3, ZenonT(30)
<1> QED BY <1>4, <1>16, <1>17, <1>18, Zenon DEF Inserted, new

(* A leftover piece: given back if it is large enough, else the list is as it was. *)
LEMMA GiveBackOK ==
  ASSUME NEW blocks, Sound(blocks), NEW addr \in Nat, NEW size \in Nat,
         Outside(blocks, addr, addr + size)
  PROVE  Inserted(blocks, addr, size, give_back(blocks, addr, size))
<1>1. CASE size >= MinBlock
  BY <1>1, InsertOK, Zenon DEF give_back
<1>2. CASE ~(size >= MinBlock)
  BY <1>2, Zenon DEF give_back, Inserted
<1> QED BY <1>1, <1>2, Zenon

(* The list without its i-th block. *)
Without(blocks, i) == SubSeq(blocks, 1, i - 1) \o SubSeq(blocks, i + 1, Len(blocks))

(* remove: the other blocks stay in order and merged, and no byte of the block
   taken out is free any more. *)
LEMMA WithoutOK ==
  ASSUME NEW blocks, Sound(blocks), NEW i \in DOMAIN blocks
  PROVE  LET new == Without(blocks, i)
         IN  /\ Sound(new)
             /\ Outside(new, blocks[i].addr, End(blocks[i]))
             /\ \A from, to \in Nat : /\ Outside(blocks, from, to) => Outside(new, from, to)
                                      /\ Inside(blocks, from, to) => Inside(new, from, to)
<1> DEFINE A == SubSeq(blocks, 1, i - 1)
           C == SubSeq(blocks, i + 1, Len(blocks))
           D == A \o C
           n == Len(blocks)
           new == Without(blocks, i)
<1>1. /\ blocks \in Seq(FreeBlock) /\ n \in Nat /\ DOMAIN blocks = 1..n
      /\ \A j \in 1..n : blocks[j].addr \in Nat /\ End(blocks[j]) \in Nat
      /\ \A j, l \in 1..n : j < l => End(blocks[j]) < blocks[l].addr
  BY SoundFacts, Zenon
<1>2. i \in 1..n
  BY <1>1, Zenon
<1>3. /\ A \in Seq(FreeBlock) /\ Len(A) = i - 1 /\ \A j \in 1..(i - 1) : A[j] = blocks[j]
      /\ C \in Seq(FreeBlock) /\ Len(C) = n + 1 - (i + 1)
      /\ \A j \in 1..(n + 1 - (i + 1)) : C[j] = blocks[(i + 1) + j - 1]
  <2>1. i - 1 \in 0..Len(blocks) /\ i + 1 \in 1..(Len(blocks) + 1)
    BY <1>1, <1>2, SMTT(30)
  <2> QED BY <1>1, <2>1, PartElements, ZenonT(30)
<1> HIDE DEF A, C
<1>4. /\ D \in Seq(FreeBlock) /\ Len(D) = Len(A) + Len(C)
      /\ \A j \in 1..(Len(A) + Len(C)) : D[j] = IF j <= Len(A) THEN A[j] ELSE C[j - Len(A)]
  BY <1>3, ConcatProperties, ZenonT(30)
<1>5. new = D
  BY Zenon DEF Without, A, C
<1> HIDE DEF D, new
<1>6. new \in Seq(FreeBlock) /\ Len(new) = n - 1 /\ DOMAIN new = 1..Len(new)
  <2>1. Len(new) = n - 1
    <3> HIDE DEF n
    <3>1. Len(new) = (i - 1) + (n + 1 - (i + 1))
      BY <1>3, <1>4, <1>5, Zenon
    <3> QED BY <1>1, <1>2, <3>1, SMTT(30)
  <2> QED BY <1>4, <1>5, <2>1, LenProperties, Zenon
<1>7. \A j \in 1..Len(new) :
        \/ j < i /\ j \in 1..n /\ new[j] = blocks[j]
        \/ j >= i /\ j + 1 \in 1..n /\ new[j] = blocks[j + 1]
  <2> SUFFICES ASSUME NEW j \in 1..Len(new)
               PROVE  \/ j < i /\ j \in 1..n /\ new[j] = blocks[j]
                      \/ j >= i /\ j + 1 \in 1..n /\ new[j] = blocks[j + 1]
    BY Zenon
  <2> HIDE DEF n
  <2>0. /\ j \in Int /\ 1 <= j /\ j <= n - 1 /\ i \in Int /\ 1 <= i /\ i <= n /\ n \in Nat
        /\ new[j] = IF j <= Len(A) THEN A[j] ELSE C[j - Len(A)]
    <3>1. j \in 1..(Len(A) + Len(C))
      BY <1>4, <1>5, Zenon
    <3>2. new[j] = IF j <= Len(A) THEN A[j] ELSE C[j - Len(A)]
      BY <1>4, <1>5, <3>1, Zenon
    <3> QED BY <1>1, <1>2, <1>6, <3>2, SMTT(30)
  <2>1. CASE j < i
    <3>1. j \in 1..(i - 1) /\ j \in 1..n /\ j <= i - 1
      BY <2>0, <2>1, SMTT(30)
    <3>2. new[j] = A[j] /\ A[j] = blocks[j]
      BY <1>3, <2>0, <3>1, Zenon
    <3> QED BY <2>1, <3>1, <3>2, Zenon
  <2>2. CASE j >= i
    <3>1. /\ j - (i - 1) \in 1..(n + 1 - (i + 1)) /\ (i + 1) + (j - (i - 1)) - 1 = j + 1
          /\ j + 1 \in 1..n
      BY <2>0, <2>2, SMTT(30)
    <3>2. new[j] = C[j - (i - 1)]
      <4>1. ~(j <= i - 1)
        BY <2>0, <2>2, SMTT(30)
      <4> QED BY <1>3, <2>0, <4>1, Zenon
    <3>3. C[j - (i - 1)] = blocks[(i + 1) + (j - (i - 1)) - 1]
      BY <1>3, <3>1, Zenon
    <3> QED BY <2>2, <3>1, <3>2, <3>3, ZenonT(30)
  <2> QED BY <1>1, <1>2, <1>6, <2>1, <2>2, SMTT(30)
<1>8. Ordered(new)
  <2> SUFFICES ASSUME NEW j \in 1..Len(new), NEW l \in 1..Len(new), j < l
               PROVE  End(new[j]) < new[l].addr
    BY <1>6, Zenon DEF Ordered
  <2>1. PICK p \in 1..n : new[j] = blocks[p] /\ ((j < i /\ p = j) \/ (j >= i /\ p = j + 1))
    BY <1>7, Zenon
  <2>2. PICK q \in 1..n : new[l] = blocks[q] /\ ((l < i /\ q = l) \/ (l >= i /\ q = l + 1))
    BY <1>7, Zenon
  <2>3. p < q
    <3> HIDE DEF n
    <3>1. i \in Int /\ j \in Int /\ l \in Int /\ p \in Int /\ q \in Int
      BY <1>1, <1>2, <1>6, SMTT(30)
    <3> QED BY <2>1, <2>2, <3>1, SMTT(30)
  <2> QED BY <1>1, <2>1, <2>2, <2>3, Zenon
<1>9. Outside(new, blocks[i].addr, End(blocks[i]))
  <2> SUFFICES ASSUME NEW j \in 1..Len(new)
               PROVE  End(new[j]) <= blocks[i].addr \/ End(blocks[i]) <= new[j].addr
    BY <1>6, Zenon DEF Outside
  <2>1. PICK p \in 1..n : new[j] = blocks[p] /\ ((j < i /\ p = j) \/ (j >= i /\ p = j + 1))
    BY <1>7, Zenon
  <2>2. p < i \/ i < p
    <3> HIDE DEF n
    <3> QED BY <1>1, <1>2, <1>6, <2>1, SMTT(30)
  <2>3. End(blocks[p]) < blocks[i].addr \/ End(blocks[i]) < blocks[p].addr
    BY <1>1, <1>2, <2>2, Zenon
  <2>4. /\ End(blocks[p]) \in Nat /\ blocks[p].addr \in Nat
        /\ End(blocks[i]) \in Nat /\ blocks[i].addr \in Nat
    BY <1>1, <1>2, Zenon
  <2> QED BY <2>1, <2>3, <2>4, SMTT(30)
<1>10. ASSUME NEW from \in Nat, NEW to \in Nat, Outside(blocks, from, to)
       PROVE  Outside(new, from, to)
  BY <1>1, <1>6, <1>7, <1>10, Zenon DEF Outside
<1>11. ASSUME NEW from \in Nat, NEW to \in Nat, Inside(blocks, from, to)
       PROVE  Inside(new, from, to)
  BY <1>1, <1>6, <1>7, <1>11, Zenon DEF Inside
<1> QED BY <1>6, <1>8, <1>9, <1>10, <1>11, ZenonT(30) DEF Sound, new

(* find_and_remove: what is handed out is aligned, was free, is no longer free,
   and nothing else becomes free. *)
LEMMA RemoveOK ==
  ASSUME NEW blocks, Sound(blocks), NEW size \in Nat \ {0}, NEW align \in Nat \ {0},
         NEW i \in FirstRoom(blocks, size, align)
  PROVE  LET new   == find_and_remove(blocks, i, size, align)
             given == Start(blocks, i, align)
         IN  /\ Sound(new)
             /\ given \in Nat /\ given % align = 0
             /\ i \in DOMAIN blocks /\ blocks[i].addr <= given /\ given + size <= End(blocks[i])
             /\ Outside(new, given, given + size)
             /\ \A from, to \in Nat :
                  /\ from < to /\ Outside(blocks, from, to) => Outside(new, from, to)
                  /\ Inside(blocks, from, to) => Inside(new, from, to)
<1> DEFINE b == blocks[i]
           given == Start(blocks, i, align)
           others == Without(blocks, i)
           pad == given - b.addr
           after == End(b) - given - size
           taken == give_back(others, b.addr, pad)
           new == give_back(taken, given + size, after)
<1>1. i \in DOMAIN blocks /\ Fits(b, size, align)
  BY Zenon DEF FirstRoom
<1>2. b.addr \in Nat /\ b.size \in Nat /\ End(b) = b.addr + b.size
  BY <1>1, SMTT(30) DEF Sound, FreeBlock, End
<1>3. given \in Nat /\ b.addr <= given /\ given % align = 0
  BY <1>2, AlignUp, Zenon DEF Start
<1>4. given + size <= End(b) /\ pad \in Nat /\ after \in Nat
  <2>1. given - b.addr + size <= b.size
    BY <1>1, Zenon DEF Fits, Start
  <2> QED BY <1>2, <1>3, <2>1, SMTT(30)
<1>5. find_and_remove(blocks, i, size, align) = new
  BY Zenon DEF find_and_remove, Without
<1>6. /\ Sound(others) /\ Outside(others, b.addr, End(b))
      /\ \A from, to \in Nat : /\ Outside(blocks, from, to) => Outside(others, from, to)
                               /\ Inside(blocks, from, to) => Inside(others, from, to)
  BY <1>1, WithoutOK, Zenon
<1> HIDE DEF b, given, others
<1>7. /\ b.addr + pad = given /\ (given + size) + after = End(b) /\ End(b) \in Nat
      /\ \A j \in DOMAIN others : others[j].addr \in Nat /\ End(others[j]) \in Nat
  <2>1. \A j \in DOMAIN others : others[j].addr \in Nat /\ End(others[j]) \in Nat
    BY <1>6, SoundFacts, Zenon
  <2> QED BY <1>2, <1>3, <1>4, <2>1, SMTT(30)
<1>8. \A from, to \in Nat : b.addr <= from /\ to <= End(b) => Outside(others, from, to)
  BY <1>2, <1>6, <1>7, SMTT(30) DEF Outside
<1>9. Inserted(others, b.addr, pad, taken)
  <2>1. Outside(others, b.addr, b.addr + pad)
    BY <1>2, <1>3, <1>4, <1>7, <1>8, SMTT(30)
  <2> QED BY <1>2, <1>4, <1>6, <2>1, GiveBackOK, Zenon
<1> HIDE DEF pad, after, taken
<1>10. Sound(taken)
  BY <1>9, Zenon DEF Inserted
<1>11. \A from, to \in Nat : from < to /\ given <= from /\ to <= End(b) => Outside(taken, from, to)
  BY <1>2, <1>3, <1>7, <1>8, <1>9, SMTT(30) DEF Inserted
<1>12. Inserted(taken, given + size, after, new)
  <2>1. CASE after = 0
    BY <2>1, <1>10, HeapAssumption, SMTT(30) DEF give_back, Inserted
  <2>2. CASE after # 0
    <3>1. Outside(taken, given + size, (given + size) + after)
      BY <2>2, <1>3, <1>4, <1>7, <1>11, SMTT(30)
    <3> QED BY <3>1, <1>3, <1>4, <1>10, GiveBackOK, SMTT(30)
  <2> QED BY <2>1, <2>2, Zenon
<1> HIDE DEF new
<1>13. Outside(new, given, given + size)
  BY <1>3, <1>4, <1>7, <1>11, <1>12, SMTT(30) DEF Inserted
<1>14. ASSUME NEW from \in Nat, NEW to \in Nat, from < to, Outside(blocks, from, to)
       PROVE  Outside(new, from, to)
  <2>1. End(b) <= from \/ to <= b.addr
    BY <1>1, <1>14, ZenonT(30) DEF Outside, b
  <2>2. Outside(taken, from, to)
    <3>1. Outside(others, from, to)
      BY <1>6, <1>14, Zenon
    <3>2. b.addr + pad <= from \/ to <= b.addr
      BY <1>2, <1>3, <1>4, <1>7, <2>1, SMTT(30)
    <3> QED BY <1>9, <1>14, <3>1, <3>2, ZenonT(30) DEF Inserted
  <2> QED BY <1>2, <1>3, <1>4, <1>7, <1>12, <1>14, <2>1, <2>2, SMTT(30) DEF Inserted
<1>15. ASSUME NEW from \in Nat, NEW to \in Nat, Inside(blocks, from, to)
       PROVE  Inside(new, from, to)
  <2>1. from <= b.addr /\ End(b) <= to
    BY <1>1, <1>15, Zenon DEF Inside, b
  <2>2. Inside(taken, from, to)
    <3>1. Inside(others, from, to)
      BY <1>6, <1>15, Zenon
    <3>2. from <= b.addr /\ b.addr + pad <= to
      BY <1>2, <1>3, <1>4, <1>7, <2>1, SMTT(30)
    <3> QED BY <1>9, <1>15, <3>1, <3>2, ZenonT(30) DEF Inserted
  <2> QED BY <1>2, <1>3, <1>4, <1>7, <1>12, <1>15, <2>1, <2>2, SMTT(30) DEF Inserted
<1>16. Sound(new)
  BY <1>12, Zenon DEF Inserted
<1> QED BY <1>1, <1>3, <1>4, <1>5, <1>13, <1>14, <1>15, <1>16, ZenonT(30) DEF b, given

-----------------------------------------------------------------------------
(* A list of free blocks, and an end of the heap, that go with the blocks
   callers hold. *)
Fitting(blocks, end) ==
  /\ end \in Nat /\ mapped_end <= end /\ (end = 0 \/ end >= HeapStart)
  /\ Sound(blocks) /\ Inside(blocks, HeapStart, end)
  /\ \A b \in live : Outside(blocks, b.addr, LiveEnd(b))

(* What is known of a block a caller holds. *)
LEMMA LiveFacts ==
  ASSUME LiveOK, NEW b \in live
  PROVE  /\ b.addr \in Nat /\ b.layout \in Layouts
         /\ adjust(b.layout[1]) \in Nat \ {0} /\ adjust(b.layout[1]) >= MinBlock
         /\ LiveEnd(b) = b.addr + adjust(b.layout[1]) /\ LiveEnd(b) \in Nat /\ b.addr < LiveEnd(b)
<1>1. b.addr \in Nat /\ b.layout \in Layouts
  BY Zenon DEF LiveOK
<1>2. adjust(b.layout[1]) \in Nat \ {0} /\ adjust(b.layout[1]) >= MinBlock
  BY <1>1, Adjusted, Zenon
<1> QED BY <1>1, <1>2, SMTT(30) DEF LiveEnd

(* alloc finds no room: the list and the end of the heap it has come to. *)
LEMMA RefuseOK ==
  ASSUME HeapInv, NEW blocks, NEW end, Fitting(blocks, end), mapped_end' = end, refuse(blocks)
  PROVE  HeapInv'
<1>1. list' = blocks /\ live' = live
  BY Zenon DEF refuse
<1>2. mapped_end \in Nat /\ HeapStart \in Nat
  BY HeapAssumption, Zenon DEF HeapInv
<1>3. \A b \in live : LiveEnd(b) \in Nat /\ LiveEnd(b) <= mapped_end
  BY LiveFacts, Zenon DEF HeapInv, LiveOK
<1>4. LiveOK'
  BY <1>1, <1>2, <1>3, SMTT(30) DEF HeapInv, LiveOK, Fitting, LiveEnd, Outside, End
<1> QED BY <1>1, <1>4, Zenon DEF HeapInv, Fitting, Sound, Ordered, Inside, End

(* alloc finds room: the new block has no byte of another one or of the list. *)
LEMMA TakeOK ==
  ASSUME HeapInv, NEW blocks, NEW end, Fitting(blocks, end), mapped_end' = end,
         NEW layout \in Layouts,
         NEW i \in FirstRoom(blocks, adjust(layout[1]), layout[2]),
         take(blocks, i, adjust(layout[1]), layout[2], layout)
  PROVE  HeapInv'
<1> DEFINE size == adjust(layout[1])
           align == layout[2]
           given == Start(blocks, i, align)
           new == find_and_remove(blocks, i, size, align)
           held == [addr |-> given, layout |-> layout]
<1>1. size \in Nat \ {0} /\ align \in Nat \ {0}
  BY Adjusted, Zenon
<1>2. /\ Sound(new)
      /\ given \in Nat /\ given % align = 0
      /\ i \in DOMAIN blocks /\ blocks[i].addr <= given /\ given + size <= End(blocks[i])
      /\ Outside(new, given, given + size)
      /\ \A from, to \in Nat :
           /\ from < to /\ Outside(blocks, from, to) => Outside(new, from, to)
           /\ Inside(blocks, from, to) => Inside(new, from, to)
  BY <1>1, RemoveOK, Zenon DEF Fitting
<1>3. list' = new /\ live' = live \cup {held}
  BY Zenon DEF take
<1>4. /\ end \in Nat /\ mapped_end \in Nat /\ HeapStart \in Nat /\ mapped_end <= end
      /\ blocks[i].addr \in Nat /\ End(blocks[i]) \in Nat
      /\ HeapStart <= blocks[i].addr /\ End(blocks[i]) <= end
  <2>1. blocks[i].addr \in Nat /\ End(blocks[i]) \in Nat
    BY <1>2, SoundFacts, Zenon DEF Fitting
  <2> QED BY <1>2, <2>1, HeapAssumption, Zenon DEF HeapInv, Fitting, Inside
<1> HIDE DEF size, align, given, new
<1>5. /\ held \in [addr : Nat, layout : Layouts] /\ held.addr = given /\ LiveEnd(held) = given + size
      /\ held.layout[2] = align
  BY <1>2, SMTT(30) DEF LiveEnd, size, align
<1>6. \A b \in live :
        /\ b.addr \in Nat /\ LiveEnd(b) \in Nat /\ b.addr < LiveEnd(b)
        /\ HeapStart <= b.addr /\ LiveEnd(b) <= mapped_end /\ b.addr % b.layout[2] = 0
  BY LiveFacts, Zenon DEF HeapInv, LiveOK
<1>7. \A b \in live : Outside(new, b.addr, LiveEnd(b))
  BY <1>2, <1>6, Zenon DEF Fitting
<1>8. \A b \in live : LiveEnd(b) <= given \/ given + size <= b.addr
  <2> SUFFICES ASSUME NEW b \in live PROVE LiveEnd(b) <= given \/ given + size <= b.addr
    BY Zenon
  <2>1. End(blocks[i]) <= b.addr \/ LiveEnd(b) <= blocks[i].addr
    BY <1>2, Zenon DEF Fitting, Outside
  <2> QED BY <1>1, <1>2, <1>4, <1>6, <2>1, SMTT(30)
<1> HIDE DEF held
<1>9. live' \subseteq [addr : Nat, layout : Layouts]
  BY <1>3, <1>5, Zenon DEF HeapInv, LiveOK
<1>10. \A b \in live' : /\ b.addr % b.layout[2] = 0
                        /\ HeapStart <= b.addr /\ LiveEnd(b) <= end
                        /\ Outside(new, b.addr, LiveEnd(b))
  <2> SUFFICES ASSUME NEW b \in live'
               PROVE  /\ b.addr % b.layout[2] = 0
                      /\ HeapStart <= b.addr /\ LiveEnd(b) <= end
                      /\ Outside(new, b.addr, LiveEnd(b))
    BY Zenon
  <2>1. CASE b \in live
    BY <2>1, <1>4, <1>6, <1>7, SMTT(30)
  <2>2. CASE b = held
    <3>1. HeapStart <= given /\ given + size <= end
      BY <1>1, <1>2, <1>4, SMTT(30)
    <3> QED BY <2>2, <3>1, <1>2, <1>5, Zenon
  <2> QED BY <1>3, <2>1, <2>2, Zenon
<1>11. \A b, c \in live' : b # c => LiveEnd(b) <= c.addr \/ LiveEnd(c) <= b.addr
  <2> SUFFICES ASSUME NEW b \in live', NEW c \in live', b # c
               PROVE  LiveEnd(b) <= c.addr \/ LiveEnd(c) <= b.addr
    BY Zenon
  <2>1. CASE b \in live /\ c \in live
    BY <2>1, Zenon DEF HeapInv, LiveOK
  <2>2. CASE b \in live /\ c = held
    BY <2>2, <1>5, <1>8, Zenon
  <2>3. CASE b = held /\ c \in live
    BY <2>3, <1>5, <1>8, Zenon
  <2> QED BY <1>3, <2>1, <2>2, <2>3, Zenon
<1>12. LiveOK'
  BY <1>3, <1>9, <1>10, <1>11, ZenonT(30) DEF LiveOK, LiveEnd, Outside, End
<1>13. Sound(new) /\ Inside(new, HeapStart, end)
  BY <1>2, <1>4, Zenon DEF Fitting
<1> QED BY <1>3, <1>12, <1>13, Zenon DEF HeapInv, Fitting, Sound, Ordered, Inside, End

(* The list as it is goes with the blocks callers hold. *)
LEMMA ListFits == ASSUME HeapInv PROVE Fitting(list, mapped_end)
BY SMTT(30) DEF HeapInv, LiveOK, Fitting

(* So it does with the heap's first address as its end, before anything is mapped. *)
LEMMA NewStartFits == ASSUME HeapInv PROVE Fitting(list, NewStart) /\ NewStart >= HeapStart
<1>1. \A i \in DOMAIN list : list[i].addr \in Nat /\ End(list[i]) \in Nat
  BY SMTT(30) DEF HeapInv, Sound, FreeBlock, End
<1> QED BY <1>1, HeapAssumption, SMTT(30) DEF HeapInv, LiveOK, Fitting, NewStart, Inside

(* grow: the pages that were mapped become free. *)
LEMMA GrowOK ==
  ASSUME HeapInv, NEW min_extra \in Nat, NEW mapped \in MappedBy(min_extra)
  PROVE  Fitting(insert(list, NewStart, mapped), NewStart + mapped)
<1> DEFINE new == insert(list, NewStart, mapped)
           end == NewStart + mapped
<1>1. /\ HeapStart \in Nat \ {0} /\ HeapMaxSize \in Nat /\ GrowStep \in Nat
      /\ PageSize \in Nat \ {0} /\ MinBlock \in Nat /\ MinBlock >= 1 /\ MinBlock <= PageSize
      /\ mapped_end \in Nat
  BY HeapAssumption, SMTT(30) DEF HeapInv
<1>2. GrowsBy(min_extra) \in Int
  <2>1. align_up(min_extra, PageSize) \in Nat
    BY <1>1, AlignUp, Zenon
  <2> QED BY <1>1, <2>1, SMTT(30) DEF GrowsBy
<1>3. mapped \in Nat \ {0} /\ mapped % PageSize = 0
  BY <1>2, SMTT(30) DEF MappedBy
<1>4. mapped >= MinBlock
  BY <1>1, <1>3, WholePages, SMTT(30)
<1>5. /\ NewStart \in Nat /\ NewStart >= HeapStart /\ mapped_end <= NewStart
      /\ Sound(list) /\ Inside(list, HeapStart, NewStart)
      /\ \A b \in live : Outside(list, b.addr, LiveEnd(b))
  BY NewStartFits, Zenon DEF Fitting
<1> HIDE DEF new, end
<1>6. end \in Nat /\ end = NewStart + mapped
  BY <1>3, <1>5, SMTT(30) DEF end
<1>7. Outside(list, NewStart, NewStart + mapped)
  BY <1>5, Zenon DEF Inside, Outside
<1>8. Inserted(list, NewStart, mapped, new)
  BY <1>3, <1>4, <1>5, <1>7, InsertOK, ZenonT(30) DEF new
<1>9. Inside(list, HeapStart, end)
  <2>1. \A i \in DOMAIN list : End(list[i]) \in Nat
    BY <1>5, SMTT(30) DEF Sound, FreeBlock, End
  <2> QED BY <1>3, <1>5, <1>6, <2>1, SMTT(30) DEF Inside
<1>10. Inside(new, HeapStart, end)
  BY <1>1, <1>5, <1>6, <1>8, <1>9, SMTT(30) DEF Inserted
<1>11. ASSUME NEW b \in live PROVE Outside(new, b.addr, LiveEnd(b))
  <2>1. b.addr \in Nat /\ LiveEnd(b) \in Nat /\ b.addr < LiveEnd(b) /\ LiveEnd(b) <= NewStart
    BY <1>1, <1>5, LiveFacts, SMTT(30) DEF HeapInv, LiveOK
  <2> QED BY <1>5, <1>8, <2>1, Zenon DEF Inserted
<1>12. mapped_end <= end /\ end >= HeapStart
  BY <1>1, <1>3, <1>5, <1>6, SMTT(30)
<1>13. Sound(new)
  BY <1>8, Zenon DEF Inserted
<1> QED BY <1>6, <1>10, <1>11, <1>12, <1>13, ZenonT(30) DEF Fitting, new, end

(* alloc keeps the invariant, whether it finds room, grows or gives up. *)
LEMMA AllocOK == ASSUME HeapInv, NEW layout \in Layouts, alloc(layout) PROVE HeapInv'
<1> DEFINE size == adjust(layout[1])
           align == layout[2]
<1>1. CASE /\ \E i \in FirstRoom(list, size, align) : take(list, i, size, align, layout)
           /\ UNCHANGED <<mapped_end, total>>
  BY <1>1, ListFits, TakeOK, Zenon
<1>2. CASE refuse(list) /\ mapped_end' = NewStart
  BY <1>2, NewStartFits, RefuseOK, Zenon
<1>3. ASSUME NEW mapped \in MappedBy(size + align),
             mapped_end' = NewStart + mapped,
             LET grown == insert(list, NewStart, mapped)
             IN  \/ \E i \in FirstRoom(grown, size, align) : take(grown, i, size, align, layout)
                 \/ refuse(grown)
      PROVE  HeapInv'
  <2> DEFINE grown == insert(list, NewStart, mapped)
  <2>1. size + align \in Nat
    BY Adjusted, SMTT(30)
  <2>2. Fitting(grown, NewStart + mapped)
    BY <2>1, GrowOK, Zenon
  <2> HIDE DEF grown
  <2>3. CASE \E i \in FirstRoom(grown, size, align) : take(grown, i, size, align, layout)
    BY <1>3, <2>2, <2>3, TakeOK, Zenon
  <2>4. CASE refuse(grown)
    BY <1>3, <2>2, <2>4, RefuseOK, ZenonT(30)
  <2> QED BY <1>3, <2>3, <2>4, Zenon DEF grown
<1> QED BY <1>1, <1>2, <1>3, Zenon DEF alloc

(* dealloc keeps the invariant: the block goes from its caller to the list. *)
LEMMA DeallocOK == ASSUME HeapInv, NEW b \in live, dealloc(b) PROVE HeapInv'
<1> DEFINE size == adjust(b.layout[1])
           new == insert(list, b.addr, size)
<1>1. list' = new /\ live' = live \ {b} /\ mapped_end' = mapped_end
  BY Zenon DEF dealloc
<1>2. /\ b.addr \in Nat /\ size \in Nat /\ size >= MinBlock
      /\ LiveEnd(b) = b.addr + size
  BY LiveFacts, Zenon DEF HeapInv
<1> HIDE DEF size
<1>3. Inserted(list, b.addr, size, new)
  BY <1>2, InsertOK, Zenon DEF HeapInv, LiveOK
<1> HIDE DEF new
<1>4. \A c \in live : /\ c.addr \in Nat /\ LiveEnd(c) \in Nat /\ c.addr < LiveEnd(c)
  BY LiveFacts, Zenon DEF HeapInv
<1>5. \A c \in live' : Outside(new, c.addr, LiveEnd(c))
  <2> SUFFICES ASSUME NEW c \in live, c # b PROVE Outside(new, c.addr, LiveEnd(c))
    BY <1>1, Zenon
  <2>1. LiveEnd(b) <= c.addr \/ LiveEnd(c) <= b.addr
    BY Zenon DEF HeapInv, LiveOK
  <2> QED BY <1>2, <1>3, <1>4, <2>1, ZenonT(30) DEF HeapInv, LiveOK, Inserted
<1>6. LiveOK'
  BY <1>1, <1>5, Zenon DEF HeapInv, LiveOK, LiveEnd, Outside, End
<1>7. Sound(new) /\ Inside(new, HeapStart, mapped_end)
  <2>1. HeapStart <= b.addr /\ b.addr + size <= mapped_end
    BY <1>2, Zenon DEF HeapInv, LiveOK
  <2> QED BY <1>3, <2>1, HeapAssumption, Zenon DEF HeapInv, Inserted
<1> QED BY <1>1, <1>6, <1>7, Zenon DEF HeapInv, Sound, Ordered, Inside, End

(* The invariant holds always. *)
THEOREM HeapInvariant == HeapSpec => []HeapInv
<1>1. HeapInit => HeapInv
  BY SMTT(30) DEF HeapInit, HeapInv, LiveOK, Sound, Ordered, Inside
<1>2. HeapInv /\ [HeapNext]_heapVars => HeapInv'
  <2> SUFFICES ASSUME HeapInv, [HeapNext]_heapVars PROVE HeapInv'
    BY Zenon
  <2>1. CASE \E layout \in Layouts : alloc(layout)
    BY <2>1, AllocOK, Zenon
  <2>2. CASE \E b \in live : dealloc(b)
    BY <2>2, DeallocOK, Zenon
  <2>3. CASE UNCHANGED heapVars
    BY <2>3, Zenon DEF heapVars, HeapInv, LiveOK, Sound, Ordered, Inside, Outside, End, LiveEnd
  <2> QED BY <2>1, <2>2, <2>3, Zenon DEF HeapNext
<1> QED BY <1>1, <1>2, PTL DEF HeapSpec

(* No byte of the heap is with two callers, or with a caller and in the free
   list; every block is aligned as asked and inside what is mapped. *)
THEOREM BytesGivenOnce == HeapSpec => []NoOverlap
<1>1. ASSUME HeapInv PROVE NoOverlap
  <2>1. \A b \in live : /\ b.addr \in Nat /\ LiveEnd(b) \in Nat
                        /\ Bytes(b) = b.addr..(LiveEnd(b) - 1)
                        /\ b.addr % b.layout[2] = 0
                        /\ HeapStart <= b.addr /\ LiveEnd(b) <= mapped_end
                        /\ Outside(list, b.addr, LiveEnd(b))
    BY <1>1, LiveFacts, SMTT(30) DEF HeapInv, LiveOK, Bytes, LiveEnd
  <2>2. \A b, c \in live : b # c => Bytes(b) \cap Bytes(c) = {}
    BY <1>1, <2>1, SMTT(30) DEF HeapInv, LiveOK
  <2>3. \A i \in DOMAIN list : list[i].addr \in Nat /\ End(list[i]) \in Nat
    BY <1>1, SMTT(30) DEF HeapInv, Sound, FreeBlock, End
  <2>4. \A b \in live, i \in DOMAIN list : Bytes(b) \cap FreeBytes(list[i]) = {}
    BY <2>1, <2>3, SMTT(30) DEF Outside, FreeBytes
  <2>5. \A b \in live : Bytes(b) \subseteq HeapStart..(mapped_end - 1)
    BY <1>1, <2>1, HeapAssumption, SMTT(30) DEF HeapInv
  <2> QED BY <2>1, <2>2, <2>4, <2>5, Zenon DEF NoOverlap
<1> QED BY <1>1, HeapInvariant, PTL

(* The free list is in address order and inside the heap, and two of its blocks
   never touch: insert has merged whatever was freed, in whatever order. *)
THEOREM FreeListMerged == HeapSpec => []Coalesced
<1>1. ASSUME HeapInv PROVE Coalesced
  <2>1. /\ Len(list) \in Nat /\ DOMAIN list = 1..Len(list)
        /\ \A i \in DOMAIN list : /\ list[i].addr \in Nat /\ End(list[i]) \in Nat
                                  /\ list[i].size >= MinBlock
                                  /\ HeapStart <= list[i].addr /\ End(list[i]) <= mapped_end
    BY <1>1, SMTT(30) DEF HeapInv, Sound, FreeBlock, End, Inside
  <2>2. \A i \in DOMAIN list : FreeBytes(list[i]) \subseteq HeapStart..(mapped_end - 1)
    BY <1>1, <2>1, HeapAssumption, SMTT(30) DEF HeapInv, FreeBytes
  <2>3. \A i \in 1..(Len(list) - 1) : End(list[i]) < list[i + 1].addr
    BY <1>1, <2>1, SMTT(30) DEF HeapInv, Sound, Ordered
  <2> QED BY <2>1, <2>2, <2>3, Zenon DEF Coalesced
<1> QED BY <1>1, HeapInvariant, PTL

-----------------------------------------------------------------------------
(* alloc_contiguous                                                          *)

LoopTypes ==
  /\ frame \in Nat /\ run \in Nat /\ start \in Nat /\ first \in Nat /\ left \in Nat
  /\ count \in Nat \ {0} /\ pc \in {"scan", "fill", "some", "none"}

(* No run of the wanted length starts below n. *)
NoneBelow(n) == \A s \in Nat : s < n => ~ClearRun(s, count)

(* What the search knows at every iteration: the last `run` bits looked at are
   clear, and no run of the wanted length starts before them. *)
Searching ==
  pc = "scan" =>
    /\ bitmap = before
    /\ run < count /\ run <= frame
    /\ run > 0 => start = frame - run
    /\ \A b \in (frame - run)..(frame - 1) : b \notin before
    /\ NoneBelow(frame - run)

(* What the fill knows: it is inside the run that was found, and the bits
   before `first` are set. *)
Filling ==
  pc = "fill" =>
    /\ ClearRun(start, count) /\ NoneBelow(start)
    /\ start <= first /\ first + left = start + count
    /\ bitmap = before \cup start..(first - 1)

ScanInv == LoopTypes /\ Searching /\ Filling /\ FirstFit

(* A set bit ends the run: if none starts before the run counted up to `frame`,
   and the bits frame..n-1 are set, then none starts before n. *)
LEMMA Blocked ==
  ASSUME LoopTypes, run < count, run <= frame, NoneBelow(frame - run),
         NEW n \in Nat, frame < n, \A b \in frame..(n - 1) : b \in before
  PROVE  NoneBelow(n)
<1> SUFFICES ASSUME NEW s \in Nat, s < n, frame - run <= s, ClearRun(s, count) PROVE FALSE
  BY SMTT(30) DEF NoneBelow, LoopTypes
<1>1. CASE s <= frame
  <2>1. frame \in s..(s + count - 1) /\ frame \in frame..(n - 1)
    BY <1>1, SMTT(30) DEF LoopTypes
  <2> QED BY <2>1, Zenon DEF ClearRun
<1>2. CASE s > frame
  <2>1. s \in s..(s + count - 1) /\ s \in frame..(n - 1)
    BY <1>2, SMTT(30) DEF LoopTypes
  <2> QED BY <2>1, Zenon DEF ClearRun
<1> QED BY <1>1, <1>2, SMTT(30) DEF LoopTypes

(* A call begins inside the invariant. *)
LEMMA InitOK == Init => ScanInv
<1> SUFFICES ASSUME Init PROVE ScanInv
  BY Zenon
<1>1. LoopTypes
  BY ScanAssumption, Zenon DEF Init, LoopTypes
<1>2. Searching
  BY ScanAssumption, SMTT(30) DEF Init, Searching, NoneBelow
<1>3. Filling /\ FirstFit
  BY Zenon DEF Init, Filling, FirstFit
<1> QED BY <1>1, <1>2, <1>3, Zenon DEF ScanInv

(* Skipping a full word loses no run. *)
LEMMA SkipOK == ASSUME ScanInv, skip_word PROVE ScanInv'
<1> USE DEF ScanInv
<1>1. LoopTypes'
  BY ScanAssumption, SMTT(30) DEF skip_word, LoopTypes
<1>2. NoneBelow(frame + W)
  BY Blocked, ScanAssumption, SMTT(30) DEF skip_word, LoopTypes, Searching, WordFull
<1>3. Searching'
  BY <1>2, ScanAssumption, SMTT(30) DEF skip_word, LoopTypes, Searching, NoneBelow, ClearRun
<1>4. Filling' /\ FirstFit'
  BY Zenon DEF skip_word, Filling, FirstFit
<1> QED BY <1>1, <1>3, <1>4, Zenon

(* One bit looked at: the run ends, grows or is long enough. *)
LEMMA ScanOK == ASSUME ScanInv, scan_bit PROVE ScanInv'
<1> USE DEF ScanInv
<1>1. CASE frame \in bitmap
  <2>1. LoopTypes' /\ run' = 0 /\ frame' = frame + 1 /\ pc' = "scan"
        /\ UNCHANGED <<before, bitmap, count>>
    BY <1>1, SMTT(30) DEF scan_bit, LoopTypes
  <2>2. NoneBelow(frame + 1)
    BY <1>1, Blocked, SMTT(30) DEF scan_bit, LoopTypes, Searching
  <2>3. Searching'
    BY <2>1, <2>2, SMTT(30) DEF scan_bit, LoopTypes, Searching, NoneBelow, ClearRun
  <2> QED BY <2>1, <2>3, Zenon DEF Filling, FirstFit
<1>2. CASE frame \notin bitmap
  <2>1. /\ LoopTypes' /\ run' = run + 1 /\ start' = frame - run
        /\ UNCHANGED <<before, bitmap, count>>
    BY <1>2, SMTT(30) DEF scan_bit, LoopTypes, Searching
  <2>2. \A b \in (frame - run)..frame : b \notin before
    BY <1>2, SMTT(30) DEF scan_bit, LoopTypes, Searching
  <2>3. NoneBelow(frame - run)
    BY Zenon DEF scan_bit, Searching
  <2>4. CASE run' = count
    <3>1. pc' = "fill" /\ first' = start' /\ left' = count
      BY <1>2, <2>4, Zenon DEF scan_bit
    <3>2. ClearRun(start, count)'
      BY ScanAssumption, <2>1, <2>2, <2>4, SMTT(30) DEF ClearRun, LoopTypes, scan_bit
    <3>3. NoneBelow(start)'
      BY <2>1, <2>3, Zenon DEF NoneBelow, ClearRun
    <3>4. bitmap' = before' \cup (start')..(first' - 1)
      BY <2>1, <3>1, SMTT(30) DEF LoopTypes, scan_bit, Searching
    <3> QED BY <2>1, <3>1, <3>2, <3>3, <3>4, SMTT(30) DEF Searching, Filling, FirstFit, LoopTypes
  <2>5. CASE run' # count
    <3>1. pc' = "scan" /\ frame' = frame + 1
      BY <1>2, <2>5, Zenon DEF scan_bit
    <3>2. Searching'
      BY <2>1, <2>2, <2>3, <2>5, <3>1, SMTT(30) DEF Searching, scan_bit, LoopTypes, NoneBelow, ClearRun
    <3> QED BY <2>1, <3>1, <3>2, Zenon DEF Filling, FirstFit
  <2> QED BY <2>4, <2>5, Zenon
<1> QED BY <1>1, <1>2, Zenon

(* Giving up: a run that began inside the bits just counted would end past the
   last frame. *)
LEMMA FailOK == ASSUME ScanInv, scan_fails PROVE ScanInv'
<1> USE DEF ScanInv
<1>1. LoopTypes' /\ Searching' /\ Filling'
  BY Zenon DEF scan_fails, LoopTypes, Searching, Filling
<1>2. ASSUME NEW s \in Frame, ClearRun(s, count) PROVE FALSE
  <2>1. s \in Nat /\ s + count <= TotalFrames
    BY <1>2, ScanAssumption, SMTT(30) DEF Frame, ClearRun
  <2>2. s < frame - run
    BY <2>1, ScanAssumption, SMTT(30) DEF scan_fails, Searching, LoopTypes
  <2> QED BY <1>2, <2>1, <2>2, Zenon DEF scan_fails, Searching, NoneBelow
<1>3. FirstFit'
  BY <1>2, Zenon DEF scan_fails, Searching, FirstFit, ClearRun
<1> QED BY <1>1, <1>3, Zenon

(* The fill sets the bits of the run and no other. *)
LEMMA FillOK == ASSUME ScanInv, fill_bit \/ fill_word PROVE ScanInv'
<1> USE DEF ScanInv
<1> DEFINE step == first' - first
<1>1. /\ step \in 1..left /\ first' = first + step /\ left' = left - step
      /\ bitmap' = bitmap \cup first..(first + step - 1)
      /\ pc = "fill" /\ UNCHANGED <<before, count, frame, run, start, pc>>
  BY ScanAssumption, SMTT(30) DEF fill_bit, fill_word, LoopTypes
<1> HIDE DEF step
<1>2. LoopTypes'
  BY <1>1, SMTT(30) DEF LoopTypes
<1>3. bitmap' = before' \cup (start')..(first' - 1)
  BY <1>1, SMTT(30) DEF LoopTypes, Filling
<1>4. Filling'
  BY <1>1, <1>3, SMTT(30) DEF LoopTypes, Filling, ClearRun, NoneBelow
<1> QED BY <1>1, <1>2, <1>4, Zenon DEF Searching, FirstFit

(* The fill is over when the whole run is set. *)
LEMMA DoneOK == ASSUME ScanInv, fill_done PROVE ScanInv'
<1> USE DEF ScanInv
<1>1. LoopTypes' /\ Searching' /\ Filling'
  BY Zenon DEF fill_done, LoopTypes, Searching, Filling
<1>2. first = start + count
  BY SMTT(30) DEF fill_done, LoopTypes, Filling
<1>3. FirstFit'
  BY <1>2, SMTT(30) DEF fill_done, LoopTypes, Filling, FirstFit, ClearRun, NoneBelow
<1> QED BY <1>1, <1>3, Zenon

(* The loop invariant holds at every iteration, whatever bitmap the call finds. *)
THEOREM Invariant == Spec => []ScanInv
<1>1. Init => ScanInv
  BY InitOK, Zenon
<1>2. ScanInv /\ [Next]_vars => ScanInv'
  <2> SUFFICES ASSUME ScanInv, [Next]_vars PROVE ScanInv'
    BY Zenon
  <2>1. CASE UNCHANGED vars
    BY <2>1, ZenonT(30) DEF vars, ScanInv, LoopTypes, Searching, Filling, FirstFit, NoneBelow, ClearRun
  <2> QED BY <2>1, SkipOK, ScanOK, FailOK, FillOK, DoneOK, Zenon DEF Next
<1> QED BY <1>1, <1>2, PTL DEF Spec

(* alloc_contiguous returns the lowest run there is, sets its bits and no other,
   and returns None only when no run is long enough -- for any word size, number
   of frames, count and bitmap. *)
THEOREM AllocContiguousFirstFit == Spec => []FirstFit
BY Invariant, PTL DEF ScanInv
=============================================================================
