------------------------------ MODULE PmmProofs ------------------------------
(***************************************************************************)
(* What the frame allocator of Pmm guarantees for every size of memory,    *)
(* every word width and every split into usable and reclaimable frames.    *)
(***************************************************************************)
EXTENDS Pmm, FiniteSetTheorems, TLAPS

(* The inductive invariant: HintSound needs nothing else, FramesConserved keeps
   the reclaimed frames apart from the free and the owned ones, which CountsExact
   needs to add cardinalities up. *)
IInv == TypeOK /\ FramesConserved /\ CountsExact /\ HintSound

(* A number below the modulus is its own remainder. *)
LEMMA ModSmall == ASSUME NEW b \in Nat \ {0}, NEW x \in 0..(b - 1) PROVE x % b = x
  BY SMTT(30)

(* The bitmap has room for every frame. *)
LEMMA WordsType == bitmap_words \in Nat \ {0} /\ TotalFrames <= bitmap_words * W
  BY PmmAssumption, SMTT(30) DEF bitmap_words

(* A lower frame is in a lower word or the same. *)
LEMMA WordMono == ASSUME NEW a \in Nat, NEW b \in Nat, a <= b
                  PROVE  word(a) \in Nat /\ word(a) <= word(b)
  BY PmmAssumption, SMTT(30) DEF word

(* Every bit is in a word of the bitmap. *)
LEMMA WordRange == ASSUME NEW f \in Bit PROVE word(f) \in Word
  BY PmmAssumption, WordsType, SMTT(30) DEF word, Bit, Word

(* Every frame has a bit, and there are finitely many. *)
LEMMA BitFacts == Frame \subseteq Bit /\ Bit \subseteq Nat /\ IsFiniteSet(Bit)
<1>1. Frame \subseteq Bit /\ Bit \subseteq Nat
  BY PmmAssumption, WordsType, SMTT(30) DEF Frame, Bit
<1>2. bitmap_words * W - 1 \in Int
  BY PmmAssumption, WordsType, SMTT(30)
<1> QED BY <1>1, <1>2, FS_Interval, SMTT(30) DEF Bit

(* A run of count frames has count elements. *)
LEMMA RunSize == ASSUME NEW s \in Nat, NEW c \in Nat \ {0}
                 PROVE  IsFiniteSet(run(s, c)) /\ Cardinality(run(s, c)) = c
<1>1. s + c - 1 \in Int /\ ~(s > s + c - 1) /\ s + c - 1 - s + 1 = c
  BY SMTT(30)
<1> QED BY <1>1, FS_Interval, SMTT(30) DEF run

(* Taking a set of free frames out of the free set lowers its cardinality by
   the size of the set, and adding it to the owned frames raises theirs. *)
LEMMA Moved == ASSUME NEW A, NEW B, NEW X, IsFiniteSet(A), IsFiniteSet(B),
                      X \subseteq A, A \cap B = {}
               PROVE  /\ IsFiniteSet(X) /\ Cardinality(X) \in Nat
                      /\ Cardinality(A \ X) = Cardinality(A) - Cardinality(X)
                      /\ Cardinality(B \cup X) = Cardinality(B) + Cardinality(X)
<1>1. IsFiniteSet(X) /\ Cardinality(X) \in Nat
  BY FS_Subset, FS_CardinalityType, Zenon
<1>2. Cardinality(A \ X) = Cardinality(A) - Cardinality(A \cap X)
  BY FS_Difference, Zenon
<1>3. A \cap X = X /\ B \cap X = {}
  BY Zenon
<1>4. Cardinality(B \cup X) = Cardinality(B) + Cardinality(X) - Cardinality(B \cap X)
  BY <1>1, FS_Union, Zenon
<1>5. Cardinality(A \cap X) = Cardinality(X) /\ Cardinality(B \cap X) = 0
  BY <1>3, FS_EmptySet, Zenon
<1>6. Cardinality(B) \in Nat
  BY FS_CardinalityType, Zenon
<1>7. Cardinality(A \ X) = Cardinality(A) - Cardinality(X)
  BY <1>2, <1>5, Zenon
<1>8. Cardinality(B \cup X) = Cardinality(B) + Cardinality(X)
  BY <1>1, <1>4, <1>5, <1>6, SMTT(30)
<1> QED BY <1>1, <1>7, <1>8, Zenon

(* The free and the owned frames are finite sets. *)
LEMMA FiniteParts == ASSUME TypeOK
                     PROVE  IsFiniteSet(FreeSet) /\ IsFiniteSet(owned)
  BY BitFacts, FS_Subset, Zenon DEF TypeOK, FreeSet

(* The scan of alloc_one starts at next_hint and meets the lowest free frame:
   it never has to go round the end, since no word before the hint has a clear
   bit. *)
LEMMA ScanLowest ==
  ASSUME IInv, NEW n \in Word, NEW f \in Bit, LowestClear(scanned(n), f),
         \A m \in 0..(n - 1) : ~HasClearBit(scanned(m))
  PROVE  f \in FreeSet /\ word(f) = scanned(n) /\ \A g \in FreeSet : f <= g /\ scanned(n) <= word(g)
<1>1. f \in FreeSet /\ word(f) = scanned(n) /\ next_hint <= word(f)
  BY Zenon DEF LowestClear, FreeSet, IInv, HintSound
<1>2. next_hint \in Nat /\ n \in Nat /\ n < bitmap_words /\ next_hint < bitmap_words
  BY WordsType, SMTT(30) DEF IInv, TypeOK, Word
<1>3. scanned(n) = next_hint + n
  BY <1>1, <1>2, WordsType, SMTT(30) DEF scanned
<1>4. ASSUME NEW g \in FreeSet PROVE scanned(n) <= word(g)
  <2>1. next_hint <= word(g) /\ word(g) \in Nat /\ g \in Bit /\ g \notin bitmap
    BY <1>4, WordRange, SMTT(30) DEF FreeSet, IInv, HintSound, Word
  <2>2. SUFFICES ASSUME word(g) < next_hint + n PROVE FALSE
    BY <1>2, <1>3, <2>1, SMTT(30)
  <2> DEFINE m == word(g) - next_hint
  <2>3. m \in 0..(n - 1) /\ next_hint + m = word(g)
    BY <1>2, <2>1, <2>2, SMTT(30)
  <2>4. word(g) \in 0..(bitmap_words - 1)
    BY <2>1, WordRange, Zenon DEF Word
  <2>5. scanned(m) = word(g)
    BY <2>3, <2>4, ModSmall, WordsType, Zenon DEF scanned
  <2> QED BY <2>1, <2>3, <2>5, Zenon DEF HasClearBit
<1>5. ASSUME NEW g \in FreeSet PROVE f <= g
  <2>1. f \in Nat /\ g \in Nat /\ g \in Bit /\ g \notin bitmap
    BY BitFacts, Zenon DEF FreeSet
  <2>2. CASE word(g) = scanned(n)
    BY <2>1, <2>2, Zenon DEF LowestClear
  <2>3. CASE word(g) # scanned(n)
    <3>1. ~(word(g) <= word(f))
      BY <1>1, <1>4, <2>3, WordRange, SMTT(30) DEF Word, FreeSet
    <3> QED BY <3>1, <2>1, WordMono, SMTT(30)
  <2> QED BY <2>2, <2>3, Zenon
<1> QED BY <1>1, <1>4, <1>5, Zenon

(* init establishes the invariant. *)
LEMMA InitOK == Init => IInv
<1> SUFFICES ASSUME Init PROVE IInv
  BY Zenon
<1>1. Usable \subseteq Bit
  BY BitFacts, PmmAssumption, Zenon DEF Frame
<1>2. IsFiniteSet(Usable) /\ Cardinality(Usable) \in Nat /\ Cardinality({}) = 0
  BY <1>1, BitFacts, FS_Subset, FS_CardinalityType, FS_EmptySet, Zenon
<1>3. FreeSet = Usable
  BY <1>1, Zenon DEF Init, FreeSet
<1>4. TypeOK
  <2>1. 0 \in Word
    BY WordsType, SMTT(30) DEF Word
  <2> QED BY <2>1, <1>2, Zenon DEF Init, TypeOK
<1>5. FramesConserved /\ CountsExact
  BY <1>2, <1>3, SMTT(30) DEF Init, FramesConserved, CountsExact, Managed
<1>6. HintSound
  <2> SUFFICES ASSUME NEW f \in FreeSet PROVE next_hint <= word(f)
    BY Zenon DEF HintSound
  <2>1. word(f) \in Word
    BY WordRange, Zenon DEF FreeSet
  <2> QED BY <2>1, WordsType, SMTT(30) DEF Init, Word
<1> QED BY <1>4, <1>5, <1>6, Zenon DEF IInv

(* alloc_one preserves the invariant: it moves one frame from free to owned, and
   the new hint is the word of the lowest free frame. *)
LEMMA AllocOneOK == ASSUME IInv, alloc_one PROVE IInv'
<1>1. PICK n \in Word, f \in Bit :
        /\ LowestClear(scanned(n), f)
        /\ \A m \in 0..(n - 1) : ~HasClearBit(scanned(m))
        /\ bitmap' = bitmap \cup {f}
        /\ free_frames' = free_frames - 1
        /\ next_hint' = scanned(n)
        /\ owned' = owned \cup {f}
  BY Zenon DEF alloc_one
<1>2. /\ f \in FreeSet /\ word(f) = scanned(n)
      /\ \A g \in FreeSet : f <= g /\ scanned(n) <= word(g)
  BY <1>1, ScanLowest, Zenon
<1>3. FreeSet' = FreeSet \ {f} /\ Managed' = Managed /\ UNCHANGED <<usable_frames, reclaimed>>
  BY <1>1, Zenon DEF FreeSet, alloc_one, Managed
<1>4. /\ Cardinality(FreeSet \ {f}) = Cardinality(FreeSet) - 1
      /\ Cardinality(owned \cup {f}) = Cardinality(owned) + 1
  <2>1. IsFiniteSet(FreeSet) /\ IsFiniteSet(owned)
    BY FiniteParts, Zenon DEF IInv
  <2>2. f \in FreeSet /\ f \notin owned
    BY <1>2, Zenon DEF IInv, FramesConserved
  <2> QED BY <2>1, <2>2, FS_RemoveElement, FS_AddElement, Zenon
<1>5. Cardinality(FreeSet) \in Nat /\ Cardinality(owned) \in Nat /\ free_frames - 1 \in Nat
  <2>1. free_frames \in Nat /\ free_frames # 0
    BY Zenon DEF IInv, TypeOK, alloc_one
  <2> QED BY <2>1, FiniteParts, FS_CardinalityType, SMTT(30) DEF IInv
<1>6. TypeOK'
  BY <1>1, <1>2, <1>3, <1>5, WordRange, Zenon DEF IInv, TypeOK
<1>7. FramesConserved'
  BY <1>1, <1>2, <1>3, Zenon DEF IInv, FramesConserved
<1>8. CountsExact'
  BY <1>1, <1>3, <1>4, <1>5, SMTT(30) DEF IInv, CountsExact
<1>9. HintSound'
  BY <1>1, <1>2, <1>3, Zenon DEF HintSound
<1> QED BY <1>6, <1>7, <1>8, <1>9, Zenon DEF IInv

(* alloc_contiguous preserves the invariant: it moves a run of free frames. *)
LEMMA AllocContiguousOK ==
  ASSUME IInv, NEW count \in 2..MaxCount, alloc_contiguous(count) PROVE IInv'
<1>1. PICK start \in Frame :
        /\ Fits(start, count)
        /\ bitmap' = bitmap \cup run(start, count)
        /\ owned' = owned \cup run(start, count)
  BY Zenon DEF alloc_contiguous
<1> DEFINE R == run(start, count)
<1>2. start \in Nat /\ count \in Nat \ {0} /\ start + count <= TotalFrames /\ R \subseteq Frame
  BY <1>1, PmmAssumption, SMTT(30) DEF Frame, Fits, run
<1>3. R \subseteq FreeSet
  BY <1>1, <1>2, BitFacts, Zenon DEF FreeSet, Fits
<1>4. /\ FreeSet' = FreeSet \ R /\ Managed' = Managed /\ free_frames' = free_frames - count
      /\ UNCHANGED <<usable_frames, reclaimed, next_hint>>
  BY <1>1, Zenon DEF FreeSet, alloc_contiguous, Managed
<1>5. Cardinality(R) = count
  BY <1>2, RunSize, Zenon
<1> HIDE DEF R
<1>6. /\ Cardinality(FreeSet \ R) = Cardinality(FreeSet) - count
      /\ Cardinality(owned \cup R) = Cardinality(owned) + count
  <2>1. IsFiniteSet(FreeSet) /\ IsFiniteSet(owned) /\ FreeSet \cap owned = {}
    BY FiniteParts, Zenon DEF IInv, FramesConserved
  <2>2. Cardinality(FreeSet \ R) = Cardinality(FreeSet) - Cardinality(R)
    BY <2>1, <1>3, Moved, ZenonT(60)
  <2>3. Cardinality(owned \cup R) = Cardinality(owned) + Cardinality(R)
    BY <2>1, <1>3, Moved, ZenonT(60)
  <2> QED BY <2>2, <2>3, <1>5, Zenon
<1>7. Cardinality(FreeSet) \in Nat /\ Cardinality(owned) \in Nat /\ free_frames - count \in Nat
  <2>1. free_frames \in Nat /\ count <= free_frames
    BY Zenon DEF IInv, TypeOK, alloc_contiguous
  <2> QED BY <2>1, FiniteParts, FS_CardinalityType, SMTT(30) DEF IInv
<1>8. bitmap' = bitmap \cup R /\ owned' = owned \cup R
  BY <1>1, Zenon DEF R
<1>9. TypeOK'
  BY <1>3, <1>4, <1>7, <1>8, Zenon DEF IInv, TypeOK, FreeSet
<1>10. FramesConserved'
  BY <1>3, <1>4, <1>8, Zenon DEF IInv, FramesConserved
<1>11. CountsExact'
  BY <1>2, <1>4, <1>6, <1>7, <1>8, SMTT(30) DEF IInv, CountsExact
<1>12. HintSound'
  BY <1>4, Zenon DEF IInv, HintSound
<1> QED BY <1>9, <1>10, <1>11, <1>12, Zenon DEF IInv

(* free preserves the invariant, whether it accepts the range or rejects it. *)
LEMMA FreeOK ==
  ASSUME IInv, NEW first \in 0..TotalFrames, NEW aligned \in BOOLEAN,
         NEW count \in 0..MaxCount, free(first, aligned, count)
  PROVE  IInv'
<1>1. CASE UNCHANGED vars
  BY <1>1, Zenon DEF vars, IInv, TypeOK, FramesConserved, CountsExact, HintSound,
              FreeSet, Managed
<1>2. CASE ~UNCHANGED vars
  <2> DEFINE R == run(first, count)
  <2>1. /\ count > 0 /\ ~FreeError(first, aligned, count) /\ R \subseteq owned
        /\ bitmap' = bitmap \ R /\ owned' = owned \ R
        /\ free_frames' = free_frames + count
        /\ next_hint' = hint_after_free(first)
        /\ UNCHANGED <<usable_frames, reclaimed>>
    BY <1>2, Zenon DEF free
  <2>2. first \in Nat /\ count \in Nat \ {0}
    BY <2>1, PmmAssumption, SMTT(30)
  <2>3. \A f \in R : f \in Nat /\ first <= f
    BY <2>2, SMTT(30) DEF run
  <2>4. Cardinality(R) = count
    BY <2>2, RunSize, Zenon
  <2> HIDE DEF R
  <2>5. R \subseteq Bit /\ FreeSet' = FreeSet \cup R /\ Managed' = Managed
    BY <2>1, Zenon DEF FreeSet, Managed, IInv, TypeOK
  <2>6. /\ Cardinality(owned \ R) = Cardinality(owned) - count
        /\ Cardinality(FreeSet \cup R) = Cardinality(FreeSet) + count
    <3>1. IsFiniteSet(FreeSet) /\ IsFiniteSet(owned) /\ owned \cap FreeSet = {}
      BY FiniteParts, Zenon DEF IInv, FramesConserved
    <3>2. R \subseteq owned
      BY <2>1, Zenon
    <3>3. Cardinality(owned \ R) = Cardinality(owned) - Cardinality(R)
      BY <3>1, <3>2, Moved, ZenonT(60)
    <3>4. Cardinality(FreeSet \cup R) = Cardinality(FreeSet) + Cardinality(R)
      BY <3>1, <3>2, Moved, ZenonT(60)
    <3> QED BY <3>3, <3>4, <2>4, Zenon
  <2>7. Cardinality(FreeSet) \in Nat /\ Cardinality(owned) \in Nat /\ free_frames \in Nat
    BY FiniteParts, FS_CardinalityType, Zenon DEF IInv, TypeOK
  <2>8. word(first) \in Nat /\ next_hint \in Nat
    BY <2>2, WordMono, WordsType, SMTT(30) DEF IInv, TypeOK, Word
  <2>9. next_hint' \in Word /\ next_hint' <= next_hint /\ next_hint' <= word(first)
    BY <2>1, <2>8, WordsType, SMTT(30) DEF hint_after_free, IInv, TypeOK, Word
  <2>10. TypeOK'
    BY <2>1, <2>2, <2>7, <2>9, SMTT(30) DEF IInv, TypeOK
  <2>11. FramesConserved'
    BY <2>1, <2>5, Zenon DEF IInv, FramesConserved
  <2>12. CountsExact'
    BY <2>1, <2>2, <2>5, <2>6, <2>7, SMTT(30) DEF IInv, CountsExact
  <2>13. HintSound'
    <3> SUFFICES ASSUME NEW f \in FreeSet' PROVE next_hint' <= word(f)
      BY Zenon DEF HintSound, word
    <3>1. word(f) \in Nat /\ next_hint' \in Nat
      BY <2>5, <2>9, WordRange, WordsType, SMTT(30) DEF FreeSet, Word
    <3>2. CASE f \in R
      BY <3>1, <3>2, <2>2, <2>3, <2>8, <2>9, WordMono, SMTT(30)
    <3>3. CASE f \in FreeSet
      BY <3>1, <3>3, <2>8, <2>9, SMTT(30) DEF IInv, HintSound
    <3> QED BY <3>2, <3>3, <2>5, Zenon
  <2> QED BY <2>10, <2>11, <2>12, <2>13, Zenon DEF IInv
<1> QED BY <1>1, <1>2, Zenon

(* The reclaim preserves the invariant: its frames were neither free nor owned. *)
LEMMA ReclaimOK == ASSUME IInv, reclaim_bootloader_memory PROVE IInv'
<1>1. Reclaimable \subseteq Bit /\ IsFiniteSet(Reclaimable)
  BY BitFacts, PmmAssumption, FS_Subset, Zenon DEF Frame
<1>2. Cardinality(Reclaimable) \in Nat
  BY <1>1, FS_CardinalityType, Zenon
<1>3. Managed = Usable /\ Managed' = Usable \cup Reclaimable
  BY Zenon DEF Managed, reclaim_bootloader_memory
<1>4. FreeSet' = FreeSet \cup Reclaimable /\ owned' = owned
  BY <1>1, Zenon DEF FreeSet, reclaim_bootloader_memory
<1>5. FreeSet \cap Reclaimable = {} /\ owned \cap Reclaimable = {}
  BY <1>3, PmmAssumption, Zenon DEF IInv, FramesConserved
<1>6. Cardinality(FreeSet \cup Reclaimable) = Cardinality(FreeSet) + Cardinality(Reclaimable)
  <2>1. IsFiniteSet(FreeSet) /\ Cardinality(FreeSet) \in Nat
    BY FiniteParts, FS_CardinalityType, Zenon DEF IInv
  <2>2. Cardinality(FreeSet \cap Reclaimable) = 0
    BY <1>5, FS_EmptySet, Zenon
  <2>3. Cardinality(FreeSet \cup Reclaimable) =
          Cardinality(FreeSet) + Cardinality(Reclaimable) - Cardinality(FreeSet \cap Reclaimable)
    BY <1>1, <2>1, FS_Union, Zenon
  <2> QED BY <1>2, <2>1, <2>2, <2>3, SMTT(30)
<1>7. Cardinality(FreeSet) \in Nat /\ Cardinality(owned) \in Nat
  BY FiniteParts, FS_CardinalityType, Zenon DEF IInv
<1>8. TypeOK'
  BY <1>2, WordsType, SMTT(30) DEF IInv, TypeOK, reclaim_bootloader_memory, Word
<1>9. FramesConserved'
  BY <1>3, <1>4, <1>5, Zenon DEF IInv, FramesConserved
<1>10. CountsExact'
  BY <1>2, <1>4, <1>6, <1>7, SMTT(30) DEF IInv, CountsExact, reclaim_bootloader_memory
<1>11. HintSound'
  <2> SUFFICES ASSUME NEW f \in FreeSet' PROVE next_hint' <= word(f)
    BY Zenon DEF HintSound, word
  <2>1. word(f) \in Word
    BY <1>1, <1>4, WordRange, Zenon DEF FreeSet
  <2> QED BY <2>1, WordsType, SMTT(30) DEF reclaim_bootloader_memory, Word
<1> QED BY <1>8, <1>9, <1>10, <1>11, Zenon DEF IInv

(* The allocator's invariant holds for ever: types, frames, counts and hint. *)
THEOREM Invariant == Spec => []IInv
<1>1. ASSUME IInv, Next PROVE IInv'
  BY <1>1, AllocOneOK, AllocContiguousOK, FreeOK, ReclaimOK, Zenon DEF Next
<1>2. ASSUME IInv, UNCHANGED vars PROVE IInv'
  BY <1>2, Zenon DEF vars, IInv, TypeOK, FramesConserved, CountsExact, HintSound,
              FreeSet, Managed
<1> QED BY InitOK, <1>1, <1>2, PTL DEF Spec

(* No frame is handed out twice, lost, or handed out without being managed. *)
THEOREM Conservation == Spec => []FramesConserved
<1>1. IInv => FramesConserved
  BY Zenon DEF IInv
<1> QED BY Invariant, <1>1, PTL

(* The counts that gate allocation are exact. *)
THEOREM Counts == Spec => []CountsExact
<1>1. IInv => CountsExact
  BY Zenon DEF IInv
<1> QED BY Invariant, <1>1, PTL

(* The hint never hides a free frame. *)
THEOREM Hint == Spec => []HintSound
<1>1. IInv => HintSound
  BY Zenon DEF IInv
<1> QED BY Invariant, <1>1, PTL

(* alloc_one always takes the lowest free frame. *)
THEOREM Lowest == Spec => AllocLowest
<1> DEFINE A == alloc_one => \E f \in FreeSet : bitmap' = bitmap \cup {f} /\ \A g \in FreeSet : f <= g
<1>1. ASSUME IInv, Next PROVE A
  <2> SUFFICES ASSUME alloc_one
               PROVE \E f \in FreeSet : bitmap' = bitmap \cup {f} /\ \A g \in FreeSet : f <= g
    BY Zenon
  <2>1. PICK n \in Word, f \in Bit :
          /\ LowestClear(scanned(n), f)
          /\ \A m \in 0..(n - 1) : ~HasClearBit(scanned(m))
          /\ bitmap' = bitmap \cup {f}
    BY Zenon DEF alloc_one
  <2> QED BY <2>1, <1>1, ScanLowest, Zenon
<1>2. IInv /\ [Next]_vars => [A]_vars
  BY <1>1, Zenon
<1> QED BY Invariant, <1>2, PTL DEF Spec, AllocLowest
=============================================================================
