--------------------------------- MODULE Pmm ---------------------------------
(***************************************************************************)
(* The physical frame allocator of src/src/pmm.rs: a bitmap with one bit   *)
(* per frame (set = not available), a count of the free frames and a word  *)
(* index below which alloc_one does not look first.  Every operation runs  *)
(* under the PMM lock with interrupts off and is one step.                 *)
(***************************************************************************)
EXTENDS Integers, FiniteSets

CONSTANTS
  W,             \* the bits of a bitmap word, 64 in the code
  TotalFrames,   \* total_frames
  Usable,        \* the frames init leaves available
  Reclaimable,   \* the whole frames of BootloaderReclaimable regions
  MaxCount       \* bound: the longest run clients ask for

ASSUME PmmAssumption ==
  /\ W \in Nat \ {0} /\ TotalFrames \in Nat \ {0} /\ MaxCount \in Nat
  /\ Usable \subseteq 0..(TotalFrames - 1)
  /\ Reclaimable \subseteq 0..(TotalFrames - 1)
  /\ Usable \cap Reclaimable = {}     \* memory map entries do not overlap

Frame == 0..(TotalFrames - 1)
bitmap_words == (TotalFrames + W - 1) \div W
Word == 0..(bitmap_words - 1)
Bit == 0..(bitmap_words * W - 1)   \* the last word may reach past the frames

word(f) == f \div W                \* which bitmap word holds bit f

VARIABLES
  bitmap,          \* the set bits: frames in use, reserved, or past the end
  free_frames, usable_frames, next_hint,
  reclaimed,       \* reclaim_bootloader_memory has been called
  owned            \* the frames clients were given and have not freed

vars == <<bitmap, free_frames, usable_frames, next_hint, reclaimed, owned>>

(* init: every bit set, then the usable frames that do not hold the bitmap
   itself cleared (MemoryMap has the details). *)
Init ==
  /\ bitmap = Bit \ Usable
  /\ free_frames = Cardinality(Usable)
  /\ usable_frames = Cardinality(Usable)
  /\ next_hint = 0
  /\ reclaimed = FALSE
  /\ owned = {}

-----------------------------------------------------------------------------
(* The word != !0 test, for the word's bits. *)
HasClearBit(w) == \E f \in Bit : word(f) = w /\ f \notin bitmap

(* The n-th word the scan looks at. *)
scanned(n) == (next_hint + n) % bitmap_words

(* (!word).trailing_zeros() *)
LowestClear(w, f) ==
  /\ f \in Bit /\ word(f) = w /\ f \notin bitmap
  /\ \A g \in Bit : word(g) = w /\ g \notin bitmap => f <= g

(* alloc_one finds frame f in word w, the first word from next_hint on, round
   the end, that is not full. *)
alloc_one ==
  /\ free_frames # 0
  /\ \E n \in Word, f \in Bit :
       /\ LowestClear(scanned(n), f)
       /\ \A m \in 0..(n - 1) : ~HasClearBit(scanned(m))
       /\ bitmap' = bitmap \cup {f}
       /\ free_frames' = free_frames - 1
       /\ next_hint' = scanned(n)
       /\ owned' = owned \cup {f}
  /\ UNCHANGED <<usable_frames, reclaimed>>

(* The frames of a request. *)
run(start, count) == start..(start + count - 1)

(* mutant: only the ends of the run are looked at *)
Fits_ends(start, count) ==
  start + count <= TotalFrames /\ {start, start + count - 1} \cap bitmap = {}

(* A run of count clear bits that ends inside total_frames. *)
Fits(start, count) ==
  start + count <= TotalFrames /\ \A f \in run(start, count) : f \notin bitmap

(* alloc_contiguous: the first run that fits, for more than one frame. *)
alloc_contiguous(count) ==
  /\ count > 1 /\ count <= free_frames
  /\ \E start \in Frame :
       /\ Fits(start, count)
       /\ \A s \in 0..(start - 1) : ~Fits(s, count)
       /\ bitmap' = bitmap \cup run(start, count)
       /\ owned' = owned \cup run(start, count)
  /\ free_frames' = free_frames - count
  /\ UNCHANGED <<usable_frames, next_hint, reclaimed>>

(* What free rejects: an unaligned address, a range that does not end inside
   total_frames, a frame whose bit is clear (a double free). *)
FreeError(first, aligned, count) ==
  \/ ~aligned
  \/ first + count > TotalFrames
  \/ \E f \in run(first, count) : f \notin bitmap

(* mutant: the hint is left alone *)
hint_after_free_stale(first) == next_hint

(* next_hint.min(first / 64) *)
hint_after_free(first) == IF word(first) < next_hint THEN word(first) ELSE next_hint

(* free of count frames from frame number first.  Callers may pass anything
   free rejects; what it accepts must be frames they were given, which the
   bitmap alone cannot tell from reserved ones. *)
free(first, aligned, count) ==
  \/ /\ count > 0 /\ ~FreeError(first, aligned, count)
     /\ run(first, count) \subseteq owned
     /\ bitmap' = bitmap \ run(first, count)
     /\ owned' = owned \ run(first, count)
     /\ free_frames' = free_frames + count
     /\ next_hint' = hint_after_free(first)
     /\ UNCHANGED <<usable_frames, reclaimed>>
  \/ /\ count = 0 \/ FreeError(first, aligned, count)
     /\ UNCHANGED vars

(* reclaim_bootloader_memory, which its (unsafe) contract allows once. *)
reclaim_bootloader_memory ==
  /\ ~reclaimed
  /\ reclaimed' = TRUE
  /\ bitmap' = bitmap \ Reclaimable
  /\ free_frames' = free_frames + Cardinality(Reclaimable)
  /\ usable_frames' = usable_frames + Cardinality(Reclaimable)
  /\ next_hint' = 0
  /\ UNCHANGED owned

Next ==
  \/ alloc_one
  \/ \E count \in 2..MaxCount : alloc_contiguous(count)
  \/ \E first \in 0..TotalFrames, aligned \in BOOLEAN, count \in 0..MaxCount :
       free(first, aligned, count)
  \/ reclaim_bootloader_memory

Spec == Init /\ [][Next]_vars

-----------------------------------------------------------------------------
TypeOK ==
  /\ bitmap \subseteq Bit
  /\ free_frames \in Nat /\ usable_frames \in Nat
  /\ next_hint \in Word
  /\ reclaimed \in BOOLEAN
  /\ owned \subseteq Bit

FreeSet == Bit \ bitmap
Managed == Usable \cup (IF reclaimed THEN Reclaimable ELSE {})

(* Every frame the allocator manages is either free or with exactly one client;
   no reserved frame, no frame of the bitmap and no bit past the end of memory
   is ever handed out. *)
FramesConserved == FreeSet \cup owned = Managed /\ FreeSet \cap owned = {}

(* The running counts are exact: free_frames is the number of clear bits, so
   the early returns of the allocation functions are right, and usable_frames
   what would be free with nothing allocated. *)
CountsExact ==
  /\ free_frames = Cardinality(FreeSet)
  /\ usable_frames = free_frames + Cardinality(owned)

(* No frame below next_hint's word is free: the hint makes alloc_one return the
   lowest free frame of the machine, not merely the next one. *)
HintSound == \A f \in FreeSet : next_hint <= word(f)

(* alloc_one takes the lowest free frame of the machine. *)
AllocLowest ==
  [][alloc_one => \E f \in FreeSet : bitmap' = bitmap \cup {f} /\ \A g \in FreeSet : f <= g]_vars
=============================================================================
