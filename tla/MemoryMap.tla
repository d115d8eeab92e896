------------------------------ MODULE MemoryMap ------------------------------
(***************************************************************************)
(* What becomes of the bootloader's memory map: the frame bitmap           *)
(* (src/src/pmm.rs, init and later reclaim_bootloader_memory) and the      *)
(* direct map of physical memory (src/src/vmm.rs, init).  Addresses are    *)
(* bytes.  For the bitmap only whole pages of a region count, and nothing  *)
(* below MinAlloc; the direct map has every page a region touches, in huge *)
(* pages where a whole one fits.                                           *)
(***************************************************************************)
EXTENDS Integers, Sequences, FiniteSets, FiniteSetsExt, SequencesExt

CONSTANTS
  PageSize,    \* 4096 in the code
  W,           \* the bits of a bitmap word, 64
  WordBytes,   \* its bytes, 8
  MinAlloc,    \* MIN_ALLOC_ADDR
  Huge,        \* the pages of a huge page, 512
  Maps         \* the memory maps: sequences of regions [base, len, kind]

VARIABLES map, state, total_frames, bitmap, free_frames, usable_frames, bitmap_at,
  direct       \* the direct map: [huge, small, wc, overwritten]

vars == <<map, state, total_frames, bitmap, free_frames, usable_frames, bitmap_at, direct>>
Unmapped == [huge |-> {}, small |-> {}, wc |-> {}, overwritten |-> FALSE]

Init ==
  /\ map \in Maps
  /\ state = "boot"
  /\ total_frames = 0 /\ bitmap = {} /\ free_frames = 0 /\ usable_frames = 0
  /\ bitmap_at = 0
  /\ direct = Unmapped

align_up(v, a) == ((v + a - 1) \div a) * a
align_down(v, a) == (v \div a) * a

Regions(kinds) == {i \in DOMAIN map : map[i].kind \in kinds}
End(i) == map[i].base + map[i].len

(* mutant: a region starts at the page it begins in *)
start_inside(i) == align_down(IF map[i].base > MinAlloc THEN map[i].base ELSE MinAlloc, PageSize)

(* The pages of region i that the allocator may use: [start, end). *)
start(i) == align_up(IF map[i].base > MinAlloc THEN map[i].base ELSE MinAlloc, PageSize)
end(i) == align_down(End(i), PageSize)
Frames(i) == (start(i) \div PageSize)..(end(i) \div PageSize - 1)

FrameCount(i) == IF end(i) > start(i) THEN (end(i) - start(i)) \div PageSize ELSE 0

highest == Max({End(i) : i \in Regions({"Usable", "BootloaderReclaimable"})} \cup {0})
bitmap_words(total) == (total + W - 1) \div W

bitmap_frames(total) == align_up(bitmap_words(total) * WordBytes, PageSize) \div PageSize

(* The usable regions the bitmap itself fits in. *)
Roomy(total) ==
  {i \in Regions({"Usable"}) :
     end(i) > start(i) /\ end(i) - start(i) >= bitmap_frames(total) * PageSize}

(* init gives up: no usable memory, or no room for the bitmap. *)
init_fails ==
  /\ state = "boot"
  /\ highest = 0 \/ Roomy(highest \div PageSize) = {}
  /\ state' = "failed"
  /\ UNCHANGED <<map, total_frames, bitmap, free_frames, usable_frames, bitmap_at, direct>>

(* init: all bits set, the usable regions cleared, the bitmap's own frames --
   at the start of the first region with room -- set again. *)
init ==
  LET total == highest \div PageSize
      usable == Regions({"Usable"})
      own == start(Min(Roomy(total))) \div PageSize
  IN  /\ state = "boot" /\ highest # 0 /\ Roomy(total) # {}
      /\ state' = "ready"
      /\ total_frames' = total
      /\ bitmap_at' = own
      /\ bitmap' = (0..(bitmap_words(total) * W - 1) \ UNION {Frames(i) : i \in usable})
                     \cup own..(own + bitmap_frames(total) - 1)
      /\ free_frames' = MapThenSumSet(FrameCount, usable) - bitmap_frames(total)
      /\ usable_frames' = free_frames'
      /\ UNCHANGED <<map, direct>>

(* reclaim_bootloader_memory, called at most once. *)
reclaim_bootloader_memory ==
  LET reclaimable == Regions({"BootloaderReclaimable"})
      frames == MapThenSumSet(FrameCount, reclaimable)
  IN  /\ state = "mapped"
      /\ state' = "reclaimed"
      /\ bitmap' = bitmap \ UNION {Frames(i) : i \in reclaimable}
      /\ free_frames' = free_frames + frames
      /\ usable_frames' = usable_frames + frames
      /\ UNCHANGED <<map, total_frames, bitmap_at, direct>>

-----------------------------------------------------------------------------
(* The direct map, in pages. *)

RamKinds == {"Usable", "BootloaderReclaimable", "KernelAndModules", "AcpiReclaimable", "AcpiNvs"}

(* hhdm_ranges: the regions of memory, rounded outwards. *)
hhdm_ranges ==
  LET range(r) == <<align_down(r.base, PageSize) \div PageSize,
                    align_up(r.base + r.len, PageSize) \div PageSize>>
      all == [i \in DOMAIN map |-> IF map[i].kind \in RamKinds THEN range(map[i]) ELSE <<0, 0>>]
  IN  SelectSeq(all, LAMBDA r : r[2] > r[1])

(* merge_ranges: sorted by their start, ranges that touch become one. *)
merge_ranges(ranges) ==
  LET add(out, r) ==
        IF out # <<>> /\ r[1] <= Last(out)[2]
        THEN [out EXCEPT ![Len(out)][2] = IF r[2] > @ THEN r[2] ELSE @]
        ELSE Append(out, r)
  IN  FoldLeft(add, <<>>, SortSeq(ranges, LAMBDA a, b : a[1] < b[1]))

BlockPages(b) == (b * Huge)..(b * Huge + Huge - 1)

(* map4k: a huge page in the way is split first. *)
map4k(d, p) ==
  LET b == p \div Huge
  IN  IF b \in d.huge
      THEN [d EXCEPT !.huge = @ \ {b}, !.small = @ \cup BlockPages(b)]
      ELSE [d EXCEPT !.small = @ \cup {p}]

(* map2m: asserts that no page table is in the way; the entry takes the huge
   page that p is in. *)
map2m(d, p) ==
  LET b == p \div Huge
  IN  [d EXCEPT !.huge = @ \cup {b}, !.overwritten = @ \/ BlockPages(b) \cap d.small # {}]

(* mutant: any page may begin a huge page *)
WholeHuge_unaligned(p, last) == last - p >= Huge

WholeHuge(p, last) == p % Huge = 0 /\ last - p >= Huge

RECURSIVE map_hhdm_range(_, _, _)
map_hhdm_range(d, p, last) ==
  IF p >= last THEN d
  ELSE IF WholeHuge(p, last) THEN map_hhdm_range(map2m(d, p), p + Huge, last)
  ELSE map_hhdm_range(map4k(d, p), p + 1, last)

(* The pages of the framebuffer. *)
FbPages == UNION {(map[i].base \div PageSize)..(align_up(End(i), PageSize) \div PageSize - 1) :
                  i \in {j \in Regions({"Framebuffer"}) : map[j].len > 0}}

(* vmm::init: the merged ranges, then the framebuffer page by page as
   write-combining. *)
vmm_init ==
  LET ram == FoldLeft(LAMBDA d, r : map_hhdm_range(d, r[1], r[2]), direct, merge_ranges(hhdm_ranges))
  IN  /\ state = "ready"
      /\ state' = "mapped"
      /\ direct' = [FoldSet(LAMBDA p, d : map4k(d, p), ram, FbPages) EXCEPT !.wc = FbPages]
      /\ UNCHANGED <<map, total_frames, bitmap, free_frames, usable_frames, bitmap_at>>

Next == init \/ init_fails \/ vmm_init \/ reclaim_bootloader_memory

Spec == Init /\ [][Next]_vars

-----------------------------------------------------------------------------
Up == state \in {"ready", "mapped", "reclaimed"}
FreeSet == 0..(bitmap_words(total_frames) * W - 1) \ bitmap
Bytes(f) == (f * PageSize)..(f * PageSize + PageSize - 1)

(* A frame starts out free only if all its bytes are the allocator's to give:
   inside memory, above MinAlloc, in regions of the right kind -- a page that
   straddles two regions of different kinds never is -- and none of them holds
   the bitmap, which itself lies in usable memory; and free_frames and
   usable_frames start out as the number of those frames. *)
OnlyUsableFree ==
  LET own == (bitmap_at * PageSize)..
               (bitmap_at * PageSize + bitmap_words(total_frames) * WordBytes - 1)
      In(i, b) == map[i].base <= b /\ b < End(i)
      kinds == IF state = "reclaimed" THEN {"Usable", "BootloaderReclaimable"}
                                      ELSE {"Usable"}
  IN  Up =>
        /\ \A f \in FreeSet :
             /\ f < total_frames
             /\ \A b \in Bytes(f) :
                  b >= MinAlloc /\ b \notin own /\ \E i \in Regions(kinds) : In(i, b)
        /\ \E i \in Regions({"Usable"}) : \A b \in own : In(i, b)
        /\ free_frames = Cardinality(FreeSet) /\ usable_frames = Cardinality(FreeSet)

(* The direct map reaches every byte of memory and of the framebuffer, has no
   page without such a byte -- holes and device memory stay unmapped -- keeps
   the framebuffer write-combining also where it shares a huge page with
   memory, maps no page twice, and never trips the assertion of map2m. *)
DirectMapExact ==
  LET pages == direct.small \cup UNION {BlockPages(b) : b \in direct.huge}
      touched == {b \div PageSize : b \in UNION {map[i].base..(End(i) - 1) :
                                                 i \in Regions(RamKinds \cup {"Framebuffer"})}}
  IN  state \in {"mapped", "reclaimed"} =>
        /\ pages = touched
        /\ direct.wc = FbPages /\ FbPages \subseteq direct.small
        /\ \A b \in direct.huge : BlockPages(b) \cap direct.small = {}
        /\ ~direct.overwritten
=============================================================================
