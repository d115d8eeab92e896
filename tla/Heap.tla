-------------------------------- MODULE Heap --------------------------------
(***************************************************************************)
(* The kernel heap (src/src/heap.rs): a first-fit allocator over a list of *)
(* free blocks in address order, merged with their neighbours when they    *)
(* are put back, that grows by whole pages at its upper end.  Addresses    *)
(* and sizes are in units of align_of::<FreeBlock>().  Every operation     *)
(* runs under the heap's lock with interrupts off and is one step.         *)
(***************************************************************************)
EXTENDS Integers, Sequences

CONSTANTS
  HeapStart, HeapMaxSize, GrowStep,  \* HEAP_START, ..., in units, whole pages
  PageSize,
  MinBlock,      \* size_of::<FreeBlock>(), 2 units
  Layouts      \* bound: the <<size, align>> pairs callers ask for

ASSUME HeapAssumption ==
  /\ HeapStart \in Nat \ {0} /\ HeapMaxSize \in Nat /\ GrowStep \in Nat
  /\ PageSize \in Nat \ {0} /\ MinBlock \in 1..PageSize
  /\ Layouts \subseteq Nat \X (Nat \ {0})

VARIABLES
  list,        \* the free blocks from head on
  mapped_end, allocated, total,
  live         \* the blocks callers hold, with the layout they asked for

heapVars == <<list, mapped_end, allocated, total, live>>

HeapInit ==
  /\ list = <<>> /\ mapped_end = 0 /\ allocated = 0 /\ total = 0
  /\ live = {}

align_up(a, align) == ((a + align - 1) \div align) * align
End(b) == b.addr + b.size
Block(addr, size) == [addr |-> addr, size |-> size]

(* adjust: no block is smaller than a header. *)
adjust(size) == IF size < MinBlock THEN MinBlock ELSE size

(* Where insert's search stops: after the blocks with a lower address. *)
Lower(blocks, addr) ==
  CHOOSE n \in 0..Len(blocks) : /\ \A i \in 1..n : blocks[i].addr < addr
                                /\ n < Len(blocks) => blocks[n + 1].addr >= addr

(* mutant: a block is merged with the following one only *)
insert_no_prev(blocks, addr, size) ==
  LET n == Lower(blocks, addr)
      joins == n < Len(blocks) /\ addr + size = blocks[n + 1].addr
  IN  SubSeq(blocks, 1, n) \o <<Block(addr, size + IF joins THEN blocks[n + 1].size ELSE 0)>>
      \o SubSeq(blocks, IF joins THEN n + 2 ELSE n + 1, Len(blocks))

(* insert: merged with the following block first, then with the preceding one. *)
insert(blocks, addr, size) ==
  LET n == Lower(blocks, addr)
      joinsNext == n < Len(blocks) /\ addr + size = blocks[n + 1].addr
      joinsPrev == n > 0 /\ End(blocks[n]) = addr
      whole == size + IF joinsNext THEN blocks[n + 1].size ELSE 0
      rest == SubSeq(blocks, IF joinsNext THEN n + 2 ELSE n + 1, Len(blocks))
  IN  IF joinsPrev
      THEN SubSeq(blocks, 1, n - 1) \o <<Block(blocks[n].addr, blocks[n].size + whole)>> \o rest
      ELSE SubSeq(blocks, 1, n) \o <<Block(addr, whole)>> \o rest

(* mutant: the padding before the block is not counted *)
Fits_unpadded(b, size, align) == size <= b.size

Fits(b, size, align) == align_up(b.addr, align) - b.addr + size <= b.size

(* The first block with room, if there is one. *)
FirstRoom(blocks, size, align) ==
  {i \in DOMAIN blocks : /\ Fits(blocks[i], size, align)
                         /\ \A j \in 1..(i - 1) : ~Fits(blocks[j], size, align)}

(* A leftover piece goes back to the list if it can hold a header. *)
give_back(blocks, addr, size) ==
  IF size >= MinBlock THEN insert(blocks, addr, size) ELSE blocks

(* find_and_remove for the i-th block: where the allocation starts, and the
   list without it and with what is left over on either side. *)
Start(blocks, i, align) == align_up(blocks[i].addr, align)
find_and_remove(blocks, i, size, align) ==
  LET b == blocks[i]
      start == Start(blocks, i, align)
      others == SubSeq(blocks, 1, i - 1) \o SubSeq(blocks, i + 1, Len(blocks))
      taken == give_back(others, b.addr, start - b.addr)
  IN  give_back(taken, start + size, End(b) - start - size)

(* grow: how much may be mapped, and the pages before the frame allocator runs
   out, which are kept. *)
GrowsBy(min_extra) ==
  LET end == IF mapped_end = 0 THEN HeapStart ELSE mapped_end
      remaining_va == HeapStart + HeapMaxSize - end
      wanted == IF GrowStep > align_up(min_extra, PageSize)
                THEN GrowStep ELSE align_up(min_extra, PageSize)
  IN  IF wanted < remaining_va THEN wanted ELSE remaining_va
MappedBy(min_extra) == {m \in 1..GrowsBy(min_extra) : m % PageSize = 0}
NewStart == IF mapped_end = 0 THEN HeapStart ELSE mapped_end

take(blocks, i, size, align, layout) ==
  /\ list' = find_and_remove(blocks, i, size, align)
  /\ live' = live \cup {[addr |-> Start(blocks, i, align), layout |-> layout]}
  /\ allocated' = allocated + size

refuse(blocks) == list' = blocks /\ UNCHANGED <<live, allocated>>     \* null

(* alloc: from the list; else grow once, by whatever can be mapped, and try
   once more. *)
alloc(layout) ==
  LET size == adjust(layout[1])
      align == layout[2]
  IN \/ /\ \E i \in FirstRoom(list, size, align) : take(list, i, size, align, layout)
        /\ UNCHANGED <<mapped_end, total>>
     \/ /\ FirstRoom(list, size, align) = {}          \* no room and none to be had
        /\ refuse(list)
        /\ mapped_end' = NewStart /\ UNCHANGED total
     \/ /\ FirstRoom(list, size, align) = {}
        /\ \E mapped \in MappedBy(size + align) :
             LET grown == insert(list, NewStart, mapped)
                 room == FirstRoom(grown, size, align)
             IN  /\ mapped_end' = NewStart + mapped
                 /\ total' = total + mapped
                 /\ \/ \E i \in room : take(grown, i, size, align, layout)
                    \/ room = {} /\ refuse(grown)

dealloc(b) ==
  LET size == adjust(b.layout[1])
  IN  /\ live' = live \ {b}
      /\ allocated' = IF allocated < size THEN 0 ELSE allocated - size
      /\ list' = insert(list, b.addr, size)
      /\ UNCHANGED <<mapped_end, total>>

HeapNext == (\E layout \in Layouts : alloc(layout)) \/ (\E b \in live : dealloc(b))

HeapSpec == HeapInit /\ [][HeapNext]_heapVars

-----------------------------------------------------------------------------
Bytes(b) == b.addr..(b.addr + adjust(b.layout[1]) - 1)
FreeBytes(b) == b.addr..(End(b) - 1)

(* No byte is with two callers, or with a caller and in the list; every block
   is aligned as asked and inside the mapped heap. *)
NoOverlap ==
  /\ \A b, c \in live : b # c => Bytes(b) \cap Bytes(c) = {}
  /\ \A b \in live, i \in DOMAIN list : Bytes(b) \cap FreeBytes(list[i]) = {}
  /\ \A b \in live : /\ b.addr % b.layout[2] = 0
                     /\ Bytes(b) \subseteq HeapStart..(mapped_end - 1)

(* The list is in address order, inside the heap, and neighbours are never
   adjacent: whatever was freed in whatever order has been merged, so no
   request fails that two touching free blocks together could serve. *)
Coalesced ==
  /\ \A i \in DOMAIN list :
       list[i].size >= MinBlock /\ FreeBytes(list[i]) \subseteq HeapStart..(mapped_end - 1)
  /\ \A i \in 1..(Len(list) - 1) : End(list[i]) < list[i + 1].addr
=============================================================================
