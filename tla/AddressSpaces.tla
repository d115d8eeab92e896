---------------------------- MODULE AddressSpaces ----------------------------
(***************************************************************************)
(* Page tables (src/src/vmm.rs) on top of the frame allocator, and what    *)
(* exec does with them: an address space is created, an ELF image is       *)
(* populated and mapped (src/src/elf.rs), a stack is built                 *)
(* (src/src/process.rs), and at the end everything is torn down.  Several  *)
(* execs interleave, and so do the allocator's other clients; the kernel   *)
(* maps, unmaps and protects pages of its own half, splitting huge pages.  *)
(*                                                                         *)
(* One allocation or release of a frame is one step.  A page is its        *)
(* number; a table is the frame it is in.                                  *)
(***************************************************************************)
EXTENDS Pmm, SequencesExt

CONSTANTS
  Spaces,       \* the execs that may run at the same time
  Levels,       \* 4 in the code: PML4, PDPT, PD, PT
  Fanout,       \* ENTRIES, 512 in the code
  KernelStart,  \* KERNEL_PML4_START: the root entries from here on are the kernel's
  Images,       \* ELF images: the <<page, flags>> pairs in the order populate meets them
  StackPages,   \* the user stack's pages in the order they are built
  KernelPages,  \* bound: the kernel pages that are mapped, unmapped and protected
  MaxOps        \* bound: execs, kernel page operations and clients' operations in all

Index == 0..(Fanout - 1)
Level == 0..(Levels - 1)
Page == 0..(Fanout^Levels - 1)
KernelBase == KernelStart * Fanout^(Levels - 1)
KernelPage == {v \in Page : v >= KernelBase}
Kernel == "kernel"
None == -1

VARIABLES
  table,     \* what each frame would be read as, if it were a table
  root,      \* pml4_phys of each space, and of the kernel
  exec,      \* how far each exec is
  kjob,      \* the kernel page operation in progress, or <<>>
  raw,       \* the frames of other clients
  ops,       \* bound: how many operations have started
  mapped,    \* auxiliary: the <<space, page, frame, flags>> the operations have mapped
  panicked

spaceVars == <<table, root, exec, kjob, raw, ops, mapped, panicked>>
allVars == <<vars, spaceVars>>

(* No exec: nothing populated, nothing held, no call of free_user_half. *)
Idle == [stage |-> "none", image |-> <<>>, pages |-> <<>>, stack |-> <<>>, frees |-> <<>>]

Entry(kind, frame, flags) == [kind |-> kind, frame |-> frame, flags |-> flags]
Absent == Entry("none", 0, "")
ToTable(frame) == Entry("table", frame, "")
Leaf(frame, flags) == Entry("leaf", frame, flags)
Zeroed == [i \in Index |-> Absent]
Garbage == [i \in Index |-> Leaf(0, "")]     \* a frame that holds no table

(* A leaf of level l maps this many pages; above the last level it is huge. *)
Span(l) == Fanout^(Levels - 1 - l)
index(v, l) == (v \div Span(l)) % Fanout

(* The last table on the way from table `at' of level l to page v, and v's
   entry in it. *)
RECURSIVE Descend(_, _, _)
Descend(at, l, v) ==
  LET e == table[at][index(v, l)]
  IN  IF e.kind = "table" THEN Descend(e.frame, l + 1, v)
                          ELSE [at |-> at, level |-> l, entry |-> e]

(* walk: the frame v maps to and its flags, through a leaf of any size. *)
walk(top, v) ==
  LET d == Descend(top, 0, v)
  IN  IF d.entry.kind = "leaf"
      THEN <<d.entry.frame + (v % Span(d.level)), d.entry.flags>> ELSE <<>>

-----------------------------------------------------------------------------
(* mutant: the pages of a split huge page are not where they were *)
Split_same(e, l) == [i \in Index |-> Leaf(e.frame, e.flags)]

(* split_huge and split_1g_huge: the same mapping one level down. *)
Split(e, l) == [i \in Index |-> Leaf(e.frame + i * Span(l + 1), e.flags)]

(* The frame alloc_one has just taken. *)
Allocated == CHOOSE f \in owned' : f \notin owned

(* The next table on the way to v is missing, or a huge page is in its place:
   child_table's empty one, or split_huge's and split_1g_huge's.  Without a
   frame for it their expect ends the kernel. *)
add_table(top, v) ==
  LET d == Descend(top, 0, v)
  IN  /\ \/ /\ alloc_one
            /\ table' = [table EXCEPT
                 ![Allocated] = IF d.entry.kind = "leaf" THEN Split(d.entry, d.level) ELSE Zeroed,
                 ![d.at][index(v, d.level)] = ToTable(Allocated)]
            /\ UNCHANGED panicked
         \/ free_frames = 0 /\ panicked' = TRUE /\ UNCHANGED <<vars, table>>
      /\ UNCHANGED mapped

(* map4k's and leaf_for's last step: v's entry in its page table. *)
HasLeaf(s, v) == Descend(root[s], 0, v).level = Levels - 1
set_leaf(s, v, e) ==
  /\ table' = [table EXCEPT ![Descend(root[s], 0, v).at][index(v, Levels - 1)] = e]
  /\ mapped' = {m \in mapped : <<m[1], m[2]>> # <<s, v>>} \cup
               (IF e = Absent THEN {} ELSE {<<s, v, e.frame, e.flags>>})
  /\ UNCHANGED <<vars, panicked>>

(* free_frame; from now on anyone may use the frame. *)
free_frame(f) == free(f, TRUE, 1) /\ table' = [table EXCEPT ![f] = Garbage]

-----------------------------------------------------------------------------
(* The kernel after vmm::init: one table per level but the last, in the first
   usable frames, down to a huge page of the direct map. *)
KernelTable(l) == CHOOSE f \in Usable : Cardinality({g \in Usable : g < f}) = l
KernelTables == {KernelTable(l) : l \in 0..(Levels - 2)}
KernelTableAt(l) ==
  [Zeroed EXCEPT ![IF l = 0 THEN KernelStart ELSE 0] =
     IF l = Levels - 2 THEN Leaf(0, "RW") ELSE ToTable(KernelTable(l + 1))]

SpacesInit ==
  /\ bitmap = (Bit \ Usable) \cup KernelTables
  /\ free_frames = Cardinality(Usable) - Cardinality(KernelTables)
  /\ usable_frames = Cardinality(Usable)
  /\ next_hint = 0 /\ reclaimed = FALSE /\ owned = KernelTables
  /\ table = [f \in Frame |->
       IF f \in KernelTables
       THEN KernelTableAt(CHOOSE l \in Level : KernelTable(l) = f) ELSE Garbage]
  /\ root = [s \in Spaces \cup {Kernel} |-> IF s = Kernel THEN KernelTable(0) ELSE None]
  /\ exec = [s \in Spaces |-> Idle]
  /\ kjob = <<>> /\ raw = {} /\ ops = 0 /\ panicked = FALSE
  /\ mapped = {<<Kernel, KernelBase + i, i, "RW">> : i \in Index}

(* Kernel page operations hold the VMM lock with interrupts off: nothing else
   runs while one is in progress. *)
Starts == ops < MaxOps /\ ops' = ops + 1
At(s, stage) == ~panicked /\ kjob = <<>> /\ exec[s].stage = stage
Goto(s, stage) == exec' = [exec EXCEPT ![s].stage = stage]

(* create_address_space: a root with no user half and the kernel's entries. *)
create_address_space(s) ==
  /\ At(s, "none") /\ Starts /\ alloc_one
  /\ table' = [table EXCEPT ![Allocated] =
       [i \in Index |-> IF i < KernelStart THEN Absent ELSE table[root[Kernel]][i]]]
  /\ root' = [root EXCEPT ![s] = Allocated]
  /\ \E i \in Images :
       exec' = [exec EXCEPT ![s].stage = "populate", ![s].image = i, ![s].stack = StackPages]
  /\ UNCHANGED <<kjob, raw, mapped, panicked>>

(* populate, one page of one segment: a page another segment has touched keeps
   its frame and gets the permissions of both. *)
populate(s) ==
  /\ At(s, "populate") /\ exec[s].image # <<>>
  /\ LET va == Head(exec[s].image)[1]
         flags == Head(exec[s].image)[2]
         pages == exec[s].pages
     IN \/ /\ va \in DOMAIN pages
           /\ exec' = [exec EXCEPT ![s].image = Tail(@), ![s].pages[va].flags = @ \cup flags]
           /\ UNCHANGED vars
        \/ /\ va \notin DOMAIN pages /\ alloc_one
           /\ exec' = [exec EXCEPT ![s].image = Tail(@),
                ![s].pages = (va :> [frame |-> Allocated, flags |-> flags]) @@ @]
        \/ /\ va \notin DOMAIN pages /\ free_frames = 0           \* NoMemory
           /\ exec' = [exec EXCEPT ![s].image = <<>>, ![s].stage = "free_pages"]
           /\ UNCHANGED vars
  /\ UNCHANGED <<table, root, kjob, raw, ops, mapped, panicked>>

(* populate's last check, and load's decision: map the pages or free them. *)
populated(s) ==
  /\ At(s, "populate") /\ exec[s].image = <<>>
  /\ Goto(s, IF \E v \in DOMAIN exec[s].pages : {"W", "X"} \subseteq exec[s].pages[v].flags
             THEN "free_pages" ELSE "map")
  /\ UNCHANGED <<vars, table, root, kjob, raw, ops, mapped, panicked>>

(* Drop for AddressSpace: free_user_half starts at entry 0 of the root. *)
drop_begins(s) ==
  /\ exec' = [exec EXCEPT ![s] =
       [Idle EXCEPT !.stage = "drop", !.frees = <<[at |-> root[s], next |-> 0]>>]]
  /\ mapped' = {m \in mapped : m[1] # s}
  /\ UNCHANGED <<vars, table>>

Without(pages, v) == [x \in DOMAIN pages \ {v} |-> pages[x]]

(* free_pages, then the error goes up to spawn_with, which drops the space. *)
free_pages(s) ==
  /\ At(s, "free_pages")
  /\ LET pages == exec[s].pages
         v == Min(DOMAIN pages)
     IN \/ /\ pages # <<>> /\ free_frame(pages[v].frame)
           /\ exec' = [exec EXCEPT ![s].pages = Without(@, v)]
           /\ UNCHANGED mapped
        \/ pages = <<>> /\ drop_begins(s)
  /\ UNCHANGED <<root, kjob, raw, ops, panicked>>

(* aspace.map of the lowest page that is waiting: a table at a time, then the
   leaf.  load does it for the whole image, build_stack for each page. *)
map(s) ==
  /\ At(s, "map") /\ exec[s].pages # <<>>
  /\ LET v == Min(DOMAIN exec[s].pages)
         pg == exec[s].pages[v]
     IN \/ ~HasLeaf(s, v) /\ add_table(root[s], v) /\ UNCHANGED exec
        \/ /\ HasLeaf(s, v) /\ set_leaf(s, v, Leaf(pg.frame, pg.flags))
           /\ exec' = [exec EXCEPT ![s].pages = Without(@, v)]
  /\ UNCHANGED <<root, kjob, raw, ops>>

(* build_stack, one frame: the page is mapped next; without a frame spawn_with
   gives up, and the space it drops has the pages mapped so far. *)
build_stack(s) ==
  /\ At(s, "map") /\ exec[s].pages = <<>> /\ exec[s].stack # <<>>
  /\ \/ /\ alloc_one
        /\ exec' = [exec EXCEPT ![s].stack = Tail(@),
             ![s].pages = Head(exec[s].stack) :> [frame |-> Allocated, flags |-> {"W"}]]
        /\ UNCHANGED <<table, mapped>>
     \/ free_frames = 0 /\ drop_begins(s)
  /\ UNCHANGED <<root, kjob, raw, ops, panicked>>

(* The process runs, until it ends (or spawn_user had no slot for it). *)
Ready(s) == At(s, "map") /\ exec[s].pages = <<>> /\ exec[s].stack = <<>>
end(s) == Ready(s) /\ drop_begins(s) /\ UNCHANGED <<root, kjob, raw, ops, panicked>>

(* AddressSpace::unmap gives the frame to the caller, ::protect changes the
   permissions; both do nothing for a page that is not mapped. *)
unmap(s, v) ==
  /\ Ready(s) /\ Starts /\ walk(root[s], v) # <<>>
  /\ raw' = raw \cup {walk(root[s], v)[1]}
  /\ set_leaf(s, v, Absent)
  /\ UNCHANGED <<root, exec, kjob>>

protect(s, v, flags) ==
  /\ Ready(s) /\ Starts /\ walk(root[s], v) # <<>>
  /\ set_leaf(s, v, Leaf(walk(root[s], v)[1], flags))
  /\ UNCHANGED <<root, exec, kjob, raw>>

-----------------------------------------------------------------------------
(* mutant: the kernel half is torn down as well *)
LastEntry_all(depth) == Fanout - 1

(* free_user_half stops before the kernel's entries, the others go to the end. *)
LastEntry(depth) == IF depth = 1 THEN KernelStart - 1 ELSE Fanout - 1

(* The entries a call of free_user_half, free_pdpt, free_pd or free_pt has
   still to look at. *)
Left(calls) ==
  LET call == calls[Len(calls)]
  IN  {i \in call.next..LastEntry(Len(calls)) : table[call.at][i].kind # "none"}
Looked(calls) == [calls EXCEPT ![Len(calls)].next = Min(Left(calls)) + 1]
EntryAt(calls) == table[calls[Len(calls)].at][Min(Left(calls))]

(* The calls down to the next frame to free. *)
RECURSIVE Enter(_)
Enter(calls) ==
  IF Left(calls) # {} /\ EntryAt(calls).kind = "table"
  THEN Enter(Append(Looked(calls), [at |-> EntryAt(calls).frame, next |-> 0]))
  ELSE calls

(* Drop: each call frees the leaves of its table, calls the next function for
   the tables in it, and frees its own table last. *)
drop(s) ==
  LET calls == Enter(exec[s].frees)
      own == calls[Len(calls)].at
  IN  /\ At(s, "drop")
      /\ \/ /\ Left(calls) # {} /\ free_frame(EntryAt(calls).frame)
            /\ exec' = [exec EXCEPT ![s].frees = Looked(calls)]
            /\ UNCHANGED root
         \/ /\ Left(calls) = {} /\ Len(calls) > 1 /\ free_frame(own)
            /\ exec' = [exec EXCEPT ![s].frees = Front(calls)]
            /\ UNCHANGED root
         \/ /\ Left(calls) = {} /\ Len(calls) = 1 /\ free_frame(own)
            /\ exec' = [exec EXCEPT ![s] = Idle]
            /\ root' = [root EXCEPT ![s] = None]
      /\ UNCHANGED <<kjob, raw, ops, mapped, panicked>>

-----------------------------------------------------------------------------
(* Frames of other clients that the kernel maps (stacks, the heap). *)
InUse == {m[3] : m \in {n \in mapped : n[1] = Kernel}}

(* The calls of map_page, unmap_page and protect_page.  map_page is given a
   frame of the caller and a page that maps nothing: create_thread and the
   heap's grow use fresh addresses, map_mmio asks translate first. *)
kernel_call(op, v) ==
  /\ ~panicked /\ kjob = <<>> /\ Starts
  /\ LET now == walk(root[Kernel], v)
     IN  \/ /\ op = "map" /\ now = <<>>
            /\ \E f \in raw \ InUse : kjob' = [op |-> op, v |-> v, e |-> Leaf(f, "RW")]
         \/ /\ op = "unmap" /\ now # <<>>
            /\ kjob' = [op |-> op, v |-> v, e |-> Absent]
         \/ /\ op = "protect" /\ now # <<>>
            /\ kjob' = [op |-> op, v |-> v, e |-> Leaf(now[1], "RO")]
  /\ UNCHANGED <<vars, table, root, exec, raw, mapped, panicked>>

(* pt_for and leaf_for split or add tables on the way; then the leaf. *)
kernel_step ==
  /\ ~panicked /\ kjob # <<>>
  /\ \/ ~HasLeaf(Kernel, kjob.v) /\ add_table(root[Kernel], kjob.v) /\ UNCHANGED kjob
     \/ HasLeaf(Kernel, kjob.v) /\ set_leaf(Kernel, kjob.v, kjob.e) /\ kjob' = <<>>
  /\ UNCHANGED <<root, exec, raw, ops>>

(* A step of another client: an operation of the allocator that leaves alone
   the frames the client does not own or has mapped.  A rejected free, here of
   a frame past the end, changes nothing. *)
client ==
  /\ ~panicked /\ kjob = <<>>
  /\ \/ alloc_one \/ reclaim_bootloader_memory
     \/ \E count \in 2..MaxCount : alloc_contiguous(count)
     \/ \E first \in raw \cup {TotalFrames}, count \in 1..MaxCount : free(first, TRUE, count)
  /\ owned \ owned' \subseteq raw \ InUse
  /\ raw' = (raw \cup (owned' \ owned)) \ (owned \ owned')
  /\ IF owned' = owned /\ reclaimed' = reclaimed THEN UNCHANGED ops ELSE Starts
  /\ UNCHANGED <<table, root, exec, kjob, mapped, panicked>>

SpacesNext ==
  \/ \E s \in Spaces :
       \/ create_address_space(s) \/ populate(s) \/ populated(s) \/ free_pages(s)
       \/ map(s) \/ build_stack(s) \/ end(s) \/ drop(s)
       \/ \E v \in Page \ KernelPage : unmap(s, v) \/ protect(s, v, {})
  \/ \E op \in {"map", "unmap", "protect"}, v \in KernelPages : kernel_call(op, v)
  \/ kernel_step
  \/ client

SpacesSpec == SpacesInit /\ [][SpacesNext]_allVars

-----------------------------------------------------------------------------
(* The frames below a table from its entry i on, in the order they would be
   freed. *)
RECURSIVE Below(_, _, _)
Below(at, i, last) ==
  IF i > last THEN <<at>>
  ELSE LET e == table[at][i]
       IN  (CASE e.kind = "none" -> <<>>
              [] e.kind = "leaf" -> <<e.frame>>
              [] e.kind = "table" -> Below(e.frame, 0, Fanout - 1)) \o Below(at, i + 1, last)

RECURSIVE StillToFree(_, _)
StillToFree(calls, depth) ==
  IF depth = 0 THEN <<>>
  ELSE Below(calls[depth].at, calls[depth].next, LastEntry(depth)) \o StillToFree(calls, depth - 1)

(* The frames an exec holds, each as often as it holds it. *)
Held(s) ==
  SetToSeq({exec[s].pages[v].frame : v \in DOMAIN exec[s].pages}) \o
  (CASE exec[s].stage = "none" -> <<>>
     [] exec[s].stage = "drop" -> StillToFree(exec[s].frees, Len(exec[s].frees))
     [] OTHER -> Below(root[s], 0, KernelStart - 1))

RECURSIVE TablesOf(_)
TablesOf(at) ==
  {at} \cup UNION {TablesOf(table[at][i].frame) : i \in {j \in Index : table[at][j].kind = "table"}}

(* Every frame the allocator has handed out has exactly one holder: one exec,
   as one table or one page of it, the kernel's tables, or another client.
   Nothing is leaked by a load that fails half way, by a stack that runs out of
   memory or by the teardown, and nothing is freed that is still in use. *)
OneHolder ==
  LET ofExec == [s \in Spaces |-> ToSet(Held(s))]
      kernel == TablesOf(root[Kernel])
  IN  /\ \A s \in Spaces : Cardinality(ofExec[s]) = Len(Held(s))
      /\ \A s, t \in Spaces : s # t => ofExec[s] \cap ofExec[t] = {}
      /\ \A s \in Spaces : ofExec[s] \cap (kernel \cup raw) = {}
      /\ kernel \cap raw = {}
      /\ owned = kernel \cup raw \cup UNION {ofExec[s] : s \in Spaces}

Live == {s \in Spaces : exec[s].stage \notin {"none", "drop"}}
WalkOf(s) == {<<s, v>> \o walk(root[s], v) : v \in {u \in Page : walk(root[s], u) # <<>>}}

(* A walk of the tables, built, split and reused as they may be, finds what
   the operations promised: in each space the pages mapped in it since it was
   created, none of another space's and none from a frame's earlier life; and
   the kernel's pages, the same in all of them, splits being invisible. *)
WalkAsPromised ==
  /\ WalkOf(Kernel) = {m \in mapped : m[1] = Kernel}
  /\ \A s \in Live :
       WalkOf(s) = {m \in mapped : m[1] = s} \cup {[m EXCEPT ![1] = s] : m \in WalkOf(Kernel)}
=============================================================================
