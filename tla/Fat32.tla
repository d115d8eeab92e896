------------------------------- MODULE Fat32 -------------------------------
(***************************************************************************)
(* The FAT32 driver (fat32.rs) writing to a disk that may refuse a sector  *)
(* and under a machine that may stop between two sectors.                  *)
(*                                                                         *)
(* Every operation runs under the MOUNTS lock, so nothing interleaves with *)
(* it but faults.  What it is going to write is decided by what it reads   *)
(* at its start, so a call lays down its whole PLAN: the sector writes in  *)
(* the order the code issues them, each with the writes the code issues    *)
(* instead when that one is refused (its undo).  Step then executes one    *)
(* sector write.  A call that is rejected writes nothing and is no step.   *)
(*                                                                         *)
(* A cluster is one sector of K units; a unit is a directory slot or a     *)
(* piece of a file.  Reads do not fail.                                    *)
(***************************************************************************)
EXTENDS Integers, FiniteSets, Sequences, SequencesExt, TLC

CONSTANTS
    FatCount,      \* copies of the FAT; the driver reads the first
    ClusterCount,  \* data clusters 2 .. ClusterCount + 1
    K,             \* units in a cluster
    Paths,         \* the paths users name: sequences of names
    Offsets,       \* where write_at starts
    Lengths,       \* how much it writes
    Refusals,      \* the writes the disk may refuse: "forward", "rollback"
    MaxOps,        \* bound: operations in a behaviour
    MaxFaults      \* bound: refused writes and crashes in a behaviour

ASSUME Fat32Assumption ==
    /\ FatCount \in Nat \ {0} /\ ClusterCount \in Nat \ {0} /\ K \in Nat \ {0}
    /\ Refusals \subseteq {"forward", "rollback"}

VARIABLES
    fat,           \* [copy -> [cluster -> next]]
    disk,          \* [cluster -> [1..K -> unit]]
    fsinfo,        \* the free count in the FSInfo sector, or Unknown
    hint,          \* next_free_hint
    invalidated,   \* fsinfo_invalidated
    plan,          \* the sector writes still to be issued
    op,            \* the last call: its path and what it was to change
    result,        \* "running", or how the last call ended
    promised,      \* auxiliary: what each path holds by the calls so far
    ops, faults

vars == <<fat, disk, fsinfo, hint, invalidated, plan, op, result, promised,
          ops, faults>>

Clusters == 2 .. ClusterCount + 1
EOC == ClusterCount + 2        \* 0x0fffffff
Unknown == -1                  \* u32::MAX in the FSInfo sector
Root == 2                      \* root_cluster

(***************************************************************************)
(* Units.  Every unit is a record of one shape so that units compare.      *)
(***************************************************************************)
Unit(k, name, first, size) ==
    [k |-> k, name |-> name, first |-> first, size |-> size]
Zero == Unit("zero", "", 0, 0)
Deleted == Unit("e5", "", 0, 0)
Data(v) == Unit("data", "", 0, v)

(***************************************************************************)
(* Reading.                                                                *)
(***************************************************************************)
fat_entry(c) == fat[1][c]

RECURSIVE ChainFrom(_, _)
ChainFrom(c, n) ==
    CASE c = EOC -> <<>>
      [] c \notin Clusters \/ n = 0 -> <<0>>
      [] OTHER -> <<c>> \o ChainFrom(fat_entry(c), n - 1)

\* collect_chain, with a 0 at the end where next_cluster reports Corrupt
collect_chain(first) ==
    IF first = 0 THEN <<>> ELSE ChainFrom(first, ClusterCount)

Sound(chain) == \A i \in DOMAIN chain : chain[i] \in Clusters

\* where unit i of a chain lies
Place(chain, i) == [c |-> chain[((i - 1) \div K) + 1], i |-> ((i - 1) % K) + 1]
Places(chain) == [i \in 1 .. K * Len(chain) |-> Place(chain, i)]
At(slot) == disk[slot.c][slot.i]

\* the slots of a directory, each with its place, up to the end marker; a
\* chain that breaks off after the end marker is not noticed
BeforeEnd(slots) ==
    LET zeros == {i \in DOMAIN slots : At(slots[i]).k \in {"zero", "data"}}
    IN  IF zeros = {} THEN slots
        ELSE SubSeq(slots, 1, (CHOOSE i \in zeros : \A j \in zeros : i <= j) - 1)
Slots(dir) ==
    BeforeEnd(Places(SelectSeq(collect_chain(dir), LAMBDA c : c \in Clusters)))

directory_entries(dir) ==
    SelectSeq(Slots(dir), LAMBDA s : At(s).k \in {"file", "dir"})

\* Lookups give the set of what they find, empty for NotFound and
\* NotDirectory: the place of the first entry called name, ...
FirstOf(s) == {s[i] : i \in DOMAIN s \cap {1}}
find_named_entry(dir, name) ==
    FirstOf(SelectSeq(directory_entries(dir), LAMBDA s : At(s).name = name))

\* ... the first clusters of the directories among these places, ...
Directories(places) == {At(s).first : s \in {h \in places : At(h).k = "dir"}}

\* ... the place of a path's entry, and the directory that holds it.
RECURSIVE ResolveFrom(_, _)
ResolveFrom(dir, path) ==
    IF Len(path) = 1 THEN find_named_entry(dir, path[1])
    ELSE UNION {ResolveFrom(d, Tail(path)) :
                  d \in Directories(find_named_entry(dir, Head(path)))}
resolve(path) == ResolveFrom(Root, path)

parent_and_name(path) ==
    IF Len(path) = 1 THEN {Root} ELSE Directories(resolve(Front(path)))

\* parent_and_name, then find_named_entry
Named(path) == UNION {find_named_entry(dir, Last(path)) : dir \in parent_and_name(path)}

\* read_at over the whole file: the units of its chain up to its size
read_file(entry) ==
    LET chain == collect_chain(entry.first)
    IN  IF entry.size > K * Len(SelectSeq(chain, LAMBDA c : c \in Clusters))
        THEN <<"Corrupt">>
        ELSE [i \in 1 .. entry.size |-> At(Place(chain, i)).size]

\* what a user sees at a path
Absent == [k |-> "absent", data |-> <<>>]
ViewOf(e) == [k |-> e.k, data |-> IF e.k = "file" THEN read_file(e) ELSE <<>>]
View(path) == CHOOSE v \in {Absent} \cup {ViewOf(At(s)) : s \in resolve(path)} :
                 v = Absent => resolve(path) = {}

(***************************************************************************)
(* Writes.  after tells what the code does to next_free_hint once the      *)
(* write is done: "-" nothing, "next" point past c, "min" fetch_min(c).    *)
(***************************************************************************)
Write(k, copy, c, v, after) ==
    [k |-> k, copy |-> copy, c |-> c, v |-> v, after |-> after]

set_fat_entry(c, value, after) ==
    [f \in 1 .. FatCount |->
        Write("fat", f, c, value, IF f = FatCount THEN after ELSE "-")]

\* units i..j of cluster c become the values of f
Sector(c, f, after) == Write("sector", 0, c, f, after)
zero_cluster(c) == Sector(c, [i \in 1 .. K |-> Zero], "next")
write_directory_bytes(slot, unit) == Sector(slot.c, (slot.i :> unit), "-")

\* writes of a call and of a rollback, each followed by undo when refused
With(writes, undo) ==
    [i \in DOMAIN writes |-> [w |-> writes[i], undo |-> undo, phase |-> "forward"]]
Back(writes, undo) ==
    [i \in DOMAIN writes |-> [w |-> writes[i], undo |-> undo, phase |-> "rollback"]]

(* mutant: the last cluster of a chain is not released *)
release_chain_short(chain) ==
    FlattenSeq([i \in 1 .. Len(chain) - 1 |-> set_fat_entry(chain[i], 0, "min")])
release_chain(chain) ==
    FlattenSeq([i \in DOMAIN chain |-> set_fat_entry(chain[i], 0, "min")])

(* mutant: the old tail keeps pointing at the first released cluster *)
rollback_chain_growth_unlinked(chain, original) ==
    release_chain(SubSeq(chain, original + 1, Len(chain)))
rollback_chain_growth(chain, original) ==
    (IF original > 0 THEN set_fat_entry(chain[original], EOC, "-") ELSE <<>>)
        \o release_chain(SubSeq(chain, original + 1, Len(chain)))

\* a rollback the code runs for an error it met by itself: a refused write
\* in it is ignored, and the release after it goes on
Rollback(chain, original) ==
    LET freed == release_chain(SubSeq(chain, original + 1, Len(chain)))
        all == rollback_chain_growth(chain, original)
        tail == SubSeq(all, 1, Len(all) - Len(freed))
    IN  Back(tail, freed) \o Back(freed, <<>>)

(***************************************************************************)
(* Allocation.  The clusters a call allocates are, in this order, the free *)
(* ones met from next_free_hint round to it again.                         *)
(***************************************************************************)
FreeOnes ==
    SelectSeq([i \in 1 .. ClusterCount |-> 2 + ((hint - 2 + i - 1) % ClusterCount)],
              LAMBDA c : fat_entry(c) = 0)
Some(n) == SubSeq(FreeOnes, 1, IF n <= Len(FreeOnes) THEN n ELSE Len(FreeOnes))

allocate_cluster(c, undo) ==
    With(set_fat_entry(c, EOC, "-"), undo)
        \o With(<<zero_cluster(c)>>, set_fat_entry(c, 0, "-") \o undo)

Upto(s, n) == SubSeq(s, 1, n)

\* one more cluster at the end of chain, of which the first original ones
\* were there before the call
Grow(chain, original, new) ==
    LET back == rollback_chain_growth(chain, original)
    IN  allocate_cluster(new, back)
          \o IF chain = <<>> THEN <<>>
             ELSE With(set_fat_entry(Last(chain), new, "-"),
                       set_fat_entry(new, 0, "-") \o back)

GrowBy(chain, new, needed) ==
    LET ok == Len(chain \o new) >= needed
    IN  [ok |-> ok,
         chain |-> chain \o new,
         plan |-> FlattenSeq([i \in DOMAIN new |->
                      Grow(chain \o Upto(new, i - 1), Len(chain), new[i])])
                  \o IF ok THEN <<>> ELSE Rollback(chain \o new, Len(chain))]
ensure_chain(chain, needed) == GrowBy(chain, Some(needed - Len(chain)), needed)

Ceil(a, b) == (a + b - 1) \div b

\* records on new clusters got at the end of a directory's chain, whose slots
\* from its end marker on are unused
AppendTo(chain, unused, records, needed, got, undo) ==
    LET back(n) == release_chain(Upto(got, n)) \o undo
    IN  [ok |-> Len(got) = needed,
         plan |->
           With([i \in DOMAIN unused |-> write_directory_bytes(unused[i], Deleted)],
                undo)
           \o FlattenSeq([i \in DOMAIN got |-> allocate_cluster(got[i], back(i - 1))])
           \o IF Len(got) < needed
              THEN Back(release_chain(got), undo) \o Back(undo, <<>>)
              ELSE FlattenSeq([i \in 1 .. needed - 1 |->
                        With(set_fat_entry(got[i], got[i + 1], "-"), back(needed))])
                   \o With(set_fat_entry(Last(chain), got[1], "-"), back(needed))
                   \o With([i \in DOMAIN records |->
                             write_directory_bytes(Place(got, i), records[i])], undo)]
append_directory_records(dir, records, new, undo) ==
    LET chain == collect_chain(dir)
        needed == Ceil(Len(records) + 1, K)
    IN  AppendTo(chain, SubSeq(Places(chain), Len(Slots(dir)) + 1, K * Len(chain)),
                 records, needed,
                 Upto(new, IF needed <= Len(new) THEN needed ELSE Len(new)), undo)

(***************************************************************************)
(* The operations.                                                         *)
(***************************************************************************)
Idle == plan = <<>>

\* lay down the plan p of a call on path
Call(path, after, p) ==
    /\ Idle /\ ops < MaxOps /\ p.plan # <<>>
    /\ ops' = ops + 1
    /\ plan' = p.plan
    /\ op' = [path |-> path, before |-> View(path), after |-> after, ok |-> p.ok]
    /\ result' = "running"
    /\ promised' = IF op.path = <<>> THEN promised
                   ELSE [promised EXCEPT ![op.path] = View(op.path)]
    /\ UNCHANGED <<fat, disk, fsinfo, hint, invalidated, faults>>

lfn_records(name, kind, first) ==
    <<Unit("lfn", name, 0, 0), Unit(kind, name, first, 0)>>

create_file(path) ==
    \E dir \in parent_and_name(path) :
        /\ Sound(collect_chain(dir))
        /\ find_named_entry(dir, Last(path)) = {}
        /\ Call(path, [k |-> "file", data |-> <<>>],
                append_directory_records(dir, lfn_records(Last(path), "file", 0),
                                         FreeOnes, <<>>))

create_dir(path) ==
    \E dir \in parent_and_name(path), cluster \in FirstOf(FreeOnes) :
        LET back == release_chain(<<cluster>>)
            dots == [i \in 1 .. 2 |-> write_directory_bytes([c |-> cluster, i |-> i],
                                        Unit("dot", "", IF i = 1 THEN cluster ELSE dir, 0))]
            first == allocate_cluster(cluster, <<>>) \o With(dots, back)
            app == append_directory_records(dir,
                      lfn_records(Last(path), "dir", cluster), Tail(FreeOnes), back)
        IN  /\ Sound(collect_chain(dir))
            /\ find_named_entry(dir, Last(path)) = {}
            /\ Call(path, [k |-> "dir", data |-> <<>>], [app EXCEPT !.plan = first \o @])

\* the entry at the place loc and the long-name records in front of it
RecordsOf(slots, loc) ==
    LET at == CHOOSE i \in DOMAIN slots : slots[i] = loc
    IN  SelectSeq(Upto(slots, at), LAMBDA s :
            \A i \in 1 .. at - 1 :
               (\E j \in 1 .. i : slots[j] = s) => At(slots[i]).k = "lfn")

remove_order(deleted, released) == deleted \o released
remove(path) ==
    \E dir \in parent_and_name(path) : \E loc \in find_named_entry(dir, Last(path)) :
    LET chain == collect_chain(At(loc).first)
        found == RecordsOf(Slots(dir), loc)
    IN  /\ At(loc).k = "dir" => directory_entries(At(loc).first) = <<>>
        /\ Sound(chain) /\ Sound(collect_chain(dir))
        /\ Call(path, Absent,
                [ok |-> TRUE,
                 plan |-> remove_order(
                    With([i \in DOMAIN found |->
                            write_directory_bytes(found[i], Deleted)], <<>>),
                    With(release_chain(chain), <<>>))])

write_entry_metadata(loc, first, size) ==
    write_directory_bytes(loc, [At(loc) EXCEPT !.first = first, !.size = size])

truncate(path) ==
    \E loc \in Named(path) :
    LET chain == collect_chain(At(loc).first)
    IN  /\ At(loc).k = "file" /\ Sound(chain)
        /\ Call(path, [k |-> "file", data |-> <<>>],
                [ok |-> TRUE,
                 plan |-> With(<<write_entry_metadata(loc, 0, 0)>>
                                 \o release_chain(chain), <<>>)])

\* units from .. from + len - 1 of a file set to value, a sector at a time
write_chain_range(chain, from, len, value) ==
    LET lo == from \div K
        hi == (from + len - 1) \div K
        In(ci) == {u \in 1 .. K : ci * K + u - 1 \in from .. from + len - 1}
    IN  IF len = 0 THEN <<>>
        ELSE [n \in 1 .. hi - lo + 1 |->
                Sector(chain[lo + n], [u \in In(lo + n - 1) |-> value], "-")]

(* mutant: the gap between the old end and the offset is left as it is *)
gap_left(size, offset) == 0
gap(size, offset) == IF offset > size THEN offset - size ELSE 0
write_at(path, offset, len) ==
    \E loc \in Named(path) :
    LET e == At(loc)
        old == collect_chain(e.first)
        end == offset + len
        size == IF e.size > end THEN e.size ELSE end
    IN  \E grown \in {ensure_chain(old, Ceil(size, K))} :
    LET undo == IF Len(grown.chain) = Len(old) THEN <<>>
                ELSE rollback_chain_growth(grown.chain, Len(old))
        value == Data(ops + 1)
        before == read_file(e)
    IN  /\ e.k = "file" /\ Sound(old)
        /\ Call(path,
                [k |-> "file",
                 data |-> [i \in 1 .. size |->
                             IF i - 1 \in offset .. end - 1 THEN value.size
                             ELSE IF i <= e.size THEN before[i] ELSE 0]],
                [ok |-> grown.ok,
                 plan |-> grown.plan \o
                    IF ~grown.ok THEN <<>>
                    ELSE With(write_chain_range(grown.chain, e.size,
                                                gap(e.size, offset), Zero)
                              \o write_chain_range(grown.chain, offset, len, value)
                              \o <<write_entry_metadata(loc, grown.chain[1], size)>>,
                              undo)])

(***************************************************************************)
(* One sector write, and what may happen instead of it.                    *)
(***************************************************************************)
Next_write == Head(plan).w

\* set_fat_entry calls invalidate_fsinfo_hint before its first write
(* mutant: only freeing a cluster invalidates the free count *)
MustInvalidate_frees == ~invalidated /\ Next_write.k = "fat" /\ Next_write.v = 0
MustInvalidate == ~invalidated /\ Next_write.k = "fat"

hint_after(w) ==
    CASE w.after = "next" -> IF w.c = ClusterCount + 1 THEN 2 ELSE w.c + 1
      [] w.after = "min" /\ w.c < hint -> w.c
      [] OTHER -> hint

Ended == IF op.ok THEN "ok" ELSE "nospace"

invalidate_fsinfo_hint ==
    /\ plan # <<>> /\ MustInvalidate
    /\ fsinfo' = Unknown
    /\ invalidated' = TRUE
    /\ UNCHANGED <<fat, disk, hint, plan, op, result, promised, ops, faults>>

write_sector ==
    /\ plan # <<>> /\ ~MustInvalidate
    /\ LET w == Next_write
       IN  /\ fat' = IF w.k = "fat" THEN [fat EXCEPT ![w.copy][w.c] = w.v] ELSE fat
           /\ disk' = IF w.k = "sector"
                      THEN [disk EXCEPT ![w.c] = w.v @@ @] ELSE disk
           /\ hint' = hint_after(w)
    /\ plan' = Tail(plan)
    /\ result' = IF Len(plan) = 1 /\ result = "running" THEN Ended ELSE result
    /\ UNCHANGED <<fsinfo, invalidated, op, promised, ops, faults>>

\* the device answers Err: the code turns to the undo of this write
refuse ==
    /\ plan # <<>> /\ faults < MaxFaults /\ result = "running"
    /\ Head(plan).phase \in Refusals
    /\ plan' = Back(Head(plan).undo, <<>>)
    /\ result' = "failed"
    /\ faults' = faults + 1
    /\ UNCHANGED <<fat, disk, fsinfo, hint, invalidated, op, promised, ops>>

\* the machine stops; the volume is mounted again
mount ==
    /\ plan # <<>> /\ faults < MaxFaults
    /\ plan' = <<>>
    /\ result' = "crashed"
    /\ hint' = 2
    /\ invalidated' = FALSE
    /\ faults' = faults + 1
    /\ UNCHANGED <<fat, disk, fsinfo, op, promised, ops>>

(***************************************************************************)
(* A volume with one file, in the root directory, as a formatter leaves    *)
(* it: no long name, FSInfo holding the right free count.                  *)
(***************************************************************************)
Formatted(path) ==
    [c \in Clusters |-> [i \in 1 .. K |->
        IF c = Root /\ i = 1 THEN Unit("file", path[1], 3, 1)
        ELSE IF c = 3 /\ i = 1 THEN Data(100) ELSE Zero]]

Init ==
    /\ fat = [f \in 1 .. FatCount |->
                [c \in Clusters |-> IF c \in {Root, 3} THEN EOC ELSE 0]]
    /\ \E p \in {q \in Paths : Len(q) = 1} :
          /\ disk = Formatted(p)
          /\ promised = [q \in Paths |-> IF q = p THEN [k |-> "file", data |-> <<100>>]
                                         ELSE Absent]
    /\ fsinfo = ClusterCount - 2
    /\ hint = 2 /\ invalidated = FALSE
    /\ plan = <<>> /\ result = "ok"
    /\ op = [path |-> <<>>, before |-> Absent, after |-> Absent, ok |-> TRUE]
    /\ ops = 0 /\ faults = 0

User ==
    \E path \in Paths :
        \/ create_file(path)
        \/ create_dir(path)
        \/ remove(path)
        \/ truncate(path)
        \/ \E offset \in Offsets, len \in Lengths : write_at(path, offset, len)

Next == User \/ invalidate_fsinfo_hint \/ write_sector \/ refuse \/ mount

Spec == Init /\ [][Next]_vars

(***************************************************************************)
(* Properties.                                                             *)
(***************************************************************************)

\* the first clusters of what the directory tree holds, with the root
RECURSIVE Firsts(_, _)
Firsts(dir, depth) ==
    LET es == directory_entries(dir)
        own == [i \in DOMAIN es |-> At(es[i]).first]
    IN  IF depth = 0 THEN own
        ELSE own \o FlattenSeq([i \in DOMAIN es |->
                 IF At(es[i]).k = "dir" THEN Firsts(At(es[i]).first, depth - 1)
                 ELSE <<>>])
Depth == CHOOSE n \in {Len(p) : p \in Paths} : \A p \in Paths : Len(p) <= n
Chains == LET fs == <<Root>> \o Firsts(Root, Depth)
          IN  [i \in DOMAIN fs |-> collect_chain(fs[i])]

(* ChainsSound: in every state, the ones between two sector writes of a    *)
(* call included, the chain of every file and directory ends, runs through *)
(* allocated clusters only, and shares no cluster with another chain or    *)
(* with itself: neither a crash at any point nor a rollback of             *)
(* ensure_chain, append_directory_records or create_dir cross-links files. *)
ChainsSound ==
    LET all == FlattenSeq(Chains)
    IN  /\ \A i \in DOMAIN all : all[i] \in Clusters
        /\ \A i, j \in DOMAIN all : all[i] = all[j] => i = j

(* NothingLeaks: as long as no write was refused and the machine did not   *)
(* stop, a finished call leaves allocated exactly the clusters the         *)
(* directory tree reaches; a call that ended for lack of space has given   *)
(* back all it took.                                                       *)
NothingLeaks ==
    Idle /\ faults = 0 =>
        LET all == FlattenSeq(Chains)
        IN  {c \in Clusters : fat_entry(c) # 0} = {all[i] : i \in DOMAIN all}

\* a path on which a call is under way or was cut short
Between(before, after, v) ==
    \/ v \in {before, after}
    \/ /\ v.k = before.k /\ Len(v.data) = Len(before.data)
       /\ Len(after.data) >= Len(before.data)
       /\ \A i \in DOMAIN v.data : v.data[i] \in {before.data[i], after.data[i]}

(* AsPromised: at every point of every call a user who read the disk would *)
(* find what the calls so far promise.  Paths the call does not name read  *)
(* as before; the named path reads as the call found it until it reads as  *)
(* the call is to leave it, but for units of the old length that write_at  *)
(* has already replaced; a call that returned Ok has taken full effect,    *)
(* one that returned NoSpace has had none.                                 *)
AsPromised ==
    \A p \in Paths :
        LET v == View(p)
        IN  IF p # op.path THEN v = promised[p]
            ELSE CASE Idle /\ result = "ok" -> v = op.after
                   [] Idle /\ result = "nospace" -> v = op.before
                   [] OTHER -> Between(op.before, op.after, v)

(* FreeCountHonest: a free count left readable in the FSInfo sector, which *)
(* other drivers trust, is the number of free clusters, at every crash     *)
(* point: invalidate_fsinfo_hint has run before the FAT first changes.     *)
FreeCountHonest ==
    fsinfo # Unknown => fsinfo = Cardinality({c \in Clusters : fat_entry(c) = 0})
=============================================================================
