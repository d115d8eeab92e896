-------------------------------- MODULE Names --------------------------------
(***************************************************************************)
(* From a path to a file: the tar archive of src/src/initramfs.rs, the     *)
(* mount table of src/src/vfs.rs and its lookups and listings.  A string   *)
(* is a sequence of characters, because the code cuts strings, not lists   *)
(* of names.  The calls run one after the other here.                      *)
(***************************************************************************)
EXTENDS Integers, Sequences, FiniteSets, SequencesExt

CONSTANTS
  BLOCK,                  \* bytes of a tar block, 512 in the code
  MAX_DEPTH, MAX_FILES,   \* 32 and 4096 in the code
  Archives,               \* archives, as the members they were made of
  Volumes,                \* FAT32 volumes: device -> the files in its root
  MountPoints,            \* the mount points asked for
  Paths                   \* the paths looked up

VARIABLES members, mounts, answer

nameVars == <<members, mounts, answer>>

Slash == <<"/">>
Dot == <<".">>
Strip(s, prefix) == SubSeq(s, Len(prefix) + 1, Len(s))
StartsWith(s, prefix) == IsPrefix(prefix, s)

(* split('/'), and join with a '/' before every part. *)
split(s) ==
  FoldLeft(LAMBDA parts, c : IF c = "/" THEN Append(parts, <<>>)
                             ELSE [parts EXCEPT ![Len(parts)] = Append(@, c)],
           <<<<>>>>, s)
join(parts) == FoldLeft(LAMBDA s, p : s \o Slash \o p, <<>>, parts)

RECURSIVE trim_start(_)
trim_start(s) == IF StartsWith(s, Slash) THEN trim_start(Tail(s)) ELSE s

Ok(v) == [error |-> "none", value |-> v]
Err(e) == [error |-> e, value |-> <<>>]

-----------------------------------------------------------------------------
(* A tar archive: for every member a header and its data, in whole blocks, then
   a block of zeros.  A block of data may look like a header. *)
Header(m) == [zero |-> FALSE, valid |-> TRUE, prefix |-> m.prefix, name |-> m.name,
              size |-> m.size, type |-> m.type]
Zero == [zero |-> TRUE]
Blocks == FoldLeft(LAMBDA bs, m : bs \o <<Header(m)>> \o m.data, <<>>, members) \o <<Zero>>

(* initramfs::normalize. *)
RECURSIVE strip_root(_)
strip_root(s) ==
  IF StartsWith(s, Dot \o Slash) THEN strip_root(Strip(s, Dot \o Slash))
  ELSE IF StartsWith(s, Slash) THEN strip_root(Tail(s))
  ELSE s

entry_name(h) == strip_root(IF h.prefix = <<>> THEN h.name ELSE h.prefix \o Slash \o h.name)

(* mutant: a file that fills its last block is followed by one block too many *)
padded_always(size) == (size \div BLOCK + 1) * BLOCK

padded(size) == ((size + BLOCK - 1) \div BLOCK) * BLOCK

(* Entries::next, as often as it returns something. *)
RECURSIVE entries_from(_, _)
entries_from(blocks, off) ==
  LET h == blocks[off \div BLOCK + 1]
      data_start == off + BLOCK
      bytes == Len(blocks) * BLOCK
      entry == [name |-> entry_name(h), at |-> data_start, size |-> h.size]
  IN  IF data_start > bytes \/ h.zero \/ ~h.valid \/ data_start + h.size > bytes THEN <<>>
      ELSE (IF h.type = "file" THEN <<entry>> ELSE <<>>)
             \o entries_from(blocks, data_start + padded(h.size))

entries == entries_from(Blocks, 0)

FirstOf(hits) ==
  IF hits = <<>> THEN Err("NotFound") ELSE Ok([at |-> hits[1].at, size |-> hits[1].size])
find(path) == FirstOf(SelectSeq(entries, LAMBDA e : e.name = strip_root(path)))

-----------------------------------------------------------------------------
(* vfs::normalize: a path that leaves the root is no path. *)
step(parts, p) ==
  CASE parts.error # "none" \/ p \in {<<>>, Dot} -> parts
    [] parts.error = "none" /\ p = Dot \o Dot ->
         IF parts.value = <<>> THEN Err("InvalidPath") ELSE Ok(Front(parts.value))
    [] OTHER -> Ok(Append(parts.value, p))
rooted(parts) == IF parts.error # "none" THEN parts
                 ELSE Ok(IF parts.value = <<>> THEN Slash ELSE join(parts.value))
normalize(path) == rooted(FoldLeft(step, Ok(<<>>), split(path)))

(* The mounts that have the path, and what is left of it in them. *)
Below(m, path) ==
  \/ m.prefix = Slash \/ path = m.prefix
  \/ StartsWith(path, m.prefix) /\ StartsWith(Strip(path, m.prefix), Slash)
Inner(m, path) == trim_start(IF m.prefix = Slash THEN path ELSE Strip(path, m.prefix))
route(path) ==
  CHOOSE m \in ToSet(mounts) :
    /\ Below(m, path)
    /\ \A n \in ToSet(mounts) : Below(n, path) => Len(n.prefix) <= Len(m.prefix)

(* The file system that has a normalized path, and the path in it. *)
routed(path) == LET m == route(path) IN [device |-> m.device, inner |-> Inner(m, path)]

(* What fat32.rs answers on a volume with files in its root only. *)
fat_stat(files, inner) == IF inner = <<>> THEN Err("IsDirectory")
                          ELSE IF inner \in files THEN Ok(inner) ELSE Err("NotFound")
fat_list(files, inner) ==
  CASE inner = <<>> -> Ok(SetToSeq({[name |-> f, is_dir |-> FALSE] : f \in files}))
    [] inner \in files -> Err("NotDirectory")
    [] OTHER -> Err("NotFound")

(* read_all: file_size and read_at, which route alike. *)
read_in(at) ==
  IF at.device = "initramfs" THEN find(at.inner) ELSE fat_stat(Volumes[at.device], at.inner)
read_all(path) ==
  LET p == normalize(path) IN IF p.error # "none" THEN p ELSE read_in(routed(p.value))

Listed(out, name) == \E i \in DOMAIN out : out[i].name = name

(* The archive's files below inner, each by its next component, once. *)
archived(inner) ==
  LET prefix == IF inner = <<>> THEN <<>> ELSE inner \o Slash
      add(out, e) ==
        LET rest == Strip(e.name, prefix)
            name == split(rest)[1]
        IN  IF ~StartsWith(e.name, prefix) \/ rest = <<>> \/ Listed(out, name) THEN out
            ELSE Append(out, [name |-> name, is_dir |-> Contains(rest, "/")])
  IN  FoldLeft(add, <<>>, entries)
unless_empty(inner, out) == IF inner # <<>> /\ out = <<>> THEN Err("NotFound") ELSE Ok(out)
list_initramfs(inner) ==
  IF inner # <<>> /\ find(inner).error = "none" THEN Err("NotDirectory")
  ELSE unless_empty(inner, archived(inner))

(* One mount, added to the listing of a path. *)
child_mount(path, out, m) ==
  LET rest == trim_start(IF path = Slash THEN m.prefix ELSE Strip(m.prefix, path))
      name == split(rest)[1]
  IN  IF \/ m.prefix = path \/ (path # Slash /\ ~StartsWith(m.prefix, path))
         \/ name = <<>> \/ Listed(out, name) THEN out
      ELSE Append(out, [name |-> name, is_dir |-> TRUE])

list_in(p) ==
  LET at == routed(p.value)
  IN  CASE p.error # "none" -> p
        [] p.error = "none" /\ at.device = "initramfs" -> list_initramfs(at.inner)
        [] OTHER -> fat_list(Volumes[at.device], at.inner)
with_mounts(path, own) ==
  IF own.error # "none" THEN own
  ELSE Ok(FoldLeft(LAMBDA out, m : child_mount(path, out, m), own.value, mounts))
list_at(p) == with_mounts(p.value, list_in(p))
list(path) == list_at(normalize(path))

(* list_files: the directories depth first, within its two limits. *)
RECURSIVE walk(_, _, _)
walk_list(path, l, out, depth) ==
  LET visit(acc, e) ==
        LET child == (IF path = Slash THEN <<>> ELSE path) \o Slash \o e.name
        IN  IF acc.stop THEN acc
            ELSE IF e.is_dir THEN [acc EXCEPT !.out = walk(child, acc.out, depth + 1)]
            ELSE [out |-> Append(acc.out, child), stop |-> Len(acc.out) + 1 >= MAX_FILES]
  IN  IF l.error # "none" THEN out ELSE FoldLeft(visit, [out |-> out, stop |-> FALSE], l.value).out
walk(path, out, depth) ==
  IF depth >= MAX_DEPTH \/ Len(out) >= MAX_FILES THEN out
  ELSE walk_list(path, list(path), out, depth)

list_files == walk(Slash, <<>>, 0)

-----------------------------------------------------------------------------
NoAnswer == [op |-> "none"]

NamesInit ==
  /\ members \in Archives
  /\ mounts = <<[prefix |-> Slash, device |-> "initramfs"]>>
  /\ answer = NoAnswer

(* mount_fat32_inner: an absolute path but the root, each path and device once. *)
mount(prefix, device) ==
  LET p == normalize(prefix)
  IN  /\ answer' = NoAnswer /\ UNCHANGED members
      /\ IF \/ ~StartsWith(prefix, Slash) \/ p.error # "none" \/ p.value = Slash
            \/ \E m \in ToSet(mounts) : m.prefix = p.value \/ m.device = device
         THEN UNCHANGED mounts
         ELSE mounts' = Append(mounts, [prefix |-> p.value, device |-> device])

lookup ==
  /\ answer = NoAnswer
  /\ \/ \E path \in Paths : answer' = [op |-> "read", path |-> path, result |-> read_all(path)]
     \/ \E path \in Paths : answer' = [op |-> "list", path |-> path, result |-> list(path)]
     \/ answer' = [op |-> "files", result |-> ToSet(list_files)]
  /\ UNCHANGED <<members, mounts>>

NamesNext == lookup \/ \E prefix \in MountPoints, device \in DOMAIN Volumes : mount(prefix, device)

-----------------------------------------------------------------------------
(* What should be there, by components: every member's place in the archive,
   and the mount a list of components belongs to. *)
Components(s) == SelectSeq(split(s), LAMBDA p : p \notin {<<>>, Dot})
StartOf(i) == FoldLeft(LAMBDA n, m : n + (1 + Len(m.data)) * BLOCK, 0, SubSeq(members, 1, i - 1))
Files ==
  [i \in DOMAIN members |-> [path |-> Components(members[i].prefix) \o Components(members[i].name),
                             file |-> [at |-> StartOf(i) + BLOCK, size |-> members[i].size]]]
Regular == {i \in DOMAIN members : members[i].type = "file"}
Owner(c) ==
  CHOOSE m \in ToSet(mounts) :
    /\ IsPrefix(Components(m.prefix), c)
    /\ \A n \in ToSet(mounts) :
         IsPrefix(Components(n.prefix), c) => Len(Components(n.prefix)) <= Len(Components(m.prefix))

(* The file a normalized path names: in the archive the first of its name. *)
Named(c) ==
  LET m == Owner(c)
      inner == SubSeq(c, Len(Components(m.prefix)) + 1, Len(c))
      hits == {i \in Regular : Files[i].path = c}
  IN  IF m.device = "initramfs"
      THEN {Files[i].file : i \in {j \in hits : \A k \in hits : j <= k}}
      ELSE {f \in Volumes[m.device] : inner = <<f>>}

Everything ==
  {p \in {join(Files[i].path) : i \in Regular}
          \cup UNION {{m.prefix \o Slash \o f : f \in Volumes[m.device]} :
                      m \in {n \in ToSet(mounts) : n.device # "initramfs"}} :
     Named(Components(p)) # {}}

Mounted == {m \in ToSet(mounts) : m.prefix # Slash}
Parent(m) == Front(Components(m.prefix))

(* Every mount point is below a directory that can be listed, and no file has
   its name. *)
Proper ==
  \A m \in Mounted :
    /\ list(join(Parent(m))).error = "none"
    /\ \A i \in Regular : ~IsPrefix(Files[i].path, Components(m.prefix))
    /\ \A n \in Mounted : m # n => Parent(m) # Components(n.prefix) \/ Last(Components(m.prefix)) \notin Volumes[n.device]

(* A path names the file it should, in the archive or on the deepest mount
   above it, whatever its dots and slashes, and whatever the data in front of
   it in the archive looks like; files are listed exactly once and all that can
   be read is found by list_files, if mount points are in proper places. *)
NamesResolve ==
  /\ answer.op = "read" =>
       LET p == normalize(answer.path)
           named == Named(Components(p.value))
       IN  IF p.error # "none" THEN answer.result = p
           ELSE IF answer.result.error = "none" THEN named = {answer.result.value} ELSE named = {}
  /\ answer.op = "list" => \A i, j \in DOMAIN answer.result.value :
       answer.result.value[i].name = answer.result.value[j].name => i = j
  /\ answer.op = "files" /\ Proper => answer.result = Everything

(* "Mounted filesystems appear as directories in their parent mount": a listing
   of the directory above a mount point has it as a directory, and what a listing
   has besides its own filesystem's entries are such directories, or lead to one. *)
MountsAppear ==
  answer.op = "list" /\ answer.result.error = "none" =>
    LET p == normalize(answer.path)
        c == Components(p.value)
        names == {<<e.name, e.is_dir>> : e \in ToSet(answer.result.value)}
        own == list_in(p)
    IN  /\ \A n \in Mounted : Parent(n) = c => <<Last(Components(n.prefix)), TRUE>> \in names
        /\ \A x \in names : \/ x \in {<<e.name, e.is_dir>> : e \in ToSet(own.value)}
                            \/ \E n \in Mounted : IsPrefix(Append(c, x[1]), Components(n.prefix))
=============================================================================
