---------------------------- MODULE MCAlgorithms ----------------------------
(* The kernel's sequential algorithms, one at a time: a behaviour is about one
   topic, the variables of the others stand still.  The frame search
   and the heap are the specifications of PmmScan and Heap themselves. *)
EXTENDS PmmScan, Heap, TLC

CONSTANTS Top, Places, Topics

VARIABLES topic, map, state, total_frames, bitmap_, free_frames, usable_frames, bitmap_at,
  direct, image, result, down, shift, prev_keys, caps_lock, output, meant, caps, rolled,
  argv, env, memory, sp, call, members, mounts, answer

(* Every division of the first Top bytes into three regions, of every
   combination of kinds. *)
Kinds == {"Usable", "BootloaderReclaimable", "Reserved", "Framebuffer"}
MCMaps ==
  { << [base |-> 0, len |-> c[1], kind |-> c[3]],
       [base |-> c[1], len |-> c[2] - c[1], kind |-> c[4]],
       [base |-> c[2], len |-> Top - c[2], kind |-> c[5]] >> :
    c \in {d \in (1..Top-1) \X (1..Top-1) \X Kinds \X Kinds \X Kinds : d[1] < d[2]} }

(* Images of one or two headers.  Pages have two bytes, addresses three bits;
   the program may lie in 2..9. *)
MCHeaders ==
  [type : {"LOAD"}, vaddr : {1, 2, 3, 5, 6}, memsz : {0, 1, 3, 4}, filesz : {0, 1, 3}, offset : {0, 2},
   flags : {{}, {"W"}, {"X"}}]
MCOdd ==
  [type : {"INTERP", "NOTE"}, vaddr : {2}, memsz : {1}, filesz : {1}, offset : {0}, flags : {{}}]
    \cup [type : {"LOAD"}, vaddr : {4, 15}, memsz : {2, 7}, filesz : {1}, offset : {0, 15}, flags : {{"W", "X"}, {"X"}}]
MCImages ==
  [len : {4}, entry : {2, 6}, headers : {<<h>> : h \in MCHeaders \cup MCOdd}
      \cup ({x \in MCHeaders : x.offset = 0} \X {x \in MCHeaders : x.offset = 2})
      \cup {<<g, h>> : g \in MCOdd, h \in {x \in MCHeaders : x.flags = {"X"}}}]

(* Requests of one and three units, and of two at a page boundary. *)
MCLayouts == {<<1, 1>>, <<3, 1>>, <<2, 4>>}

(* Vectors of up to two short strings, or of one that is too long; copies that
   end before, at and after the edges of pages that are mapped, writable or
   neither, and of the address space. *)
MCStrings == {<<>>, <<1>>, <<2, 3, 4>>}
MCVectors == {<<>>, <<<<7, 7, 7, 7>>>>} \cup {<<s>> : s \in MCStrings} \cup {<<s, t>> : s, t \in MCStrings}
MCCalls ==
  [op : {"read", "write"}, addr : {30, 31, 32, 62, 63, 94, 95, 127, 158, 190, 222, 1023}, len : {0, 1, 2, 34}]

(* Archives with a file below m and two at the root, one of them full to the
   block and with data that looks like the header of a file y; the first with
   directories, names that start with a dot and a second file of a name.  The
   mount points meet the archive's directory and file, each other, and paths of
   which their own is the beginning. *)
Member(prefix, name, size, type, data) ==
  [prefix |-> prefix, name |-> name, size |-> size, type |-> type, data |-> data]
LikeY == [zero |-> FALSE, valid |-> TRUE, prefix |-> <<>>, name |-> <<"y">>, size |-> 0, type |-> "file"]
MCArchives ==
  { << Member(<<>>, <<".", "/", "m", "/">>, 0, "dir", <<>>),
       Member(<<>>, <<".", "/", "m", "/", "x">>, 2, "file", <<LikeY>>),
       Member(<<>>, <<"/", "i">>, 3, "file", <<LikeY, LikeY>>),
       Member(<<>>, <<"i">>, 1, "file", <<LikeY>>) >>,
    << Member(<<>>, <<"i">>, 0, "file", <<>>),
       Member(<<"m">>, <<"x">>, 1, "file", <<LikeY>>), Member(<<>>, <<"l">>, 0, "link", <<>>) >>,
    <<>> }
MCVolumes == [d1 |-> {<<"x">>}, d2 |-> {<<"2">>, <<"i">>}]
MCMountPoints ==
  {<<"m">>, <<"/">>, <<"/", "m">>, <<"/", "m", "2">>, <<"/", "m", "/", ".", ".", "/", "/", "n">>,
   <<"/", "n", "/", "2">>, <<"/", ".", "/", "i">>, <<"/", ".", ".", "/", "m">>}
MCPaths ==
  {<<"/">>, <<"/", "m">>, <<"m", "/", "/", "x">>, <<"/", "m", "/", ".", "/", "x", "/">>, <<"/", "m", "2">>,
   <<"/", "m", "2", "/", "i">>, <<"/", "n">>, <<"/", "n", "/", "2">>, <<"/", "n", "/", "2", "/", "x">>,
   <<"/", "i">>, <<"/", "m", "/", ".", ".", "/", "i">>, <<".", ".", "/", "i">>, <<"y">>, <<"/", "m", "x">>}

N == INSTANCE Names WITH BLOCK <- 2, MAX_DEPTH <- 32, MAX_FILES <- 4096, Archives <- MCArchives,
       Volumes <- MCVolumes, MountPoints <- MCMountPoints, Paths <- MCPaths
M == INSTANCE MemoryMap WITH PageSize <- 2, W <- 2, WordBytes <- 1, MinAlloc <- 1, Huge <- 2,
       Maps <- MCMaps, bitmap <- bitmap_
E == INSTANCE ElfImage WITH PageSize <- 2, Word <- 16, LOAD_MIN <- 2, LOAD_MAX <- 10,
       MAX_SEGMENTS <- 2, MAX_PAGES <- 3, Images <- MCImages
K == INSTANCE BootReport WITH Keys <- {"a", "one", "f1", "caps"}, Slots <- Places

U == INSTANCE UserMemory WITH PageSize <- 32, WordSize <- 2, Base <- 32, USER_SPACE_END <- 224,
       USER_STACK_TOP <- 192, USER_STACK_PAGES <- 2, MAX_NAME <- 3, MAX_VECTOR <- 3,
       ImagePages <- (32 :> {"X"}) @@ (64 :> {"W"}), Vectors <- MCVectors, Calls <- MCCalls

scanVars == vars
mapVars == <<map, state, total_frames, bitmap_, free_frames, usable_frames, bitmap_at, direct>>
elfVars == <<image, result>>
keyVars == <<down, shift, prev_keys, caps_lock, output, meant, caps, rolled>>
userVars == <<argv, env, memory, sp, call>>
nameVars == <<members, mounts, answer>>
allVars == <<topic, scanVars, mapVars, heapVars, elfVars, keyVars, userVars, nameVars>>

NoScan == /\ before = {} /\ bitmap = {} /\ count = 0 /\ frame = 0 /\ run = 0 /\ start = 0
          /\ first = 0 /\ left = 0 /\ pc = "off"
NoMap == /\ map = <<>> /\ state = "off" /\ total_frames = 0 /\ bitmap_ = {} /\ free_frames = 0
         /\ usable_frames = 0 /\ bitmap_at = 0 /\ direct = M!Unmapped
NoImage == image = [len |-> 0, entry |-> 0, headers |-> <<>>] /\ result = [error |-> "off"]
NoUser == argv = <<>> /\ env = <<>> /\ memory = <<>> /\ sp = 0 /\ call = [op |-> "off"]
NoNames == members = <<>> /\ mounts = <<>> /\ answer = [op |-> "off"]

AllInit ==
  /\ topic \in Topics /\ HeapInit /\ K!KeysInit
  /\ IF topic = "scan" THEN Init ELSE NoScan
  /\ IF topic = "map" THEN M!Init ELSE NoMap
  /\ IF topic = "elf" THEN E!ElfInit ELSE NoImage
  /\ IF topic = "user" THEN U!UserInit ELSE NoUser
  /\ IF topic = "names" THEN N!NamesInit ELSE NoNames

AllNext ==
  \/ topic = "scan" /\ Next /\ UNCHANGED <<topic, mapVars, heapVars, elfVars, keyVars, userVars, nameVars>>
  \/ topic = "map" /\ M!Next /\ UNCHANGED <<topic, scanVars, heapVars, elfVars, keyVars, userVars, nameVars>>
  \/ topic = "heap" /\ HeapNext /\ UNCHANGED <<topic, scanVars, mapVars, elfVars, keyVars, userVars, nameVars>>
  \/ topic = "elf" /\ E!ElfNext /\ UNCHANGED <<topic, scanVars, mapVars, heapVars, keyVars, userVars, nameVars>>
  \/ topic = "keys" /\ K!KeysNext /\ UNCHANGED <<topic, scanVars, mapVars, heapVars, elfVars, userVars, nameVars>>
  \/ topic = "user" /\ U!UserNext /\ UNCHANGED <<topic, scanVars, mapVars, heapVars, elfVars, keyVars, nameVars>>
  \/ topic = "names" /\ N!NamesNext /\ UNCHANGED <<topic, scanVars, mapVars, heapVars, elfVars, keyVars, userVars>>

AllSpec == AllInit /\ [][AllNext]_allVars

(* See MemoryMap: the frame bitmap starts out free exactly where it may. *)
OnlyUsableFree == M!OnlyUsableFree
(* See MemoryMap: the direct map covers memory and the framebuffer, no more. *)
DirectMapExact == M!DirectMapExact
(* See ElfImage: what load maps is what the program headers ask for. *)
LoadedAsPromised == E!LoadedAsPromised
(* See BootReport: a key press types once. *)
OncePerPress == K!OncePerPress
(* See UserMemory: copies are whole or not at all, arguments arrive. *)
CopiesExact == U!CopiesExact
(* See Names: a path names the file it should. *)
NamesResolve == N!NamesResolve
(* See Names: mounts appear as directories in their parents. *)
MountsAppear == N!MountsAppear
=============================================================================
