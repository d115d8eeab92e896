----------------------------- MODULE UserMemory -----------------------------
(***************************************************************************)
(* What passes between the kernel and a process's memory: the arguments    *)
(* that build_stack (src/src/process.rs) lays out on a new stack, the      *)
(* copies of src/src/vmm.rs that never dereference a user pointer, and     *)
(* copy_user_string and copy_user_vector (src/src/syscall.rs) on top of    *)
(* them.  A page is its address; only pages with the USER bit are here, so *)
(* a kernel page is one that is not mapped.  All bytes are taken for text. *)
(***************************************************************************)
EXTENDS Integers, Sequences, FiniteSets, SequencesExt

CONSTANTS
  PageSize, WordSize,
  Base,                 \* a byte is in 0..Base-1
  USER_SPACE_END,
  USER_STACK_TOP, USER_STACK_PAGES,
  MAX_NAME,             \* bytes of a string, 255 in the code
  MAX_VECTOR,           \* strings of a vector, 32 in the code
  ImagePages,           \* the pages of the program: address -> flags
  Vectors,              \* the argument and environment vectors tried
  Calls                 \* the copies tried

VARIABLES argv, env, memory, sp, call

userVars == <<argv, env, memory, sp, call>>

Word == Base^WordSize          \* an address is below Word
align_down(v, a) == (v \div a) * a
Page(a) == align_down(a, PageSize)

(* Page contents with bytes written from address a on; all of them are in it. *)
written(bytes, a, values) ==
  [o \in 0..PageSize-1 |-> LET i == o - (a % PageSize) + 1
                           IN  IF i \in DOMAIN values THEN values[i] ELSE bytes[o]]

-----------------------------------------------------------------------------
(* The program's bytes are not zero; a new stack's are. *)
Loaded ==
  [v \in DOMAIN ImagePages |->
     [flags |-> ImagePages[v], bytes |-> [o \in 0..PageSize-1 |-> 1 + ((v + o) % (Base \div 2))]]]
StackPage(v) == [flags |-> {"W"}, bytes |-> [o \in 0..PageSize-1 |-> 0]]
StackPages == {USER_STACK_TOP - i * PageSize : i \in 1..USER_STACK_PAGES}
PageBase == USER_STACK_TOP - PageSize

(* One string of build_stack, from the last to the first: below the previous
   one, in the top page, or there is no stack. *)
place(value, st) ==
  LET at == st.cursor - (Len(value) + 1)
  IN  IF ~st.ok \/ Len(value) > MAX_NAME \/ at < PageBase THEN [st EXCEPT !.ok = FALSE]
      ELSE [st EXCEPT !.cursor = at, !.ptrs = <<at>> \o @, !.top = written(@, at, value)]

to_bytes(w) == [i \in 1..WordSize |-> (w \div Base^(i - 1)) % Base]
from_bytes(b) == FoldRight(LAMBDA x, acc : acc * Base + x, b, 0)

(* argc, the pointers, each list with its terminator, and the AT_NULL pair; the
   stack pointer is aligned to two words. *)
build_stack(a, e) ==
  LET start == [ok |-> TRUE, cursor |-> USER_STACK_TOP, ptrs |-> <<>>, top |-> StackPage(PageBase).bytes]
      argvPlaced == FoldRight(place, a, start)
      envPlaced == FoldRight(place, e, [argvPlaced EXCEPT !.ptrs = <<>>])
      words == <<Len(a)>> \o argvPlaced.ptrs \o <<0>> \o envPlaced.ptrs \o <<0, 0, 0>>
      at == align_down(envPlaced.cursor - Len(words) * WordSize, 2 * WordSize)
      top == FoldLeft(LAMBDA bytes, i : written(bytes, at + (i - 1) * WordSize, to_bytes(words[i])),
                      envPlaced.top, [i \in DOMAIN words |-> i])
  IN  IF ~envPlaced.ok \/ at < PageBase THEN [ok |-> FALSE]
      ELSE [ok |-> TRUE, sp |-> at,
            memory |-> [v \in DOMAIN Loaded \cup StackPages |->
              CASE v = PageBase -> [flags |-> {"W"}, bytes |-> top]
                [] v \in StackPages \ {PageBase} -> StackPage(v)
                [] OTHER -> Loaded[v]]]

spawn_with ==
  /\ call.op = "none" /\ sp = 0
  /\ LET built == build_stack(argv, env)
     IN  \/ built.ok /\ memory' = built.memory /\ sp' = built.sp /\ UNCHANGED call
         \/ ~built.ok /\ call' = [op |-> "NoMemory"] /\ UNCHANGED <<memory, sp>>
  /\ UNCHANGED <<argv, env>>

-----------------------------------------------------------------------------
(* walk_user and walk_user_write find a 4 KiB user page. *)
walk_user(va) == Page(va) \in DOMAIN memory
walk_user_write(va) == walk_user(va) /\ "W" \in memory[Page(va)].flags

(* The addresses validate_user_range walks: the first, then each page's first. *)
Walked(addr, len) == {addr} \cup {va \in addr..(addr + len - 1) : va % PageSize = 0}

(* mutant: only the first page is looked at *)
validate_first_page(addr, len, write) ==
  \/ len = 0
  \/ /\ addr + len < Word
     /\ addr < USER_SPACE_END /\ addr + len <= USER_SPACE_END
     /\ IF write THEN walk_user_write(addr) ELSE walk_user(addr)

validate_user_range(addr, len, write) ==
  \/ len = 0
  \/ /\ addr + len < Word
     /\ addr < USER_SPACE_END /\ addr + len <= USER_SPACE_END
     /\ \A va \in Walked(addr, len) : IF write THEN walk_user_write(va) ELSE walk_user(va)

(* How much of what is left lies in va's page. *)
piece(va, left) == Min({left, PageSize - (va % PageSize)})

(* copy_from_user's loop: what is in dst when it ends, and whether it got to the end. *)
RECURSIVE copy_in(_, _, _)
copy_in(dst, src, done) ==
  LET va == src + done
      n == piece(va, Len(dst) - done)
  IN  IF done >= Len(dst) THEN [ok |-> TRUE, dst |-> dst]
      ELSE IF ~walk_user(va) THEN [ok |-> FALSE, dst |-> dst]
      ELSE copy_in([i \in DOMAIN dst |-> IF i \in (done + 1)..(done + n)
                                         THEN memory[Page(va)].bytes[(va % PageSize) + i - done - 1]
                                         ELSE dst[i]],
                   src, done + n)

Buffer(len) == [i \in 1..len |-> 0]
copy_from_user(src, len) ==
  IF ~validate_user_range(src, len, FALSE) THEN [ok |-> FALSE, dst |-> Buffer(len)]
  ELSE copy_in(Buffer(len), src, 0)

(* copy_to_user's loop, likewise on the memory. *)
RECURSIVE copy_out(_, _, _, _)
copy_out(mem, dst, src, done) ==
  LET va == dst + done
      n == piece(va, Len(src) - done)
  IN  IF done >= Len(src) THEN [ok |-> TRUE, memory |-> mem]
      ELSE IF ~walk_user_write(va) THEN [ok |-> FALSE, memory |-> mem]
      ELSE copy_out([mem EXCEPT ![Page(va)].bytes = written(@, va, SubSeq(src, done + 1, done + n))],
                    dst, src, done + n)

copy_to_user(dst, src) ==
  IF ~validate_user_range(dst, Len(src), TRUE) THEN [ok |-> FALSE, memory |-> memory]
  ELSE copy_out(memory, dst, src, 0)

-----------------------------------------------------------------------------
Ok(v) == [error |-> "none", value |-> v]
Err(e) == [error |-> e, value |-> <<>>]

(* A byte at a time, up to the zero. *)
RECURSIVE string_from(_, _)
string_from(ptr, bytes) ==
  LET i == Len(bytes)
      byte == copy_from_user(ptr + i, 1)
  IN  CASE ptr + i >= Word -> Err("EFAULT")
        [] ptr + i < Word /\ ~byte.ok -> Err("EFAULT")
        [] byte.ok /\ byte.dst[1] = 0 -> Ok(bytes)
        [] byte.ok /\ byte.dst[1] # 0 /\ i = MAX_NAME -> Err("ENAMETOOLONG")
        [] OTHER -> string_from(ptr, Append(bytes, byte.dst[1]))

copy_user_string(ptr) == string_from(ptr, <<>>)

(* A pointer at a time, up to the null pointer. *)
RECURSIVE vector_from(_, _)
vector_from(ptr, values) ==
  LET at == ptr + Len(values) * WordSize
      raw == copy_from_user(at, WordSize)
      string == copy_user_string(from_bytes(raw.dst))
  IN  CASE Len(values) = MAX_VECTOR -> Err("E2BIG")
        [] Len(values) < MAX_VECTOR /\ (at >= Word \/ ~raw.ok) -> Err("EFAULT")
        [] Len(values) < MAX_VECTOR /\ raw.ok /\ from_bytes(raw.dst) = 0 -> Ok(values)
        [] OTHER -> IF string.error # "none" THEN string
                    ELSE vector_from(ptr, Append(values, string.value))

copy_user_vector(ptr, fallback) == IF ptr = 0 THEN Ok(fallback) ELSE vector_from(ptr, <<>>)

-----------------------------------------------------------------------------
(* Where the process finds its arguments, and its environment. *)
ArgvAt == sp + WordSize
EnvAt == sp + WordSize * (Len(argv) + 2)

(* The bytes a call copies to the process. *)
Source(len) == [i \in 1..len |-> (Base \div 2) + i]

UserInit ==
  /\ argv \in Vectors /\ env \in Vectors
  /\ memory = Loaded /\ sp = 0 /\ call = [op |-> "none"]

copy(c) ==
  LET from == copy_from_user(c.addr, c.len)
      to == copy_to_user(c.addr, Source(c.len))
  IN  /\ call.op = "none" /\ sp # 0
      /\ \/ /\ c.op = "read"
            /\ call' = [op |-> "read", addr |-> c.addr, len |-> c.len, ok |-> from.ok, dst |-> from.dst] /\ UNCHANGED memory
         \/ /\ c.op = "write"
            /\ call' = [op |-> "write", addr |-> c.addr, len |-> c.len, ok |-> to.ok] /\ memory' = to.memory
      /\ UNCHANGED <<argv, env, sp>>

(* The process hands its own vectors, or a single string, to exec. *)
sys_exec ==
  /\ call.op = "none" /\ sp # 0
  /\ \/ call' = [op |-> "exec", argv |-> copy_user_vector(ArgvAt, <<>>),
                 env |-> copy_user_vector(EnvAt, <<>>), none |-> copy_user_vector(0, argv)]
     \/ \E ptr \in {c.addr : c \in Calls} :
          call' = [op |-> "string", addr |-> ptr, result |-> copy_user_string(ptr)]
  /\ UNCHANGED <<argv, env, memory, sp>>

UserNext == spawn_with \/ (\E c \in Calls : copy(c)) \/ sys_exec

-----------------------------------------------------------------------------
Built == build_stack(argv, env).memory
Reached(c) == c.addr..(c.addr + c.len - 1)
At(mem, a) == mem[Page(a)].bytes[a % PageSize]
Mapped(a) == a < USER_SPACE_END /\ Page(a) \in DOMAIN memory

(* The string at an address, if there is one: up to the first zero, if that is
   near enough. *)
StringAt(a) ==
  LET ends == {n \in 0..MAX_NAME : /\ \A k \in 0..n : Mapped(a + k)
                                   /\ At(memory, a + n) = 0}
  IN  {[k \in 1..n |-> At(memory, a + k - 1)] : n \in {m \in ends : \A l \in ends : m <= l}}

(* The memory is what it was before the write, but for the range if it is ok. *)
Overwritten(before) ==
  \A v \in DOMAIN before, o \in 0..PageSize-1 :
    memory[v].bytes[o] = IF call.ok /\ v + o \in Reached(call)
                         THEN Source(call.len)[v + o - call.addr + 1] ELSE At(before, v + o)

(* A copy between the kernel and a process moves every byte of the range or
   none: it fails exactly when some byte is not mapped (or not writable), and
   then buffer and memory are as they were.  A process that passes on the
   vectors on its stack passes on the arguments and the environment it was
   given, whatever their number, their lengths and the pages around them; a
   vector is refused only when it does not fit into the top page. *)
CopiesExact ==
  /\ call.op = "read" =>
       /\ call.ok <=> \A a \in Reached(call) : Mapped(a)
       /\ call.dst = [i \in 1..call.len |-> IF call.ok THEN At(memory, call.addr + i - 1) ELSE 0]
  /\ call.op = "write" =>
       /\ call.ok <=> \A a \in Reached(call) : Mapped(a) /\ "W" \in memory[Page(a)].flags
       /\ Overwritten(Built)
  /\ call.op = "string" => 
       StringAt(call.addr) = IF call.result.error = "none" THEN {call.result.value} ELSE {}
  /\ call.op = "exec" => call.argv = Ok(argv) /\ call.env = Ok(env) /\ call.none = Ok(argv)
  /\ sp # 0 => sp % (2 * WordSize) = 0 /\ At(Built, sp) = Len(argv)
  /\ call.op = "NoMemory" =>
       \/ \E s \in ToSet(argv \o env) : Len(s) > MAX_NAME
       \/ LET strings == FoldLeft(LAMBDA n, s : n + Len(s) + 1, 0, argv \o env)
              words == (Len(argv) + Len(env) + 5) * WordSize
          IN  strings + words > PageSize - 2 * WordSize
=============================================================================
