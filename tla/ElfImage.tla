------------------------------ MODULE ElfImage ------------------------------
(***************************************************************************)
(* What src/src/elf.rs accepts and what it loads: parse's validation of    *)
(* the program headers, populate's pages and copies.  An image is its      *)
(* length, its entry point and its program headers; the byte at offset o   *)
(* of the file is o + 1, so that a zeroed byte, 0, is none of the file's.  *)
(* The fixed fields of the ELF header are taken to be right.               *)
(***************************************************************************)
EXTENDS Integers, Sequences, FiniteSets, SequencesExt

CONSTANTS
  PageSize,
  Word,          \* addresses and sizes are below Word, 2^64
  LOAD_MIN, LOAD_MAX,
  MAX_SEGMENTS, MAX_PAGES,
  Images         \* the images tried

VARIABLES image, result      \* what load is given, and what it makes of it

elfVars == <<image, result>>

align_down(v) == (v \div PageSize) * PageSize
align_up(v) == ((v + PageSize - 1) \div PageSize) * PageSize
Overflows(a, b) == a + b >= Word           \* checked_add gives None
EndOf(h) == h.vaddr + h.memsz
PagesOf(h) == (align_up(EndOf(h)) - align_down(h.vaddr)) \div PageSize

----------------------------------------------------------------------------
(* The checks on one loadable header, in the code's order. *)
HeaderError(h, segments, pages) ==
  CASE h.filesz > h.memsz -> "BadSegment"
    [] Overflows(h.vaddr, h.memsz) -> "BadSegment"
    [] h.vaddr < LOAD_MIN \/ EndOf(h) > LOAD_MAX -> "BadSegment"
    [] Overflows(h.offset, h.filesz) -> "Truncated"
    [] h.offset + h.filesz > image.len -> "Truncated"
    [] "W" \in h.flags /\ "X" \in h.flags -> "WritableExecutable"
    [] Len(segments) = MAX_SEGMENTS -> "TooManySegments"
    [] pages + PagesOf(h) > MAX_PAGES -> "TooLarge"
    [] OTHER -> "none"

(* parse's loop over the headers: the first error ends it. *)
header(st, h) ==
  CASE st.error # "none" -> st
    [] h.type = "INTERP" -> [st EXCEPT !.error = "Dynamic"]
    [] h.type # "LOAD" \/ h.memsz = 0 -> st
    [] OTHER ->
         LET e == HeaderError(h, st.segments, st.pages)
         IN  IF e # "none" THEN [st EXCEPT !.error = e]
             ELSE [st EXCEPT !.segments = Append(@, h), !.pages = @ + PagesOf(h)]

Overlap(segments) ==
  \E i, j \in DOMAIN segments :
    i < j /\ segments[i].vaddr < EndOf(segments[j]) /\ segments[j].vaddr < EndOf(segments[i])
EntryOk(segments) ==
  \E i \in DOMAIN segments :
    "X" \in segments[i].flags /\ image.entry >= segments[i].vaddr /\ image.entry < EndOf(segments[i])

parse ==
  LET st == FoldLeft(LAMBDA a, h : header(a, h),
                     [error |-> "none", segments |-> <<>>, pages |-> 0], image.headers)
      error == CASE st.error # "none" -> st.error
                 [] st.segments = <<>> -> "NoLoadable"
                 [] Overlap(st.segments) -> "Overlap"
                 [] ~EntryOk(st.segments) -> "BadEntry"
                 [] OTHER -> "none"
  IN  [error |-> error, segments |-> st.segments]

----------------------------------------------------------------------------
(* Pages are keyed by their address: [flags, bytes], bytes by offset. *)
Touched(h) == {v \in align_down(h.vaddr)..(align_up(EndOf(h)) - 1) : v % PageSize = 0}
ZeroPage(flags) == [flags |-> flags, bytes |-> [o \in 0..PageSize-1 |-> 0]]

(* Every page a segment touches: new and zeroed, or shared with an earlier one. *)
with_pages(pages, h) ==
  [v \in DOMAIN pages \cup Touched(h) |->
     IF v \notin DOMAIN pages THEN ZeroPage(h.flags)
     ELSE IF v \in Touched(h) THEN [pages[v] EXCEPT !.flags = @ \cup h.flags]
     ELSE pages[v]]

(* mutant: the first copy takes all of the file part *)
chunk_rest(h, copied) == h.filesz - copied

(* One iteration of the copy loop writes n bytes into one frame; what would
   run past the frame does not reach the next page. *)
chunk(h, copied) ==
  LET in_page == (h.vaddr + copied) % PageSize
      rest == h.filesz - copied
  IN  IF rest < PageSize - in_page THEN rest ELSE PageSize - in_page

RECURSIVE copy_file(_, _, _)
copy_file(pages, h, copied) ==
  IF copied >= h.filesz THEN pages
  ELSE LET page == align_down(h.vaddr + copied)
           in_page == h.vaddr + copied - page
           n == chunk(h, copied)
           bytes == [o \in 0..PageSize-1 |->
                       IF o \in in_page..(in_page + n - 1) THEN h.offset + copied + (o - in_page) + 1
                       ELSE pages[page].bytes[o]]
       IN  copy_file([pages EXCEPT ![page].bytes = bytes], h, copied + n)

populate(segments) ==
  LET none == [v \in {} |-> ZeroPage({})]
  IN  FoldLeft(LAMBDA pages, h : copy_file(with_pages(pages, h), h, 0), none, segments)

(* load, as long as frames last: the error or the pages that get mapped. *)
load ==
  LET p == parse
      pages == populate(p.segments)
  IN  CASE p.error # "none" -> [error |-> p.error]
        [] p.error = "none" /\ \E v \in DOMAIN pages : {"W", "X"} \subseteq pages[v].flags ->
             [error |-> "WritableExecutable"]
        [] OTHER -> [error |-> "none", pages |-> pages]

ElfInit == image \in Images /\ result = [error |-> "pending"]
ElfNext == result.error = "pending" /\ result' = load /\ UNCHANGED image

----------------------------------------------------------------------------
(* What the program headers ask for, byte by byte: the value of address a. *)
Wanted(a) ==
  LET loads == {h \in ToSet(image.headers) : h.type = "LOAD" /\ a \in h.vaddr..(EndOf(h) - 1)}
  IN  IF loads = {} THEN 0
      ELSE LET h == CHOOSE h \in loads : TRUE
           IN  IF a - h.vaddr < h.filesz THEN h.offset + (a - h.vaddr) + 1 ELSE 0

(* Nothing is wrong with the image: its segments are in range, in the file, on
   pages of their own, few enough, and one that is executable has the entry. *)
Plain ==
  LET segs == SelectSeq(image.headers, LAMBDA h : h.type = "LOAD" /\ h.memsz > 0)
  IN  /\ \A h \in ToSet(image.headers) : h.type # "INTERP"
      /\ Len(segs) \in 1..MAX_SEGMENTS
      /\ FoldLeft(LAMBDA n, h : n + PagesOf(h), 0, segs) <= MAX_PAGES
      /\ \A i \in DOMAIN segs :
           /\ segs[i].filesz <= segs[i].memsz /\ segs[i].offset + segs[i].filesz <= image.len
           /\ segs[i].vaddr >= LOAD_MIN /\ EndOf(segs[i]) <= LOAD_MAX
           /\ segs[i].flags # {"W", "X"}
           /\ \A j \in DOMAIN segs : i # j => Touched(segs[i]) \cap Touched(segs[j]) = {}
      /\ EntryOk(segs)

(* A loaded image has every byte its headers ask for and zeros around them,
   none from beyond the file, all of it between LOAD_MIN and LOAD_MAX; each
   page has the rights of its segments and none is writable and executable;
   the entry is in an executable page.  An image with nothing wrong is loaded. *)
LoadedAsPromised ==
  /\ result.error = "none" =>
       /\ \A v \in DOMAIN result.pages :
            /\ v >= LOAD_MIN /\ v + PageSize <= LOAD_MAX
            /\ ~({"W", "X"} \subseteq result.pages[v].flags)
            /\ \A o \in 0..PageSize-1 : /\ result.pages[v].bytes[o] = Wanted(v + o)
                                        /\ result.pages[v].bytes[o] <= image.len
       /\ \A h \in ToSet(image.headers) :
            h.type = "LOAD" => \A a \in h.vaddr..(EndOf(h) - 1) :
                                 h.flags \subseteq result.pages[align_down(a)].flags
       /\ "X" \in result.pages[align_down(image.entry)].flags
  /\ Plain => result.error \in {"pending", "none"}
=============================================================================
