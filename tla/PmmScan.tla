------------------------------- MODULE PmmScan -------------------------------
(***************************************************************************)
(* The loops inside Pmm::alloc_contiguous and fill_range (src/src/pmm.rs), *)
(* one iteration per step: the search that skips full words and counts a   *)
(* run of clear bits, and the fill that sets the run, whole words at a     *)
(* time where it can.                                                      *)
(***************************************************************************)
EXTENDS Integers, FiniteSets

CONSTANTS W, TotalFrames, Counts

ASSUME ScanAssumption ==
  /\ W \in Nat \ {0} /\ TotalFrames \in Nat \ {0}
  /\ Counts \subseteq Nat \ {0}

Bit == 0..(((TotalFrames + W - 1) \div W) * W - 1)
PastEnd == TotalFrames..(((TotalFrames + W - 1) \div W) * W - 1)
Frame == 0..(TotalFrames - 1)

VARIABLES
  before,              \* the bitmap when the call begins
  bitmap, count,       \* the bitmap now, and the run asked for
  frame, run, start,   \* the locals of the search
  first, left,         \* the locals of fill_range
  pc

vars == <<before, bitmap, count, frame, run, start, first, left, pc>>

(* Any bitmap whose bits past the last frame are set, and a count the
   free_frames test lets through (one frame alone goes to alloc_one). *)
Init ==
  /\ before \in {PastEnd \cup used : used \in SUBSET Frame}
  /\ count \in Counts /\ count <= Cardinality(Bit \ before)
  /\ bitmap = before
  /\ frame = 0 /\ run = 0 /\ start = 0 /\ first = 0 /\ left = 0
  /\ pc = "scan"

WordFull(f) == \A b \in f..(f + W - 1) : b \in bitmap

(* mutant: the run survives a full word *)
skip_word_keeps_run ==
  /\ pc = "scan" /\ frame < TotalFrames
  /\ frame % W = 0 /\ WordFull(frame)
  /\ frame' = frame + W
  /\ UNCHANGED <<before, bitmap, count, run, start, first, left, pc>>

(* frame is at a word boundary and the word is full: skip it whole. *)
skip_word ==
  /\ pc = "scan" /\ frame < TotalFrames
  /\ frame % W = 0 /\ WordFull(frame)
  /\ run' = 0
  /\ frame' = frame + W
  /\ UNCHANGED <<before, bitmap, count, start, first, left, pc>>

(* Otherwise one bit: a set bit ends the run, a clear one extends it, and the
   search stops when the run is long enough. *)
scan_bit ==
  /\ pc = "scan" /\ frame < TotalFrames
  /\ ~(frame % W = 0 /\ WordFull(frame))
  /\ \/ /\ frame \in bitmap
        /\ run' = 0 /\ frame' = frame + 1
        /\ UNCHANGED <<start, first, left, pc>>
     \/ /\ frame \notin bitmap
        /\ run' = run + 1
        /\ start' = IF run = 0 THEN frame ELSE start
        /\ IF run' = count
             THEN pc' = "fill" /\ first' = start' /\ left' = count /\ UNCHANGED frame
             ELSE frame' = frame + 1 /\ UNCHANGED <<first, left, pc>>
  /\ UNCHANGED <<before, bitmap, count>>

(* The loop ends without a run: None. *)
scan_fails ==
  /\ pc = "scan" /\ frame >= TotalFrames
  /\ pc' = "none"
  /\ UNCHANGED <<before, bitmap, count, frame, run, start, first, left>>

(* fill_range, its first and third loop: bit by bit up to a word boundary,
   and what is left after the last whole word. *)
fill_bit ==
  /\ pc = "fill" /\ left > 0
  /\ first % W # 0 \/ left < W
  /\ bitmap' = bitmap \cup {first}
  /\ first' = first + 1 /\ left' = left - 1
  /\ UNCHANGED <<before, count, frame, run, start, pc>>

(* fill_range, its second loop: a whole word. *)
fill_word ==
  /\ pc = "fill" /\ left >= W /\ first % W = 0
  /\ bitmap' = bitmap \cup first..(first + W - 1)
  /\ first' = first + W /\ left' = left - W
  /\ UNCHANGED <<before, count, frame, run, start, pc>>

fill_done ==
  /\ pc = "fill" /\ left = 0
  /\ pc' = "some"
  /\ UNCHANGED <<before, bitmap, count, frame, run, start, first, left>>

Next == skip_word \/ scan_bit \/ scan_fails \/ fill_bit \/ fill_word \/ fill_done

Spec == Init /\ [][Next]_vars /\ WF_vars(Next)

-----------------------------------------------------------------------------
TypeOK ==
  /\ before \subseteq Bit /\ bitmap \subseteq Bit /\ count \in Counts
  /\ frame \in Nat /\ run \in Nat /\ start \in Nat
  /\ first \in Nat /\ left \in Nat
  /\ pc \in {"scan", "fill", "some", "none"}

(* A run of n clear bits from s, in the bitmap the call found. *)
ClearRun(s, n) == s + n <= TotalFrames /\ \A b \in s..(s + n - 1) : b \notin before

(* alloc_contiguous takes the first run there is and sets exactly its bits, and
   returns None only if there is none. *)
FirstFit ==
  /\ pc = "some" =>
       /\ ClearRun(start, count) /\ \A s \in 0..(start - 1) : ~ClearRun(s, count)
       /\ bitmap = before \cup start..(start + count - 1)
  /\ pc = "none" => bitmap = before /\ \A s \in Frame : ~ClearRun(s, count)
=============================================================================
