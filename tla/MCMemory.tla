------------------------------ MODULE MCMemory ------------------------------
(* Model-checking instance of AddressSpaces on Pmm. *)
EXTENDS AddressSpaces

(* Pages 0 to 3 are user pages, in two page tables.  The second image has a
   page that two segments make writable and executable. *)
MCImages == {<<<<0, {"X"}>>, <<1, {"W"}>>>>, <<<<0, {"X"}>>, <<0, {"W"}>>>>}
MCStack == <<3>>
MCSymmetry == Permutations(Spaces)
=============================================================================
