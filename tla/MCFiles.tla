----------------------------- MODULE MCFiles ------------------------------
(* Two processes on one volume, for TLC.                                   *)
EXTENDS Files, TLC
CONSTANTS p1, p2, x, y
MCProcs == {p1, p2}
MCPrefixes == {x, y}
MCFlags == {{"rdwr", "creat", "append"}, {"rdwr", "trunc"}, {}}
MCSymmetry == Permutations(MCProcs) \cup Permutations(MCPrefixes)
=============================================================================
