----------------------------- MODULE MCTerminal -----------------------------
(* Model-checking instance of Terminal. *)
EXTENDS Terminal, TLC

MCSymmetry == Permutations(Procs)
=============================================================================
