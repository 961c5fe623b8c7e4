--------------------------- MODULE MCShareProcess ---------------------------
(***************************************************************************)
(* ShareProcess with two processes after a killed one, and one command.    *)
(***************************************************************************)
EXTENDS ShareProcess, TLC

Symmetry == Permutations(Proc)
=============================================================================
