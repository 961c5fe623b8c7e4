------------------------------ MODULE MCRelay ------------------------------
(***************************************************************************)
(* Relay with one session ID that is registered twice, so that the second  *)
(* session meets connections of the first.                                 *)
(***************************************************************************)
EXTENDS Relay, TLC

CONSTANT id

MCIDOf   == [c \in Sharer \cup Viewer |-> id]
Symmetry == Permutations(Sharer) \cup Permutations(Viewer)
=============================================================================
