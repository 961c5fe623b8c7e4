----------------------------- MODULE MCSession -----------------------------
(***************************************************************************)
(* Session on a small instance.  Callers, viewers and keys are             *)
(* interchangeable.                                                        *)
(***************************************************************************)
EXTENDS Session, TLC

Symmetry == Permutations(ViewerID) \cup Permutations(AuthKey)
            \cup Permutations(Caller) \cup Permutations(Plaintext)
=============================================================================
