--------------------------- MODULE MCRateLimiter ---------------------------
(***************************************************************************)
(* RateLimiter with durations scaled down and their order kept: the window *)
(* is shorter than the violation hour, which is as long as the first ban.  *)
(***************************************************************************)
EXTENDS RateLimiter, TLC

CONSTANTS conn, reg

MCLimit  == (conn :> 2) @@ (reg :> 1)
MCWindow == (conn :> 2) @@ (reg :> 2)
Symmetry == Permutations(Request)
=============================================================================
