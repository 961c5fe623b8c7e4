------------------------------- MODULE MCJoin -------------------------------
(***************************************************************************)
(* Join for TLC.  The bounds are given in the configuration.               *)
(***************************************************************************)
EXTENDS Join
=============================================================================
