---------------------------- MODULE MCWebClient ----------------------------
(***************************************************************************)
(* WebClient for TLC.  The bounds are given in the configurations.         *)
(***************************************************************************)
EXTENDS WebClient

\* To bound the states: two revocations, whose rekeys may overtake each other,
\* in one epoch, or two epochs and one revocation.
Instances == nowEpoch = 1 \/ key <= 2
=============================================================================
