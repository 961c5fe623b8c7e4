----------------------------- MODULE MCSharing -----------------------------
(***************************************************************************)
(* Sharing on small instances.                                             *)
(***************************************************************************)
EXTENDS Sharing, TLC

MCCaller    == {"stream", "relay", "resize"}
MCPlaintext == ({"out"} \X (1..MaxOutput)) \cup ({"size"} \X (1..MaxSize))

Symmetry == Permutations(ViewerID) \cup Permutations(RelayID) \cup Permutations(Revoker)

\* The state constraint of the run of MCSharing.cfg, which joins two instances:
\* two viewers and one revocation among output, departures and the end of the
\* relay, and three viewers with two revocations, which may overlap, without
\* these.
TwoViewers ==
    /\ Cardinality({r \in RelayID : view[r].pc # "dial"}) <= 2
    /\ Cardinality({k \in Revoker : revoke[k].pc # "idle"}) <= 1
    /\ relayUp \/ output <= 1
OnlyRevocations ==
    output = 0 /\ relayUp /\ \A r \in RelayID : view[r].pc # "left"
Instances == TwoViewers \/ OnlyRevocations
=============================================================================
