------------------------------- MODULE Broker -------------------------------
(***************************************************************************)
(* What the relay promises, without its goroutines, locks and channels:    *)
(* the abstract specification that Relay implements, and the relay as the  *)
(* sharer and the viewers may think of it.                                 *)
(*                                                                         *)
(* A viewer that was admitted to a session is due every message the sharer *)
(* sends from then on, to all or to it alone.  It gets what it is due in   *)
(* the order sent, each at most once, after a join-ack; a message to all   *)
(* may be left out, one to the viewer alone may not.  Only a member, or    *)
(* one that has been told of the end, is acknowledged; whoever is a        *)
(* connected member when the session ends is told, and an ended session    *)
(* admits nobody.                                                          *)
(***************************************************************************)
EXTENDS Naturals, Sequences

CONSTANTS Sharer, Viewer

VARIABLES
    members,    \* the viewers of each session
    over,       \* the session has ended
    sent,       \* messages sent by each sharer
    connected,  \* the viewer's connection is usable
    due,        \* messages sent to the viewer, alone or with all others
    got         \* frames the viewer was given

vars == <<members, over, sent, connected, due, got>>

Init ==
    /\ members = [s \in Sharer |-> {}]
    /\ over = [s \in Sharer |-> FALSE]
    /\ sent = [s \in Sharer |-> 0]
    /\ connected = [v \in Viewer |-> FALSE]
    /\ due = [v \in Viewer |-> <<>>]
    /\ got = [v \in Viewer |-> <<>>]

Control(c)  == [kind |-> c, n |-> 0]
Given(v, f) == \E i \in DOMAIN got[v] : got[v][i] = f
Acked(v)    == Given(v, Control("join-ack"))
Told(v)     == Given(v, Control("session-ended"))
Member(v)   == \E s \in Sharer : v \in members[s]

Connect(v) ==
    /\ got[v] = <<>> /\ ~connected[v]
    /\ connected' = [connected EXCEPT ![v] = TRUE]
    /\ UNCHANGED <<sent, members, over, due, got>>

Refuse(v) ==
    /\ got[v] = <<>> /\ ~Member(v)
    /\ \E c \in {"session-not-found", "session-full"} :
          got' = [got EXCEPT ![v] = Append(got[v], Control(c))]
    /\ connected' = [connected EXCEPT ![v] = FALSE]
    /\ UNCHANGED <<sent, members, over, due>>

Admit(s, v) ==
    /\ ~over[s] /\ got[v] = <<>> /\ ~Member(v)
    /\ members' = [members EXCEPT ![s] = members[s] \cup {v}]
    /\ UNCHANGED <<sent, over, connected, due, got>>

Ack(v) ==
    /\ connected[v] /\ ~Acked(v)
    /\ Member(v) \/ Told(v)
    /\ got' = [got EXCEPT ![v] = Append(got[v], Control("join-ack"))]
    /\ UNCHANGED <<sent, members, over, connected, due>>

\* The next message of s is sent to the viewers of V.
Send(s, V, kind) ==
    /\ ~over[s]
    /\ sent' = [sent EXCEPT ![s] = sent[s] + 1]
    /\ due' = [v \in Viewer |->
                 IF v \in V THEN Append(due[v], [kind |-> kind, n |-> sent[s] + 1]) ELSE due[v]]

Publish(s) ==
    /\ Send(s, members[s], "stream")
    /\ UNCHANGED <<members, over, connected, got>>

\* A viewer that cannot take a unicast is cut off.
Address(s, v) ==
    /\ v \in members[s]
    /\ Send(s, {v}, "unicast")
    /\ \/ UNCHANGED <<members, connected>>
       \/ /\ connected' = [connected EXCEPT ![v] = FALSE]
          /\ members' = [members EXCEPT ![s] = members[s] \ {v}]
    /\ UNCHANGED <<over, got>>

\* The message at place i of due[v] is newer than all that v was given, and
\* no unicast before it is missing.
IsNext(v, i) ==
    /\ \A k \in DOMAIN got[v] : got[v][k].n < due[v][i].n
    /\ \A j \in 1..(i-1) : due[v][j].kind = "unicast" => Given(v, due[v][j])

Deliver(v) ==
    /\ connected[v] /\ Acked(v)
    /\ \E i \in DOMAIN due[v] :
          /\ IsNext(v, i)
          /\ got' = [got EXCEPT ![v] = Append(got[v], due[v][i])]
    /\ UNCHANGED <<sent, members, over, connected, due>>

Disconnect(v) ==
    /\ connected' = [connected EXCEPT ![v] = FALSE]
    /\ UNCHANGED <<sent, members, over, due, got>>

Forget(s, v) ==
    /\ ~connected[v]
    /\ members' = [members EXCEPT ![s] = members[s] \ {v}]
    /\ UNCHANGED <<sent, over, connected, due, got>>

End(s) ==
    /\ ~over[s]
    /\ over' = [over EXCEPT ![s] = TRUE]
    /\ got' = [v \in Viewer |-> IF v \in members[s] /\ connected[v]
                                THEN Append(got[v], Control("session-ended")) ELSE got[v]]
    /\ members' = [members EXCEPT ![s] = {}]
    /\ UNCHANGED <<sent, connected, due>>

Next ==
    \/ \E v \in Viewer : \/ Connect(v) \/ Refuse(v) \/ Ack(v) \/ Deliver(v)
                         \/ Disconnect(v)
    \/ \E s \in Sharer : Publish(s) \/ End(s)
    \/ \E s \in Sharer, v \in Viewer : Admit(s, v) \/ Address(s, v) \/ Forget(s, v)

Spec == Init /\ [][Next]_vars

=============================================================================
