---------------------------- MODULE RelayProofs ----------------------------
(***************************************************************************)
(* Relay: type correctness, the safety of a viewer's channel, of the       *)
(* session ID and of the teardown, and that the relay implements Broker,   *)
(* for every number of sessions, sharers and viewers and every buffer.     *)
(***************************************************************************)
EXTENDS Relay, SequenceTheorems, TLAPS

USE NoneAssumption, IDAssumption, SizeAssumption

Frame == Message \cup Control

\* A control frame written to some viewers leaves each wire a sequence of
\* frames, and changes only the wires of connected viewers that it is for.
LEMMA SendControlType ==
    ASSUME TypeOK, NEW V, NEW c,
           c \in {"join-ack", "session-not-found", "session-full", "session-ended"}
    PROVE  SendControl(V, c) \in [Viewer -> Seq(Frame)]
<1>1. [kind |-> c, n |-> 0] \in Frame
  BY DEF Frame, Control
<1>2. \A v \in Viewer : wire[v] \in Seq(Frame)
  BY DEF TypeOK, Frame
<1>3. \A v \in Viewer : Append(wire[v], [kind |-> c, n |-> 0]) \in Seq(Frame)
  BY <1>1, <1>2, AppendProperties
<1> QED
  BY <1>2, <1>3 DEF SendControl

\* A message to the sharer leaves what it received a sequence of notices.
LEMMA WriteToSharerType ==
    ASSUME TypeOK, NEW s \in Sharer, NEW m \in Notice
    PROVE  WriteToSharer(s, m) \in [Sharer -> Seq(Notice)]
<1>1. Append(toSharer[s], m) \in Seq(Notice)
  BY AppendProperties DEF TypeOK
<1> QED
  BY <1>1 DEF WriteToSharer, TypeOK

\* A handler past the look-up has a session object.
Pointers ==
    \A v \in Viewer : viewerPC[v] \in {"found", "ack", "run"} => joined[v] \in Sharer

\* Type correctness: every handler leaves each field and channel in its type.
THEOREM TypeCorrect == Spec => [](TypeOK /\ Pointers)
<1>1. NewServer => TypeOK /\ Pointers
  <2> SUFFICES ASSUME NewServer PROVE TypeOK /\ Pointers
    OBVIOUS
  <2>1. \A S : <<>> \in Seq(S)
    OBVIOUS
  <2> QED
    BY <2>1 DEF NewServer, TypeOK, Pointers
<1>2. TypeOK /\ Pointers /\ [Next]_vars => TypeOK' /\ Pointers'
  <2> SUFFICES ASSUME TypeOK, Pointers, [Next]_vars PROVE TypeOK' /\ Pointers'
    OBVIOUS
  <2> USE DEF Pointers
  <2>1. ASSUME NEW s \in Sharer, handleShare(s) PROVE TypeOK' /\ Pointers'
    <3>1. IDOf[s] \in SessionID
      OBVIOUS
    <3>2. sessions' \in [SessionID -> Sharer \cup {None}]
      BY <2>1, <3>1 DEF handleShare, TypeOK
    <3>3. sharerPC' \in [Sharer -> {"dial", "run", "free", "done"}]
      BY <2>1 DEF handleShare, TypeOK
    <3>4. sharerConn' \in [Sharer -> BOOLEAN]
      BY <2>1 DEF handleShare, TypeOK
    <3> QED
      BY <2>1, <3>2, <3>3, <3>4 DEF handleShare, TypeOK, viewerVars, queueVars
  <2>2. ASSUME NEW s \in Sharer, runSharerBroadcast(s) PROVE TypeOK' /\ Pointers'
    <3> DEFINE m == [kind |-> "stream", n |-> sent[s] + 1]
    <3>1. m \in Message /\ sent[s] + 1 \in Nat
      BY DEF Message, TypeOK
    <3>2. \A v \in Viewer : Append(send[v], m) \in Seq(Message) /\ Append(due[v], m) \in Seq(Message)
      BY <3>1, AppendProperties DEF TypeOK
    <3>3. send' \in [Viewer -> Seq(Message)] /\ due' \in [Viewer -> Seq(Message)]
      BY <2>2, <3>2 DEF runSharerBroadcast, TypeOK
    <3> QED
      BY <2>2, <3>1, <3>3 DEF runSharerBroadcast, TypeOK, viewerVars
  <2>3. ASSUME NEW s \in Sharer, NEW v \in Viewer, runSharerUnicast(s, v)
        PROVE  TypeOK' /\ Pointers'
    <3> DEFINE m == [kind |-> "unicast", n |-> sent[s] + 1]
    <3>1. m \in Message /\ sent[s] + 1 \in Nat
      BY DEF Message, TypeOK
    <3>2. Append(send[v], m) \in Seq(Message) /\ Append(due[v], m) \in Seq(Message)
      BY <3>1, AppendProperties DEF TypeOK
    <3>3. due' \in [Viewer -> Seq(Message)]
      BY <2>3, <3>2 DEF runSharerUnicast, TypeOK
    <3>4. send' \in [Viewer -> Seq(Message)]
      <4>1. send' = send \/ send' = [send EXCEPT ![v] = Append(send[v], m)]
        BY <2>3 DEF runSharerUnicast
      <4> QED
        BY <4>1, <3>2 DEF TypeOK
    <3>5. /\ viewers' \in [Sharer -> SUBSET Viewer]
          /\ sendOpen' \in [Viewer -> BOOLEAN] /\ viewerConn' \in [Viewer -> BOOLEAN]
      <4>1. \/ viewers' = viewers /\ sendOpen' = sendOpen /\ viewerConn' = viewerConn
            \/ DisconnectSlowConsumer(s, v)
        BY <2>3, Zenon DEF runSharerUnicast
      <4>0. viewers[s] \ {v} \in SUBSET Viewer
        BY DEF TypeOK
      <4>2. viewers' \in [Sharer -> SUBSET Viewer]
        BY <4>0, <4>1, Zenon DEF DisconnectSlowConsumer, TypeOK
      <4>3. sendOpen' \in [Viewer -> BOOLEAN]
        BY <4>1, Zenon DEF DisconnectSlowConsumer, TypeOK
      <4>4. viewerConn' \in [Viewer -> BOOLEAN]
        BY <4>1, Zenon DEF DisconnectSlowConsumer, TypeOK
      <4> QED
        BY <4>2, <4>3, <4>4
    <3> QED
      BY <2>3, <3>1, <3>3, <3>4, <3>5 DEF runSharerUnicast, TypeOK
  <2>4. ASSUME NEW s \in Sharer, SharerLost(s) PROVE TypeOK' /\ Pointers'
    BY <2>4 DEF SharerLost, TypeOK, viewerVars, queueVars
  <2>5. ASSUME NEW s \in Sharer, runSharerEnd(s) PROVE TypeOK' /\ Pointers'
    <3>1. wire' \in [Viewer -> Seq(Frame)]
      BY <2>5, SendControlType DEF runSharerEnd
    <3> QED
      BY <2>5, <3>1 DEF runSharerEnd, TypeOK, viewerVars, Frame
  <2>6. ASSUME NEW s \in Sharer, runSharerFree(s) PROVE TypeOK' /\ Pointers'
    BY <2>6 DEF runSharerFree, Freed, TypeOK, viewerVars, queueVars
  <2>7. ASSUME NEW v \in Viewer, handleWatchLookup(v) PROVE TypeOK' /\ Pointers'
    <3> DEFINE f == [kind |-> "session-not-found", n |-> 0]
    <3>1. f \in Message \cup Control
      BY DEF Control
    <3>2. <<f>> \in Seq(Message \cup Control)
      BY <3>1
    <3> HIDE DEF f
    <3>3. wire' = wire \/ wire' = [wire EXCEPT ![v] = <<f>>]
      BY <2>7 DEF handleWatchLookup, f
    <3>4. wire' \in [Viewer -> Seq(Message \cup Control)]
      BY <3>2, <3>3 DEF TypeOK
    <3>5. IDOf[v] \in SessionID
      OBVIOUS
    <3>6. viewerPC' \in [Viewer -> {"dial", "found", "ack", "run", "done"}]
      <4>1. \/ viewerPC' = [viewerPC EXCEPT ![v] = "done"]
            \/ viewerPC' = [viewerPC EXCEPT ![v] = "found"]
        BY <2>7, Zenon DEF handleWatchLookup
      <4> QED
        BY <4>1 DEF TypeOK
    <3>7. viewerConn' \in [Viewer -> BOOLEAN] 
      BY <2>7 DEF handleWatchLookup, TypeOK
    <3>8. joined' \in [Viewer -> Sharer \cup {None}] /\ Pointers'
      BY <2>7, <3>5 DEF handleWatchLookup, TypeOK
    <3> QED
      BY <2>7, <3>4, <3>6, <3>7, <3>8 DEF handleWatchLookup, TypeOK, sharerVars, queueVars
  <2>8. ASSUME NEW v \in Viewer, handleWatchJoin(v) PROVE TypeOK' /\ Pointers'
    <3>0. Refusal(joined[v]) \subseteq {"session-not-found", "session-full"}
      BY DEF Refusal
    <3>1. wire' \in [Viewer -> Seq(Frame)]
      <4>1. wire' = wire \/ \E c \in Refusal(joined[v]) : wire' = SendControl({v}, c)
        BY <2>8 DEF handleWatchJoin
      <4> QED
        BY <4>1, <3>0, SendControlType DEF TypeOK, Frame
    <3>2. viewerConn' \in [Viewer -> BOOLEAN]
      BY <2>8, Zenon DEF handleWatchJoin, TypeOK
    <3>4. viewers' \in [Sharer -> SUBSET Viewer]
      <4>1. joined[v] \in Sharer
        BY <2>8 DEF handleWatchJoin
      <4>2. viewers[joined[v]] \cup {v} \in SUBSET Viewer
        BY <4>1 DEF TypeOK
      <4>3. \/ viewers' = viewers
            \/ viewers' = [viewers EXCEPT ![joined[v]] = viewers[joined[v]] \cup {v}]
        BY <2>8, Zenon DEF handleWatchJoin
      <4>4. viewers \in [Sharer -> SUBSET Viewer]
        BY DEF TypeOK
      <4> QED
        BY <4>1, <4>2, <4>3, <4>4, Zenon
    <3>3. viewerPC' \in [Viewer -> {"dial", "found", "ack", "run", "done"}] /\ Pointers'
      <4>1. /\ joined' = joined /\ viewerPC[v] = "found"
            /\ \/ viewerPC' = [viewerPC EXCEPT ![v] = "done"]
               \/ viewerPC' = [viewerPC EXCEPT ![v] = "ack"]
        BY <2>8, Zenon DEF handleWatchJoin
      <4> QED
        BY <4>1 DEF TypeOK
    <3> QED
      BY <2>8, <3>1, <3>2, <3>3, <3>4 DEF handleWatchJoin, TypeOK, Frame, sharerVars, queueVars
  <2>9. ASSUME NEW v \in Viewer, handleWatchAck(v) PROVE TypeOK' /\ Pointers'
    <3>1. wire' \in [Viewer -> Seq(Frame)]
      BY <2>9, SendControlType DEF handleWatchAck
    <3> QED
      BY <2>9, <3>1 DEF handleWatchAck, TypeOK, Frame, sharerVars, queueVars
  <2>10. ASSUME NEW v \in Viewer, viewerWriterWrite(v) PROVE TypeOK' /\ Pointers'
    <3>1. Head(send[v]) \in Message /\ Tail(send[v]) \in Seq(Message)
      BY <2>10, HeadTailProperties DEF viewerWriterWrite, TypeOK
    <3>2. Append(wire[v], Head(send[v])) \in Seq(Message \cup Control)
      BY <3>1, AppendProperties DEF TypeOK
    <3> QED
      BY <2>10, <3>1, <3>2 DEF viewerWriterWrite, TypeOK, sharerVars, viewerVars
  <2>11. ASSUME NEW v \in Viewer, viewerWriterError(v) PROVE TypeOK' /\ Pointers'
    <3>1. Tail(send[v]) \in Seq(Message)
      BY <2>11, HeadTailProperties DEF viewerWriterError, TypeOK
    <3> QED
      BY <2>11, <3>1 DEF viewerWriterError, TypeOK, sharerVars
  <2>12. ASSUME NEW v \in Viewer, viewerWriterDrain(v) PROVE TypeOK' /\ Pointers'
    <3>1. Tail(send[v]) \in Seq(Message)
      BY <2>12, HeadTailProperties DEF viewerWriterDrain, TypeOK
    <3> QED
      BY <2>12, <3>1 DEF viewerWriterDrain, TypeOK, sharerVars, viewerVars
  <2>13. ASSUME NEW v \in Viewer, viewerWriterDone(v) PROVE TypeOK' /\ Pointers'
    BY <2>13 DEF viewerWriterDone, TypeOK, sharerVars, viewerVars, queueVars
  <2>14. ASSUME NEW v \in Viewer, runViewerSPAKE2(v) PROVE TypeOK' /\ Pointers'
    <3>1. joined[v] \in Sharer /\ [kind |-> "spake2", viewer |-> v] \in Notice
      BY <2>14 DEF runViewerSPAKE2, Notice
    <3>2. toSharer' \in [Sharer -> Seq(Notice)]
      BY <2>14, <3>1, WriteToSharerType DEF runViewerSPAKE2, TypeOK
    <3> QED
      BY <2>14, <3>2 DEF runViewerSPAKE2, TypeOK, sharerVars, queueVars
  <2>15. ASSUME NEW v \in Viewer, ViewerLost(v) PROVE TypeOK' /\ Pointers'
    BY <2>15 DEF ViewerLost, TypeOK, sharerVars, queueVars
  <2>16. ASSUME NEW v \in Viewer, runViewerEnd(v) PROVE TypeOK' /\ Pointers'
    <3>1. joined[v] \in Sharer /\ [kind |-> "viewer-disconnected", viewer |-> v] \in Notice
      BY <2>16 DEF runViewerEnd, Notice
    <3>2. toSharer' \in [Sharer -> Seq(Notice)]
      BY <2>16, <3>1, WriteToSharerType DEF runViewerEnd, TypeOK
    <3> QED
      BY <2>16, <3>1, <3>2 DEF runViewerEnd, ChannelAfter, TypeOK, sharerVars
  <2>17. CASE UNCHANGED vars
    BY <2>17 DEF vars, TypeOK, sharerVars, viewerVars, queueVars
  <2> QED
    BY <2>1, <2>2, <2>3, <2>4, <2>5, <2>6, <2>7, <2>8, <2>9, <2>10, <2>11, <2>12, <2>13,
       <2>14, <2>15, <2>16, <2>17 DEF Next, ServeSharer, ServeViewer, ServeWriter
<1> QED
  BY <1>1, <1>2, PTL DEF Spec

-----------------------------------------------------------------------------
\* The inductive invariant.

Has(q, f) == \E i \in DOMAIN q : q[i] = f
JoinAck   == [kind |-> "join-ack", n |-> 0]
Ended     == [kind |-> "session-ended", n |-> 0]

\* Server.sessions names exactly the sessions between registration and release.
Registered ==
    /\ RunningSessionIsRegistered
    /\ \A id \in SessionID : sessions[id] # None =>
          IDOf[sessions[id]] = id /\ sharerPC[sessions[id]] \in {"run", "free"}

\* A session is closed once, by the teardown, which empties it.
TeardownOnce ==
    /\ \A s \in Sharer : sharerPC[s] \in {"dial", "run"} => ~closed[s]
    /\ ClosedSessionStaysEmpty

\* A listed viewer is past its admission, and its channel is open.
ListedIsOpen ==
    /\ ChannelOpenWhileListed
    /\ \A s \in Sharer : \A v \in viewers[s] : viewerPC[v] \in {"ack", "run"}

\* What a handler that has not come that far cannot have touched.
Untouched ==
    \A v \in Viewer :
        /\ viewerPC[v] = "dial" => joined[v] = None /\ ~viewerConn[v]
        /\ viewerPC[v] \in {"dial", "found"} =>
              sendOpen[v] /\ send[v] = <<>> /\ due[v] = <<>> /\ wire[v] = <<>>
        /\ viewerPC[v] \in {"dial", "found", "ack"} =>
              writer[v] = "none" /\ ~Has(wire[v], JoinAck)
        /\ viewerPC[v] = "done" => ~viewerConn[v]
        /\ writer[v] = "drain" => ~viewerConn[v]
        /\ writer[v] # "none" /\ viewerConn[v] =>
              Has(wire[v], JoinAck)

\* An admitted viewer that is connected is listed or was told of the end.
ListedOrTold ==
    \A v \in Viewer :
        viewerPC[v] \in {"ack", "run"} /\ viewerConn[v] =>
            \/ v \in viewers[joined[v]]
            \/ Has(wire[v], Ended)

\* The order of what a viewer is due (d), what waits in its channel (q) and
\* what was written to it (w), when its sharer has sent b messages; c says
\* that the viewer is connected.
Increasing(q) == \A i, j \in DOMAIN q : i < j => q[i].n < q[j].n
InOrder(d, q, w, b, c) ==
    /\ Increasing(d) /\ Increasing(q)
    /\ \A i \in DOMAIN d : d[i].n \in 1..b
    /\ \A i \in DOMAIN w : w[i].n <= b
    /\ \A j \in DOMAIN q : Has(d, q[j])
    /\ \A i \in DOMAIN w, j \in DOMAIN q : w[i].n < q[j].n
    /\ c => \A i \in DOMAIN d : d[i].kind = "unicast" => Has(q, d[i]) \/ Has(w, d[i])

SentTo(v) == IF joined[v] = None THEN 0 ELSE sent[joined[v]]
QueuesInOrder ==
    \A v \in Viewer : InOrder(due[v], send[v], wire[v], SentTo(v), viewerConn[v])

IInv ==
    /\ Registered
    /\ TeardownOnce
    /\ ListedIsOpen
    /\ Untouched
    /\ ListedOrTold
    /\ QueuesInOrder

-----------------------------------------------------------------------------
\* The steps of a message from the sharer to the viewer.

\* Frames and messages are numbered.
LEMMA Numbers ==
    /\ \A f \in Frame : f.n \in Nat
    /\ \A m \in Message : m.n \in Nat
    /\ \A w \in Seq(Frame) : \A i \in DOMAIN w : w[i] \in Frame /\ w[i].n \in Nat
    /\ \A q \in Seq(Message) : \A i \in DOMAIN q : q[i] \in Message /\ q[i].n \in Nat
<1>1. \A f \in Frame : f.n \in Nat
  BY DEF Frame, Message, Control
<1>2. \A m \in Message : m.n \in Nat
  BY DEF Message
<1>3. \A S : \A w \in Seq(S) : \A i \in DOMAIN w : w[i] \in S
  OBVIOUS
<1> QED
  BY <1>1, <1>2, <1>3

\* A sequence that is appended to keeps its elements and gets the new one.
LEMMA HasAppend ==
    ASSUME NEW S, NEW q \in Seq(S), NEW e \in S
    PROVE  /\ Has(Append(q, e), e)
           /\ \A f : Has(Append(q, e), f) <=> Has(q, f) \/ f = e
  BY AppendProperties DEF Has

\* A non-empty sequence holds its head and the elements of its tail.
LEMMA HasTail ==
    ASSUME NEW S, NEW q \in Seq(S), q # <<>>
    PROVE  \A f : Has(q, f) <=> f = Head(q) \/ Has(Tail(q), f)
<1>1. /\ Tail(q) \in Seq(S) /\ Len(Tail(q)) = Len(q) - 1 /\ Len(q) \in Nat \ {0}
      /\ DOMAIN Tail(q) = 1..Len(Tail(q)) /\ DOMAIN q = 1..Len(q)
      /\ \A i \in 1..Len(Tail(q)) : Tail(q)[i] = q[i+1]
      /\ Head(q) = q[1]
  BY HeadTailProperties
<1>2. ASSUME NEW f, Has(q, f), f # Head(q) PROVE Has(Tail(q), f)
  <2>1. PICK i \in 1..Len(q) : q[i] = f
    BY <1>2 DEF Has
  <2>2. i - 1 \in 1..Len(Tail(q)) /\ Tail(q)[i-1] = f
    BY <1>1, <1>2, <2>1
  <2> QED
    BY <1>1, <2>2 DEF Has
<1>3. ASSUME NEW f, Has(Tail(q), f) PROVE Has(q, f)
  <2>1. PICK i \in 1..Len(Tail(q)) : Tail(q)[i] = f
    BY <1>1, <1>3 DEF Has
  <2>2. i + 1 \in 1..Len(q) /\ q[i+1] = f
    BY <1>1, <2>1
  <2> QED
    BY <2>2 DEF Has
<1>4. Has(q, Head(q))
  BY <1>1 DEF Has
<1> QED
  BY <1>2, <1>3, <1>4

\* Appending a message with a greater number keeps a queue increasing, and so
\* does removing its head.
LEMMA IncreasingAppend ==
    ASSUME NEW q \in Seq(Message), NEW m \in Message, Increasing(q),
           \A i \in DOMAIN q : q[i].n < m.n
    PROVE  Increasing(Append(q, m))
  BY AppendProperties DEF Increasing, Message

\* Taking the first message off a channel leaves it in order, all later than that one.
LEMMA IncreasingTail ==
    ASSUME NEW q \in Seq(Message), q # <<>>, Increasing(q)
    PROVE  /\ Increasing(Tail(q))
           /\ \A j \in DOMAIN Tail(q) : Head(q).n < Tail(q)[j].n
<1>1. /\ Tail(q) \in Seq(Message) /\ Len(Tail(q)) = Len(q) - 1 /\ Len(q) \in Nat \ {0}
      /\ DOMAIN Tail(q) = 1..Len(Tail(q)) /\ DOMAIN q = 1..Len(q)
      /\ \A i \in 1..Len(Tail(q)) : Tail(q)[i] = q[i+1]
      /\ Head(q) = q[1]
  BY HeadTailProperties
<1>2. ASSUME NEW i \in DOMAIN Tail(q), NEW j \in DOMAIN Tail(q), i < j
      PROVE  Tail(q)[i].n < Tail(q)[j].n
  <2>1. i + 1 \in DOMAIN q /\ j + 1 \in DOMAIN q /\ i + 1 < j + 1
    BY <1>1, <1>2
  <2>2. q[i+1].n < q[j+1].n
    BY <2>1 DEF Increasing
  <2> QED
    BY <1>1, <2>2
<1>3. ASSUME NEW j \in DOMAIN Tail(q) PROVE Head(q).n < Tail(q)[j].n
  <2>1. 1 \in DOMAIN q /\ j + 1 \in DOMAIN q /\ 1 < j + 1
    BY <1>1
  <2>2. q[1].n < q[j+1].n
    BY <2>1 DEF Increasing
  <2> QED
    BY <1>1, <2>2
<1> QED
  BY <1>2, <1>3 DEF Increasing

\* A message that fits into the channel is the last of what is due.
LEMMA Enqueue ==
    ASSUME NEW d \in Seq(Message), NEW q \in Seq(Message), NEW w \in Seq(Frame),
           NEW b \in Nat, NEW c \in BOOLEAN, InOrder(d, q, w, b, c),
           NEW m \in Message, m.n = b + 1
    PROVE  InOrder(Append(d, m), Append(q, m), w, b + 1, c)
<1> DEFINE D == Append(d, m)
           Q == Append(q, m)
<1>1. /\ D \in Seq(Message) /\ Len(D) = Len(d) + 1
      /\ \A i \in 1..Len(d) : D[i] = d[i]
      /\ D[Len(d) + 1] = m
  BY AppendProperties
<1>2. /\ Q \in Seq(Message) /\ Len(Q) = Len(q) + 1
      /\ \A i \in 1..Len(q) : Q[i] = q[i]
      /\ Q[Len(q) + 1] = m
  BY AppendProperties
<1>3. \A f : /\ Has(D, f) <=> Has(d, f) \/ f = m
             /\ Has(Q, f) <=> Has(q, f) \/ f = m
  BY HasAppend
<1>4. \A j \in DOMAIN q : q[j].n \in 1..b
  BY DEF InOrder, Has
<1>5. Increasing(D) /\ Increasing(Q)
  <2>1. \A i \in DOMAIN d : d[i].n < m.n
    BY DEF InOrder
  <2>2. \A i \in DOMAIN q : q[i].n < m.n
    BY <1>4
  <2> QED
    BY <2>1, <2>2, IncreasingAppend DEF InOrder
<1>6. \A i \in DOMAIN D : D[i].n \in 1..(b+1)
  BY <1>1 DEF InOrder, Message
<1>7. \A i \in DOMAIN w : w[i].n <= b + 1
  BY Numbers DEF InOrder
<1>8. \A j \in DOMAIN Q : Has(D, Q[j])
  BY <1>2, <1>3 DEF InOrder
<1>9. \A i \in DOMAIN w, j \in DOMAIN Q : w[i].n < Q[j].n
  BY <1>2, Numbers DEF InOrder
<1>10. c => \A i \in DOMAIN D : D[i].kind = "unicast" => Has(Q, D[i]) \/ Has(w, D[i])
  BY <1>1, <1>3 DEF InOrder
<1> QED
  BY <1>5, <1>6, <1>7, <1>8, <1>9, <1>10 DEF InOrder

\* A message that does not fit is dropped: one to all, or the connection with it.
LEMMA Drop ==
    ASSUME NEW d \in Seq(Message), NEW q \in Seq(Message), NEW w \in Seq(Frame),
           NEW b \in Nat, NEW c \in BOOLEAN, InOrder(d, q, w, b, c),
           NEW m \in Message, m.n = b + 1, NEW e \in BOOLEAN, e => c /\ m.kind = "stream"
    PROVE  InOrder(Append(d, m), q, w, b + 1, e)
<1> DEFINE D == Append(d, m)
<1>1. /\ D \in Seq(Message) /\ Len(D) = Len(d) + 1
      /\ \A i \in 1..Len(d) : D[i] = d[i]
      /\ D[Len(d) + 1] = m
  BY AppendProperties
<1>3. \A f : Has(D, f) <=> Has(d, f) \/ f = m
  BY HasAppend
<1>5. Increasing(D) /\ Increasing(q)
  <2>1. \A i \in DOMAIN d : d[i].n < m.n
    BY DEF InOrder
  <2> QED
    BY <2>1, IncreasingAppend DEF InOrder
<1>6. \A i \in DOMAIN D : D[i].n \in 1..(b+1)
  BY <1>1 DEF InOrder, Message
<1>7. \A i \in DOMAIN w : w[i].n <= b + 1
  BY Numbers DEF InOrder
<1>8. \A j \in DOMAIN q : Has(D, q[j])
  BY <1>3 DEF InOrder
<1>9. \A i \in DOMAIN w, j \in DOMAIN q : w[i].n < q[j].n
  BY DEF InOrder
<1>10. e => \A i \in DOMAIN D : D[i].kind = "unicast" => Has(q, D[i]) \/ Has(w, D[i])
  BY <1>1 DEF InOrder
<1> QED
  BY <1>5, <1>6, <1>7, <1>8, <1>9, <1>10 DEF InOrder

\* viewerWriter moves the head of the channel to the wire.
LEMMA Write ==
    ASSUME NEW d \in Seq(Message), NEW q \in Seq(Message), NEW w \in Seq(Frame),
           NEW b \in Nat, NEW c \in BOOLEAN, InOrder(d, q, w, b, c), q # <<>>
    PROVE  InOrder(d, Tail(q), Append(w, Head(q)), b, c)
<1> DEFINE W == Append(w, Head(q))
<1>1. Head(q) \in Message /\ Tail(q) \in Seq(Message) /\ Head(q) \in Frame
  BY HeadTailProperties DEF Frame
<1>2. /\ W \in Seq(Frame) /\ Len(W) = Len(w) + 1
      /\ \A i \in 1..Len(w) : W[i] = w[i]
      /\ W[Len(w) + 1] = Head(q)
  BY <1>1, AppendProperties
<1>3. \A f : Has(W, f) <=> Has(w, f) \/ f = Head(q)
  BY <1>1, HasAppend
<1>4. \A f : Has(q, f) <=> f = Head(q) \/ Has(Tail(q), f)
  BY HasTail
<1>5. Increasing(Tail(q)) /\ \A j \in DOMAIN Tail(q) : Head(q).n < Tail(q)[j].n
  BY IncreasingTail DEF InOrder
<1>6. /\ \A f : Has(q, f) => Has(d, f)
      /\ \A i \in DOMAIN w : \A f : Has(q, f) => w[i].n < f.n
  BY DEF InOrder, Has
<1>7. \A j \in DOMAIN Tail(q) : Has(Tail(q), Tail(q)[j])
  BY DEF Has
<1>8. Head(q).n <= b
  BY <1>4, <1>6 DEF InOrder, Has
<1>9. \A i \in DOMAIN W : W[i].n <= b
  BY <1>2, <1>8 DEF InOrder
<1>10. \A j \in DOMAIN Tail(q) : Has(d, Tail(q)[j])
  BY <1>4, <1>6, <1>7
<1>11. \A i \in DOMAIN W, j \in DOMAIN Tail(q) : W[i].n < Tail(q)[j].n
  BY <1>2, <1>4, <1>5, <1>6, <1>7
<1>12. c => \A i \in DOMAIN d : d[i].kind = "unicast" => Has(Tail(q), d[i]) \/ Has(W, d[i])
  BY <1>3, <1>4 DEF InOrder
<1> QED
  BY <1>5, <1>9, <1>10, <1>11, <1>12 DEF InOrder

\* After a failed write the head of the channel is lost with the connection.
LEMMA Discard ==
    ASSUME NEW d \in Seq(Message), NEW q \in Seq(Message), NEW w \in Seq(Frame),
           NEW b \in Nat, NEW c \in BOOLEAN, InOrder(d, q, w, b, c), q # <<>>
    PROVE  InOrder(d, Tail(q), w, b, FALSE)
<1>1. Tail(q) \in Seq(Message)
  BY HeadTailProperties
<1>2. Increasing(Tail(q))
  BY IncreasingTail DEF InOrder
<1>3. \A j \in DOMAIN Tail(q) : Has(q, Tail(q)[j])
  BY <1>1, HasTail DEF Has
<1>4. /\ \A f : Has(q, f) => Has(d, f)
      /\ \A i \in DOMAIN w : \A f : Has(q, f) => w[i].n < f.n
  BY DEF InOrder, Has
<1> QED
  BY <1>2, <1>3, <1>4 DEF InOrder

\* A control frame has no place in the order of messages.
LEMMA WriteControl ==
    ASSUME NEW d \in Seq(Message), NEW q \in Seq(Message), NEW w \in Seq(Frame),
           NEW b \in Nat, NEW c \in BOOLEAN, InOrder(d, q, w, b, c),
           NEW f \in Control
    PROVE  InOrder(d, q, Append(w, f), b, c)
<1> DEFINE W == Append(w, f)
<1>0. f \in Frame /\ f.n = 0
  BY DEF Frame, Control
<1>1. /\ W \in Seq(Frame) /\ Len(W) = Len(w) + 1
      /\ \A i \in 1..Len(w) : W[i] = w[i]
      /\ W[Len(w) + 1] = f
  BY <1>0, AppendProperties
<1>2. \A g : Has(W, g) <=> Has(w, g) \/ g = f
  BY <1>0, HasAppend
<1>3. \A j \in DOMAIN q : q[j].n \in 1..b
  BY DEF InOrder, Has
<1>4. \A i \in DOMAIN W : W[i].n <= b
  BY <1>0, <1>1 DEF InOrder
<1>5. \A i \in DOMAIN W, j \in DOMAIN q : W[i].n < q[j].n
  BY <1>0, <1>1, <1>3 DEF InOrder
<1> QED
  BY <1>2, <1>4, <1>5 DEF InOrder

\* A lost connection leaves the order as it is.
LEMMA Cut ==
    ASSUME NEW d, NEW q, NEW w, NEW b, NEW c \in BOOLEAN, InOrder(d, q, w, b, c)
    PROVE  InOrder(d, q, w, b, FALSE)
  BY DEF InOrder

\* So does a message that the sharer sends to others.
LEMMA Later ==
    ASSUME NEW d \in Seq(Message), NEW q \in Seq(Message), NEW w \in Seq(Frame),
           NEW b \in Nat, NEW c \in BOOLEAN, InOrder(d, q, w, b, c),
           NEW bb \in Nat, b <= bb
    PROVE  InOrder(d, q, w, bb, c)
<1>1. \A i \in DOMAIN d : d[i].n \in 1..bb
  BY DEF InOrder
<1>2. \A i \in DOMAIN w : w[i].n <= bb
  BY Numbers DEF InOrder
<1> QED
  BY <1>1, <1>2 DEF InOrder

\* The message that viewerWriter writes next is the one that Broker delivers:
\* every unicast due before it is already on the wire.
LEMMA HeadIsNext ==
    ASSUME NEW d \in Seq(Message), NEW q \in Seq(Message), NEW w \in Seq(Frame),
           NEW b \in Nat, InOrder(d, q, w, b, TRUE), q # <<>>
    PROVE  \E i \in DOMAIN d :
             /\ d[i] = Head(q)
             /\ \A k \in DOMAIN w : w[k].n < d[i].n
             /\ \A j \in 1..(i-1) : d[j].kind = "unicast" => Has(w, d[j])
<1>1. Has(q, Head(q)) /\ \A f : Has(q, f) => f = Head(q) \/ Has(Tail(q), f)
  BY HasTail
<1>2. Has(d, Head(q)) /\ \A k \in DOMAIN w : w[k].n < Head(q).n
  BY <1>1 DEF InOrder, Has
<1>3. PICK i \in DOMAIN d : d[i] = Head(q)
  BY <1>2 DEF Has
<1>4. ASSUME NEW j \in 1..(i-1), d[j].kind = "unicast" PROVE Has(w, d[j])
  <2>1. j \in DOMAIN d /\ d[j].n < Head(q).n /\ d[j].n \in Nat /\ Head(q).n \in Nat
    <3>1. j \in DOMAIN d /\ i \in DOMAIN d /\ j < i
      OBVIOUS
    <3> QED
      BY <1>3, <3>1, Numbers DEF InOrder, Increasing
  <2>2. ~Has(Tail(q), d[j])
    <3>1. \A k \in DOMAIN Tail(q) : Head(q).n < Tail(q)[k].n
      BY IncreasingTail DEF InOrder
    <3>2. ASSUME NEW k \in DOMAIN Tail(q), Tail(q)[k] = d[j] PROVE FALSE
      <4>1. Head(q).n < d[j].n
        BY <3>1, <3>2
      <4> QED
        BY <2>1, <4>1
    <3> QED
      BY <3>2 DEF Has
  <2> QED
    BY <1>1, <1>4, <2>1, <2>2 DEF InOrder
<1> QED
  BY <1>2, <1>3, <1>4

\* What a control frame does to one wire.
LEMMA SendControlEffect ==
    ASSUME TypeOK, NEW V, NEW c, NEW v \in Viewer,
           c \in {"join-ack", "session-not-found", "session-full", "session-ended"}
    PROVE  /\ \A g : Has(SendControl(V, c)[v], g) <=>
                       \/ Has(wire[v], g)
                       \/ v \in V /\ viewerConn[v] /\ g = [kind |-> c, n |-> 0]
           /\ ~(v \in V /\ viewerConn[v]) => SendControl(V, c)[v] = wire[v]
           /\ \A d, q \in Seq(Message), b \in Nat, e \in BOOLEAN :
                 InOrder(d, q, wire[v], b, e) => InOrder(d, q, SendControl(V, c)[v], b, e)
<1> DEFINE f == [kind |-> c, n |-> 0]
<1>1. f \in Control /\ f \in Frame /\ wire[v] \in Seq(Frame)
  BY DEF Control, Frame, TypeOK
<1> HIDE DEF f
<1>2. SendControl(V, c)[v] = IF v \in V /\ viewerConn[v] THEN Append(wire[v], f) ELSE wire[v]
  BY DEF SendControl, f
<1>3. CASE v \in V /\ viewerConn[v]
  <2>1. \A g : Has(SendControl(V, c)[v], g) <=> Has(wire[v], g) \/ g = f
    BY <1>1, <1>2, <1>3, HasAppend
  <2>2. \A d, q \in Seq(Message), b \in Nat, e \in BOOLEAN :
          InOrder(d, q, wire[v], b, e) => InOrder(d, q, SendControl(V, c)[v], b, e)
    BY <1>1, <1>2, <1>3, WriteControl
  <2> QED
    BY <1>3, <2>1, <2>2 DEF f
<1>4. CASE ~(v \in V /\ viewerConn[v])
  BY <1>2, <1>4
<1> QED
  BY <1>3, <1>4

\* A viewer's queues, its connection and the count of its sharer have their types.
LEMMA QueueTypes ==
    ASSUME TypeOK, NEW v \in Viewer
    PROVE  /\ due[v] \in Seq(Message) /\ send[v] \in Seq(Message) /\ wire[v] \in Seq(Frame)
           /\ SentTo(v) \in Nat /\ viewerConn[v] \in BOOLEAN
  BY DEF TypeOK, SentTo, Frame

-----------------------------------------------------------------------------
\* One lemma for each action that disturbs the invariant.

\* handleShare registers a session only where the ID is free.
LEMMA handleShareIInv ==
    ASSUME TypeOK, Pointers, IInv, NEW s \in Sharer, handleShare(s)
    PROVE  IInv'
<1>0. IDOf[s] \in SessionID
  OBVIOUS
<1>1. Registered'
  <2>1. CASE /\ sharerPC' = [sharerPC EXCEPT ![s] = "done"] /\ sessions' = sessions
    BY <2>1 DEF IInv, Registered, RunningSessionIsRegistered, handleShare, TypeOK
  <2>2. CASE /\ sessions[IDOf[s]] = None
             /\ sessions' = [sessions EXCEPT ![IDOf[s]] = s]
             /\ sharerPC' = [sharerPC EXCEPT ![s] = "run"]
    <3>1. \A t \in Sharer : sharerPC'[t] \in {"run", "free"} => sessions'[IDOf[t]] = t
      <4> SUFFICES ASSUME NEW t \in Sharer, t # s, sharerPC[t] \in {"run", "free"}
                   PROVE  sessions'[IDOf[t]] = t
        BY <1>0, <2>2 DEF TypeOK
      <4>1. IDOf[t] \in SessionID /\ sessions[IDOf[t]] = t
        BY DEF IInv, Registered, RunningSessionIsRegistered
      <4>2. IDOf[t] # IDOf[s]
        BY <2>2, <4>1
      <4> QED
        BY <2>2, <4>1, <4>2 DEF TypeOK
    <3>2. \A id \in SessionID : sessions'[id] # None =>
             IDOf[sessions'[id]] = id /\ sharerPC'[sessions'[id]] \in {"run", "free"}
      <4> SUFFICES ASSUME NEW id \in SessionID, sessions'[id] # None
                   PROVE  IDOf[sessions'[id]] = id /\ sharerPC'[sessions'[id]] \in {"run", "free"}
        OBVIOUS
      <4>1. CASE id = IDOf[s]
        BY <1>0, <2>2, <4>1 DEF TypeOK
      <4>2. CASE id # IDOf[s]
        <5>1. sessions'[id] = sessions[id] /\ sessions[id] \in Sharer
          BY <2>2, <4>2 DEF TypeOK
        <5> QED
          BY <2>2, <5>1 DEF IInv, Registered, TypeOK
      <4> QED
        BY <4>1, <4>2
    <3> QED
      BY <3>1, <3>2 DEF Registered, RunningSessionIsRegistered
  <2> QED
    BY <2>1, <2>2 DEF handleShare, Conflict
<1>2. TeardownOnce'
  BY DEF IInv, TeardownOnce, ClosedSessionStaysEmpty, handleShare, TypeOK
<1>3. ListedIsOpen' /\ Untouched' /\ ListedOrTold'
  BY DEF IInv, ListedIsOpen, ChannelOpenWhileListed, Untouched, ListedOrTold, handleShare,
         viewerVars, queueVars
<1>4. QueuesInOrder'
  BY DEF IInv, QueuesInOrder, SentTo, handleShare, viewerVars, queueVars
<1> QED
  BY <1>1, <1>2, <1>3, <1>4 DEF IInv

\* A broadcast is the newest message due to every listed viewer; it is in the
\* channel of those that have room.
LEMMA runSharerBroadcastIInv ==
    ASSUME TypeOK, Pointers, IInv, NEW s \in Sharer, runSharerBroadcast(s)
    PROVE  IInv'
<1> DEFINE m == [kind |-> "stream", n |-> sent[s] + 1]
<1>0. /\ sessions' = sessions /\ sharerPC' = sharerPC /\ closed' = closed /\ viewers' = viewers
      /\ viewerPC' = viewerPC /\ viewerConn' = viewerConn /\ joined' = joined
      /\ sendOpen' = sendOpen /\ writer' = writer /\ wire' = wire
      /\ sent' = [sent EXCEPT ![s] = sent[s] + 1]
      /\ send' = [v \in Viewer |-> IF v \in viewers[s] /\ Len(send[v]) < SendBuf
                                   THEN Append(send[v], m) ELSE send[v]]
      /\ due' = [v \in Viewer |-> IF v \in viewers[s] THEN Append(due[v], m) ELSE due[v]]
  BY DEF runSharerBroadcast, viewerVars
<1>1. Registered' /\ TeardownOnce' /\ ListedIsOpen' /\ ListedOrTold'
  BY <1>0 DEF IInv, Registered, RunningSessionIsRegistered, TeardownOnce,
         ClosedSessionStaysEmpty, ListedIsOpen, ChannelOpenWhileListed, ListedOrTold
<1>2. Untouched'
  <2>1. \A v \in Viewer : viewerPC[v] \in {"dial", "found"} => v \notin viewers[s]
    BY DEF IInv, ListedIsOpen
  <2> QED
    BY <1>0, <2>1 DEF IInv, Untouched
<1>3. ASSUME NEW v \in Viewer
      PROVE  InOrder(due[v], send[v], wire[v], SentTo(v), viewerConn[v])'
  <2>1. InOrder(due[v], send[v], wire[v], SentTo(v), viewerConn[v])
    BY DEF IInv, QueuesInOrder
  <2>2. m \in Message /\ m.n = sent[s] + 1 /\ m.kind = "stream"
    BY DEF Message, TypeOK
  <2> HIDE DEF m
  <2>3. CASE v \in viewers[s]
    <3>1. joined[v] = s /\ joined[v] # None
      BY <2>3 DEF IInv, ListedIsOpen, ChannelOpenWhileListed
    <3>2. SentTo(v) = sent[s] /\ SentTo(v)' = sent[s] + 1
      BY <1>0, <3>1 DEF SentTo, TypeOK
    <3>3. CASE Len(send[v]) < SendBuf
      <4>1. InOrder(Append(due[v], m), Append(send[v], m), wire[v], sent[s] + 1, viewerConn[v])
        BY <2>1, <2>2, <3>2, QueueTypes, Enqueue
      <4> QED
        BY <1>0, <2>3, <3>2, <3>3, <4>1
    <3>4. CASE ~(Len(send[v]) < SendBuf)
      <4>1. InOrder(Append(due[v], m), send[v], wire[v], sent[s] + 1, viewerConn[v])
        BY <2>1, <2>2, <3>2, QueueTypes, Drop
      <4> QED
        BY <1>0, <2>3, <3>2, <3>4, <4>1
    <3> QED
      BY <3>3, <3>4
  <2>4. CASE v \notin viewers[s]
    <3>1. SentTo(v) <= SentTo(v)' /\ SentTo(v)' \in Nat
      BY <1>0 DEF SentTo, TypeOK
    <3>2. InOrder(due[v], send[v], wire[v], SentTo(v)', viewerConn[v])
      BY <2>1, <3>1, QueueTypes, Later
    <3> QED
      BY <1>0, <2>4, <3>2
  <2> QED
    BY <2>3, <2>4
<1> QED
  BY <1>1, <1>2, <1>3 DEF IInv, QueuesInOrder

\* A unicast is in the channel, or the viewer is cut off and unlisted.
LEMMA runSharerUnicastIInv ==
    ASSUME TypeOK, Pointers, IInv, NEW s \in Sharer, NEW v \in Viewer, runSharerUnicast(s, v)
    PROVE  IInv'
<1> DEFINE m == [kind |-> "unicast", n |-> sent[s] + 1]
<1>0. /\ sessions' = sessions /\ sharerPC' = sharerPC /\ closed' = closed
      /\ viewerPC' = viewerPC /\ joined' = joined /\ writer' = writer /\ wire' = wire
      /\ sent' = [sent EXCEPT ![s] = sent[s] + 1]
      /\ due' = [due EXCEPT ![v] = Append(due[v], m)]
      /\ v \in viewers[s]
  BY DEF runSharerUnicast
<1>1. joined[v] = s /\ joined[v] # None /\ viewerPC[v] \in {"ack", "run"}
  BY <1>0 DEF IInv, ListedIsOpen, ChannelOpenWhileListed
<1>2. m \in Message /\ m.n = sent[s] + 1 /\ m.kind = "unicast"
  BY DEF Message, TypeOK
<1>3. SentTo(v) = sent[s] /\ SentTo(v)' = sent[s] + 1
  BY <1>0, <1>1 DEF SentTo, TypeOK
<1>4. Registered'
  BY <1>0 DEF IInv, Registered, RunningSessionIsRegistered
<1>5. InOrder(due[v], send[v], wire[v], SentTo(v), viewerConn[v])
  BY DEF IInv, QueuesInOrder
<1>6. \A u \in Viewer : SentTo(u) <= SentTo(u)' /\ SentTo(u)' \in Nat
  BY <1>0 DEF SentTo, TypeOK
<1>7. ASSUME NEW u \in Viewer, u # v
      PROVE  InOrder(due[u], send[u], wire[u], SentTo(u)', viewerConn[u])
  <2>1. InOrder(due[u], send[u], wire[u], SentTo(u), viewerConn[u])
    BY DEF IInv, QueuesInOrder
  <2> QED
    BY <2>1, <1>6, QueueTypes, Later
<1> HIDE DEF m
<1>8. CASE /\ send' = [send EXCEPT ![v] = Append(send[v], m)]
           /\ viewers' = viewers /\ sendOpen' = sendOpen /\ viewerConn' = viewerConn
  <2>1. TeardownOnce' /\ ListedIsOpen' /\ ListedOrTold'
    BY <1>0, <1>8 DEF IInv, TeardownOnce, ClosedSessionStaysEmpty, ListedIsOpen,
           ChannelOpenWhileListed, ListedOrTold
  <2>2. Untouched'
    BY <1>0, <1>1, <1>8 DEF IInv, Untouched, TypeOK
  <2>3. InOrder(Append(due[v], m), Append(send[v], m), wire[v], sent[s] + 1, viewerConn[v])
    BY <1>2, <1>3, <1>5, QueueTypes, Enqueue
  <2>4. QueuesInOrder'
    BY <1>0, <1>3, <1>7, <1>8, <2>3 DEF QueuesInOrder, TypeOK
  <2> QED
    BY <1>4, <2>1, <2>2, <2>4 DEF IInv
<1>9. CASE send' = send /\ DisconnectSlowConsumer(s, v)
  <2>0. /\ sendOpen' = [sendOpen EXCEPT ![v] = FALSE]
        /\ viewerConn' = [viewerConn EXCEPT ![v] = FALSE]
        /\ viewers' = [viewers EXCEPT ![s] = viewers[s] \ {v}]
    BY <1>9 DEF DisconnectSlowConsumer
  <2>a. \A t \in Sharer : /\ viewers'[t] \subseteq viewers[t] /\ v \notin viewers'[t]
                          /\ \A u \in Viewer : u \in viewers[t] /\ u # v => u \in viewers'[t]
    BY <1>1, <2>0 DEF TypeOK, IInv, ListedIsOpen, ChannelOpenWhileListed
  <2>b. /\ ~viewerConn'[v] /\ viewerConn'[v] = FALSE
        /\ \A u \in Viewer : u # v =>
              sendOpen'[u] = sendOpen[u] /\ viewerConn'[u] = viewerConn[u]
    BY <2>0 DEF TypeOK
  <2>1. TeardownOnce'
    BY <1>0, <2>a DEF IInv, TeardownOnce, ClosedSessionStaysEmpty, TypeOK
  <2>2. ListedIsOpen'
    <3> SUFFICES ASSUME NEW t \in Sharer, NEW u \in viewers'[t]
                 PROVE  sendOpen'[u] /\ joined'[u] = t /\ viewerPC'[u] \in {"ack", "run"}
      BY DEF ListedIsOpen, ChannelOpenWhileListed
    <3>1. u \in viewers[t] /\ u # v /\ u \in Viewer
      BY <2>a DEF TypeOK
    <3> QED
      BY <1>0, <2>b, <3>1 DEF IInv, ListedIsOpen, ChannelOpenWhileListed
  <2>3. Untouched'
    BY <1>0, <1>1, <1>9, <2>b DEF IInv, Untouched, TypeOK
  <2>4. ListedOrTold'
    <3> SUFFICES ASSUME NEW u \in Viewer, viewerPC'[u] \in {"ack", "run"}, viewerConn'[u]
                 PROVE  u \in viewers'[joined'[u]] \/ Has(wire'[u], Ended)
      BY DEF ListedOrTold
    <3>1. u # v /\ viewerPC[u] \in {"ack", "run"} /\ viewerConn[u] /\ joined[u] \in Sharer
      BY <1>0, <2>b DEF Pointers
    <3> QED
      BY <1>0, <2>a, <3>1 DEF IInv, ListedOrTold
  <2>5. InOrder(Append(due[v], m), send[v], wire[v], sent[s] + 1, FALSE)
    BY <1>2, <1>3, <1>5, QueueTypes, Drop
  <2>6. QueuesInOrder'
    BY <1>0, <1>3, <1>7, <1>9, <2>b, <2>5 DEF QueuesInOrder, TypeOK
  <2> QED
    BY <1>4, <2>1, <2>2, <2>3, <2>4, <2>6 DEF IInv
<1> QED
  BY <1>8, <1>9 DEF runSharerUnicast, m

\* The teardown tells every connected member, closes their channels and
\* leaves nobody listed.
LEMMA runSharerEndIInv ==
    ASSUME TypeOK, Pointers, IInv, NEW s \in Sharer, runSharerEnd(s)
    PROVE  IInv'
<1>0. /\ sessions' = sessions /\ sent' = sent /\ viewerPC' = viewerPC
      /\ viewerConn' = viewerConn /\ joined' = joined /\ send' = send /\ due' = due
      /\ writer' = writer /\ sharerPC[s] = "run"
      /\ closed' = [closed EXCEPT ![s] = TRUE]
      /\ wire' = SendControl(viewers[s], "session-ended")
      /\ sendOpen' = [v \in Viewer |-> sendOpen[v] /\ v \notin viewers[s]]
      /\ viewers' = [viewers EXCEPT ![s] = {}]
      /\ sharerPC' = [sharerPC EXCEPT ![s] = "free"]
  BY DEF runSharerEnd, viewerVars
<1>a. \A v \in Viewer : \A g : Has(wire'[v], g) <=>
        Has(wire[v], g) \/ (v \in viewers[s] /\ viewerConn[v] /\ g = Ended)
  <2> SUFFICES ASSUME NEW v \in Viewer, NEW g
               PROVE  Has(wire'[v], g) <=>
                        Has(wire[v], g) \/ (v \in viewers[s] /\ viewerConn[v] /\ g = Ended)
    OBVIOUS
  <2> QED
    BY <1>0, SendControlEffect DEF Ended
<1>b. \A v \in Viewer : v \notin viewers[s] => wire'[v] = wire[v] /\ sendOpen'[v] = sendOpen[v]
  BY <1>0, SendControlEffect DEF TypeOK
<1>c. \A t \in Sharer : \A v \in viewers'[t] :
        v \in viewers[t] /\ v \notin viewers[s] /\ v \in Viewer
  BY <1>0 DEF IInv, ListedIsOpen, ChannelOpenWhileListed, TypeOK
<1>1. Registered'
  BY <1>0 DEF IInv, Registered, RunningSessionIsRegistered, TypeOK
<1>2. TeardownOnce'
  BY <1>0 DEF IInv, TeardownOnce, ClosedSessionStaysEmpty, TypeOK
<1>3. ListedIsOpen'
  BY <1>0, <1>b, <1>c DEF IInv, ListedIsOpen, ChannelOpenWhileListed
<1>4. Untouched'
  <2>1. \A v \in Viewer : viewerPC[v] \in {"dial", "found"} =>
          wire'[v] = wire[v] /\ sendOpen'[v] = sendOpen[v]
    BY <1>b DEF IInv, ListedIsOpen
  <2>2. \A v \in Viewer : Has(wire'[v], JoinAck) <=> Has(wire[v], JoinAck)
    <3>1. JoinAck # Ended
      BY DEF JoinAck, Ended
    <3> QED
      BY <1>a, <3>1
  <2> QED
    BY <1>0, <2>1, <2>2 DEF IInv, Untouched
<1>5. ListedOrTold'
  <2> SUFFICES ASSUME NEW v \in Viewer, viewerPC[v] \in {"ack", "run"}, viewerConn[v]
               PROVE  v \in viewers'[joined[v]] \/ Has(wire'[v], Ended)
    BY <1>0 DEF ListedOrTold
  <2>1. joined[v] \in Sharer /\ (v \in viewers[joined[v]] \/ Has(wire[v], Ended))
    BY DEF IInv, ListedOrTold, Pointers
  <2>2. CASE v \in viewers[s]
    BY <1>a, <2>2
  <2>3. CASE v \notin viewers[s]
    BY <1>0, <1>b, <2>1, <2>3 DEF TypeOK
  <2> QED
    BY <2>2, <2>3
<1>6. QueuesInOrder'
  <2> SUFFICES ASSUME NEW v \in Viewer
               PROVE  InOrder(due[v], send[v], wire'[v], SentTo(v), viewerConn[v])
    BY <1>0 DEF QueuesInOrder, SentTo
  <2>1. InOrder(due[v], send[v], wire[v], SentTo(v), viewerConn[v])
    BY DEF IInv, QueuesInOrder
  <2> QED
    BY <1>0, <2>1, QueueTypes, SendControlEffect
<1> QED
  BY <1>1, <1>2, <1>3, <1>4, <1>5, <1>6 DEF IInv

\* The release of the ID frees only the entry of this session.
LEMMA runSharerFreeIInv ==
    ASSUME TypeOK, Pointers, IInv, NEW s \in Sharer, runSharerFree(s)
    PROVE  IInv'
<1>0. /\ sharerPC[s] = "free" /\ sessions' = [sessions EXCEPT ![IDOf[s]] = None]
      /\ sharerPC' = [sharerPC EXCEPT ![s] = "done"]
      /\ closed' = closed /\ viewers' = viewers /\ IDOf[s] \in SessionID
  BY DEF runSharerFree, Freed
<1>1. Registered'
  <2>1. sessions[IDOf[s]] = s
    BY <1>0 DEF IInv, Registered, RunningSessionIsRegistered
  <2>2. \A t \in Sharer : sharerPC'[t] \in {"run", "free"} => sessions'[IDOf[t]] = t
    <3> SUFFICES ASSUME NEW t \in Sharer, sharerPC'[t] \in {"run", "free"}
                 PROVE  sessions'[IDOf[t]] = t
      OBVIOUS
    <3>1. t # s /\ sharerPC[t] \in {"run", "free"}
      BY <1>0 DEF TypeOK
    <3>2. sessions[IDOf[t]] = t /\ IDOf[t] \in SessionID
      BY <3>1 DEF IInv, Registered, RunningSessionIsRegistered
    <3>3. IDOf[t] # IDOf[s]
      BY <2>1, <3>1, <3>2
    <3> QED
      BY <1>0, <3>2, <3>3 DEF TypeOK
  <2>3. \A id \in SessionID : sessions'[id] # None =>
           IDOf[sessions'[id]] = id /\ sharerPC'[sessions'[id]] \in {"run", "free"}
    <3> SUFFICES ASSUME NEW id \in SessionID, sessions'[id] # None
                 PROVE  IDOf[sessions'[id]] = id /\ sharerPC'[sessions'[id]] \in {"run", "free"}
      OBVIOUS
    <3>1. id # IDOf[s] /\ sessions'[id] = sessions[id] /\ sessions[id] \in Sharer
      BY <1>0 DEF TypeOK
    <3>2. IDOf[sessions[id]] = id /\ sharerPC[sessions[id]] \in {"run", "free"}
      BY <3>1 DEF IInv, Registered
    <3> QED
      BY <1>0, <3>1, <3>2 DEF TypeOK
  <2> QED
    BY <2>2, <2>3 DEF Registered, RunningSessionIsRegistered
<1>2. TeardownOnce'
  BY <1>0 DEF IInv, TeardownOnce, ClosedSessionStaysEmpty, TypeOK
<1>3. ListedIsOpen' /\ Untouched' /\ ListedOrTold' /\ QueuesInOrder'
  BY DEF IInv, ListedIsOpen, ChannelOpenWhileListed, Untouched, ListedOrTold, QueuesInOrder,
         SentTo, runSharerFree, viewerVars, queueVars
<1> QED
  BY <1>1, <1>2, <1>3 DEF IInv

\* An empty wire holds nothing, and a refusal is no join-ack.
LEMMA EmptyWire ==
    /\ \A f : ~Has(<<>>, f)
    /\ \A b \in Nat, c \in BOOLEAN : InOrder(<<>>, <<>>, <<>>, b, c)
    /\ \A c : c # "join-ack" => ~Has(<<[kind |-> c, n |-> 0]>>, JoinAck)
    /\ \A c : \A b \in Nat, e \in BOOLEAN :
          InOrder(<<>>, <<>>, <<[kind |-> c, n |-> 0]>>, b, e)
  BY DEF Has, JoinAck, InOrder, Increasing

\* The look-up of the session finds an object or refuses the viewer.
LEMMA handleWatchLookupIInv ==
    ASSUME TypeOK, Pointers, IInv, NEW v \in Viewer, handleWatchLookup(v)
    PROVE  IInv'
<1>0. /\ sessions' = sessions /\ sharerPC' = sharerPC /\ sent' = sent /\ closed' = closed
      /\ viewers' = viewers /\ send' = send /\ sendOpen' = sendOpen /\ due' = due
      /\ writer' = writer /\ viewerPC[v] = "dial"
  BY DEF handleWatchLookup, sharerVars, queueVars
<1>1. Registered' /\ TeardownOnce'
  BY <1>0 DEF IInv, Registered, RunningSessionIsRegistered, TeardownOnce,
         ClosedSessionStaysEmpty
<1>2. /\ \A s \in Sharer : v \notin viewers[s]
      /\ send[v] = <<>> /\ due[v] = <<>> /\ wire[v] = <<>> /\ ~viewerConn[v]
      /\ sendOpen[v] /\ writer[v] = "none"
  BY <1>0 DEF IInv, ListedIsOpen, Untouched
<1>3. CASE /\ wire' = [wire EXCEPT ![v] = <<[kind |-> "session-not-found", n |-> 0]>>]
           /\ viewerPC' = [viewerPC EXCEPT ![v] = "done"]
           /\ viewerConn' = viewerConn /\ joined' = joined
  <2>1. ListedIsOpen' /\ ListedOrTold'
    BY <1>0, <1>2, <1>3 DEF IInv, ListedIsOpen, ChannelOpenWhileListed, ListedOrTold, TypeOK
  <2>2. Untouched'
    BY <1>0, <1>2, <1>3, EmptyWire DEF IInv, Untouched, TypeOK
  <2>3. QueuesInOrder'
    <3> SUFFICES ASSUME NEW u \in Viewer
                 PROVE  InOrder(due[u], send[u], wire'[u], SentTo(u), viewerConn[u])
      BY <1>0, <1>3 DEF QueuesInOrder, SentTo
    <3>1. CASE u = v
      <4>1. wire'[v] = <<[kind |-> "session-not-found", n |-> 0]>>
        BY <1>3 DEF TypeOK
      <4>2. InOrder(<<>>, <<>>, wire'[v], SentTo(v), viewerConn[v])
        BY <4>1, EmptyWire, QueueTypes, Zenon
      <4> QED
        BY <1>2, <3>1, <4>2
    <3>2. CASE u # v
      BY <1>3, <3>2 DEF IInv, QueuesInOrder, TypeOK
    <3> QED
      BY <3>1, <3>2
  <2> QED
    BY <1>1, <2>1, <2>2, <2>3 DEF IInv
<1>4. CASE /\ joined' = [joined EXCEPT ![v] = sessions[IDOf[v]]]
           /\ viewerConn' = [viewerConn EXCEPT ![v] = TRUE]
           /\ viewerPC' = [viewerPC EXCEPT ![v] = "found"]
           /\ wire' = wire
  <2>0. \A u \in Viewer : u # v => /\ joined'[u] = joined[u] /\ viewerConn'[u] = viewerConn[u]
                                   /\ viewerPC'[u] = viewerPC[u] /\ SentTo(u)' = SentTo(u)
    BY <1>0, <1>4 DEF TypeOK, SentTo
  <2>a. viewerPC'[v] = "found" /\ SentTo(v)' \in Nat /\ viewerConn'[v] = TRUE
    <3>1. IDOf[v] \in SessionID
      OBVIOUS
    <3> QED
      BY <1>0, <1>4, <3>1 DEF TypeOK, SentTo
  <2>1. ListedIsOpen'
    BY <1>0, <1>2, <2>0 DEF IInv, ListedIsOpen, ChannelOpenWhileListed, TypeOK
  <2>2. ListedOrTold'
    BY <1>0, <1>4, <2>0, <2>a DEF IInv, ListedOrTold
  <2>3. Untouched'
    BY <1>0, <1>2, <1>4, <2>0, <2>a, EmptyWire DEF IInv, Untouched
  <2>4. QueuesInOrder'
    BY <1>0, <1>2, <1>4, <2>0, <2>a, EmptyWire DEF IInv, QueuesInOrder
  <2> QED
    BY <1>1, <2>1, <2>2, <2>3, <2>4 DEF IInv
<1> QED
  BY <1>3, <1>4 DEF handleWatchLookup

\* Under session.mu the viewer is refused or listed with an open channel.
LEMMA handleWatchJoinIInv ==
    ASSUME TypeOK, Pointers, IInv, NEW v \in Viewer, handleWatchJoin(v)
    PROVE  IInv'
<1>0. /\ sessions' = sessions /\ sharerPC' = sharerPC /\ sent' = sent /\ closed' = closed
      /\ joined' = joined /\ send' = send /\ sendOpen' = sendOpen /\ due' = due
      /\ writer' = writer /\ viewerPC[v] = "found" /\ joined[v] \in Sharer
  BY DEF handleWatchJoin, sharerVars, queueVars, Pointers
<1>1. Registered'
  BY <1>0 DEF IInv, Registered, RunningSessionIsRegistered
<1>2. /\ \A s \in Sharer : v \notin viewers[s]
      /\ send[v] = <<>> /\ due[v] = <<>> /\ wire[v] = <<>>
      /\ sendOpen[v] /\ writer[v] = "none" /\ ~Has(wire[v], JoinAck)
  BY <1>0 DEF IInv, ListedIsOpen, Untouched
<1>3. ASSUME NEW c \in {"session-not-found", "session-full"}, wire' = SendControl({v}, c),
             viewerConn' = [viewerConn EXCEPT ![v] = FALSE],
             viewerPC' = [viewerPC EXCEPT ![v] = "done"], viewers' = viewers
      PROVE  IInv'
  <2>0. \A u \in Viewer : u # v => /\ viewerConn'[u] = viewerConn[u]
                                   /\ viewerPC'[u] = viewerPC[u] /\ wire'[u] = wire[u]
    <3> SUFFICES ASSUME NEW u \in Viewer, u # v
                 PROVE  /\ viewerConn'[u] = viewerConn[u]
                        /\ viewerPC'[u] = viewerPC[u] /\ wire'[u] = wire[u]
      OBVIOUS
    <3>1. viewerConn'[u] = viewerConn[u] /\ viewerPC'[u] = viewerPC[u]
      BY <1>3 DEF TypeOK
    <3>2. SendControl({v}, c)[u] = wire[u]
      BY SendControlEffect
    <3> QED
      BY <1>3, <3>1, <3>2
  <2>a. viewerPC'[v] = "done" /\ viewerConn'[v] = FALSE
    BY <1>3 DEF TypeOK
  <2>1. TeardownOnce' /\ ListedIsOpen'
    BY <1>0, <1>2, <1>3, <2>0 DEF IInv, TeardownOnce, ClosedSessionStaysEmpty, ListedIsOpen,
           ChannelOpenWhileListed, TypeOK
  <2>2. Untouched'
    BY <1>0, <1>2, <2>0, <2>a DEF IInv, Untouched
  <2>3. ListedOrTold'
    BY <1>0, <1>3, <2>0, <2>a DEF IInv, ListedOrTold
  <2>4. QueuesInOrder'
    <3> SUFFICES ASSUME NEW u \in Viewer
                 PROVE  InOrder(due[u], send[u], wire'[u], SentTo(u), viewerConn'[u])
      BY <1>0 DEF QueuesInOrder, SentTo
    <3>1. InOrder(due[u], send[u], wire[u], SentTo(u), viewerConn[u])
      BY DEF IInv, QueuesInOrder
    <3>2. InOrder(due[u], send[u], wire'[u], SentTo(u), viewerConn[u])
      BY <1>3, <3>1, QueueTypes, SendControlEffect
    <3>3. CASE u = v
      <4>2. InOrder(due[u], send[u], wire'[u], SentTo(u), FALSE)
        BY <3>2, QueueTypes, Cut, Zenon
      <4> QED
        BY <2>a, <3>3, <4>2, Zenon
    <3>4. CASE u # v
      BY <2>0, <3>1, <3>4
    <3> QED
      BY <3>3, <3>4
  <2> QED
    BY <1>1, <2>1, <2>2, <2>3, <2>4 DEF IInv
<1>4. CASE /\ Refusal(joined[v]) = {}
           /\ viewers' = [viewers EXCEPT ![joined[v]] = viewers[joined[v]] \cup {v}]
           /\ viewerPC' = [viewerPC EXCEPT ![v] = "ack"]
           /\ wire' = wire /\ viewerConn' = viewerConn
  <2>0. \A u \in Viewer : u # v => viewerPC'[u] = viewerPC[u]
    BY <1>4 DEF TypeOK
  <2>a. viewerPC'[v] = "ack" /\ ~closed[joined[v]]
    BY <1>4 DEF TypeOK, Refusal
  <2>b. /\ v \in viewers'[joined[v]]
        /\ \A t \in Sharer, u \in Viewer : u # v => (u \in viewers'[t] <=> u \in viewers[t])
        /\ \A t \in Sharer : v \in viewers'[t] => t = joined[v]
        /\ \A t \in Sharer : t # joined[v] => viewers'[t] = viewers[t]
        /\ \A t \in Sharer : viewers'[t] \subseteq Viewer
    BY <1>0, <1>2, <1>4 DEF TypeOK
  <2>1. TeardownOnce'
    BY <1>0, <2>a, <2>b DEF IInv, TeardownOnce, ClosedSessionStaysEmpty
  <2>2. ListedIsOpen'
    <3> SUFFICES ASSUME NEW t \in Sharer, NEW u \in viewers'[t]
                 PROVE  sendOpen[u] /\ joined[u] = t /\ viewerPC'[u] \in {"ack", "run"}
      BY <1>0 DEF ListedIsOpen, ChannelOpenWhileListed
    <3>0. u \in Viewer
      BY <2>b
    <3>1. CASE u = v
      BY <1>2, <2>a, <2>b, <3>1
    <3>2. CASE u # v
      BY <2>0, <2>b, <3>0, <3>2 DEF IInv, ListedIsOpen, ChannelOpenWhileListed
    <3> QED
      BY <3>1, <3>2
  <2>3. Untouched'
    BY <1>0, <1>2, <1>4, <2>0, <2>a DEF IInv, Untouched
  <2>4. ListedOrTold'
    <3> SUFFICES ASSUME NEW u \in Viewer, viewerPC'[u] \in {"ack", "run"}, viewerConn[u]
                 PROVE  u \in viewers'[joined[u]] \/ Has(wire[u], Ended)
      BY <1>0, <1>4 DEF ListedOrTold
    <3>1. CASE u # v
      BY <2>0, <2>b, <3>1 DEF IInv, ListedOrTold, Pointers
    <3> QED
      BY <2>b, <3>1
  <2>5. QueuesInOrder'
    BY <1>0, <1>4 DEF IInv, QueuesInOrder, SentTo
  <2> QED
    BY <1>1, <2>1, <2>2, <2>3, <2>4, <2>5 DEF IInv
<1>5. Refusal(joined[v]) \subseteq {"session-not-found", "session-full"}
  BY DEF Refusal
<1> QED
  BY <1>3, <1>4, <1>5 DEF handleWatchJoin

\* The join-ack is written once, before the writer starts.
LEMMA handleWatchAckIInv ==
    ASSUME TypeOK, Pointers, IInv, NEW v \in Viewer, handleWatchAck(v)
    PROVE  IInv'
<1>0. /\ sessions' = sessions /\ sharerPC' = sharerPC /\ sent' = sent /\ closed' = closed
      /\ viewers' = viewers /\ viewerConn' = viewerConn
      /\ joined' = joined /\ send' = send /\ sendOpen' = sendOpen /\ due' = due
      /\ writer' = [writer EXCEPT ![v] = "run"] /\ viewerPC[v] = "ack"
      /\ viewerPC' = [viewerPC EXCEPT ![v] = "run"]
      /\ wire' = SendControl({v}, "join-ack")
  BY DEF handleWatchAck, sharerVars, queueVars
<1>1. \A u \in Viewer : u # v =>
        wire'[u] = wire[u] /\ viewerPC'[u] = viewerPC[u] /\ writer'[u] = writer[u]
  <2> SUFFICES ASSUME NEW u \in Viewer, u # v
               PROVE  wire'[u] = wire[u] /\ viewerPC'[u] = viewerPC[u] /\ writer'[u] = writer[u]
    OBVIOUS
  <2>1. viewerPC'[u] = viewerPC[u] /\ writer'[u] = writer[u]
    BY <1>0 DEF TypeOK
  <2>2. SendControl({v}, "join-ack")[u] = wire[u]
    BY SendControlEffect
  <2> QED
    BY <1>0, <2>1, <2>2
<1>2. /\ viewerPC'[v] = "run" /\ writer'[v] = "run"
      /\ viewerConn[v] => Has(wire'[v], JoinAck)
      /\ Has(wire[v], Ended) => Has(wire'[v], Ended)
  <2>1. viewerPC'[v] = "run" /\ writer'[v] = "run"
    BY <1>0 DEF TypeOK
  <2>2. \A g : Has(SendControl({v}, "join-ack")[v], g) <=>
                 Has(wire[v], g) \/ (viewerConn[v] /\ g = JoinAck)
    BY SendControlEffect DEF JoinAck
  <2> QED
    BY <1>0, <2>1, <2>2, Zenon
<1>3. Registered' /\ TeardownOnce'
  BY <1>0 DEF IInv, Registered, RunningSessionIsRegistered, TeardownOnce,
         ClosedSessionStaysEmpty
<1>4. ListedIsOpen'
  BY <1>0, <1>1, <1>2 DEF IInv, ListedIsOpen, ChannelOpenWhileListed, TypeOK
<1>5. Untouched'
  <2> DEFINE T(u) ==
        /\ viewerPC[u] = "dial" => joined[u] = None /\ ~viewerConn[u]
        /\ viewerPC[u] \in {"dial", "found"} =>
             sendOpen[u] /\ send[u] = <<>> /\ due[u] = <<>> /\ wire[u] = <<>>
        /\ viewerPC[u] \in {"dial", "found", "ack"} =>
             writer[u] = "none" /\ ~Has(wire[u], JoinAck)
        /\ viewerPC[u] = "done" => ~viewerConn[u]
        /\ writer[u] = "drain" => ~viewerConn[u]
        /\ writer[u] # "none" /\ viewerConn[u] => Has(wire[u], JoinAck)
  <2>1. \A u \in Viewer : T(u)
    BY DEF IInv, Untouched
  <2> SUFFICES ASSUME NEW u \in Viewer
               PROVE  T(u)'
    BY DEF Untouched
  <2>2. CASE u # v
    BY <1>0, <1>1, <2>1, <2>2
  <2>3. CASE u = v
    BY <1>0, <1>2, <2>1, <2>3
  <2> QED
    BY <2>2, <2>3
<1>6. ListedOrTold'
  BY <1>0, <1>1, <1>2 DEF IInv, ListedOrTold
<1>7. QueuesInOrder'
  <2> SUFFICES ASSUME NEW u \in Viewer
               PROVE  InOrder(due[u], send[u], wire'[u], SentTo(u), viewerConn[u])
    BY <1>0 DEF QueuesInOrder, SentTo
  <2>1. InOrder(due[u], send[u], wire[u], SentTo(u), viewerConn[u])
    BY DEF IInv, QueuesInOrder
  <2> QED
    BY <1>0, <2>1, QueueTypes, SendControlEffect
<1> QED
  BY <1>3, <1>4, <1>5, <1>6, <1>7 DEF IInv

\* viewerWriter passes the head of the channel on.
LEMMA viewerWriterWriteIInv ==
    ASSUME TypeOK, Pointers, IInv, NEW v \in Viewer, viewerWriterWrite(v)
    PROVE  IInv'
<1>0. /\ sessions' = sessions /\ sharerPC' = sharerPC /\ sent' = sent /\ closed' = closed
      /\ viewers' = viewers /\ viewerPC' = viewerPC /\ viewerConn' = viewerConn
      /\ joined' = joined /\ sendOpen' = sendOpen /\ due' = due /\ writer' = writer
      /\ writer[v] = "run" /\ send[v] # <<>>
      /\ wire' = [wire EXCEPT ![v] = Append(wire[v], Head(send[v]))]
      /\ send' = [send EXCEPT ![v] = Tail(send[v])]
  BY DEF viewerWriterWrite, sharerVars, viewerVars
<1>1. /\ \A u \in Viewer : u # v => wire'[u] = wire[u] /\ send'[u] = send[u]
      /\ wire'[v] = Append(wire[v], Head(send[v])) /\ send'[v] = Tail(send[v])
  BY <1>0 DEF TypeOK
<1>2. \A g : Has(wire[v], g) => Has(wire'[v], g)
  <2>1. Head(send[v]) \in Frame
    BY <1>0, QueueTypes, HeadTailProperties DEF Frame
  <2> QED
    BY <1>1, <2>1, QueueTypes, HasAppend
<1>3. Registered' /\ TeardownOnce' /\ ListedIsOpen'
  BY <1>0 DEF IInv, Registered, RunningSessionIsRegistered, TeardownOnce,
         ClosedSessionStaysEmpty, ListedIsOpen, ChannelOpenWhileListed
<1>4. viewerPC[v] \notin {"dial", "found", "ack"}
  BY <1>0 DEF IInv, Untouched
<1>5. Untouched'
  BY <1>0, <1>1, <1>2, <1>4 DEF IInv, Untouched
<1>6. ListedOrTold'
  BY <1>0, <1>1, <1>2 DEF IInv, ListedOrTold
<1>7. QueuesInOrder'
  <2> SUFFICES ASSUME NEW u \in Viewer
               PROVE  InOrder(due[u], send'[u], wire'[u], SentTo(u), viewerConn[u])
    BY <1>0 DEF QueuesInOrder, SentTo
  <2>1. InOrder(due[u], send[u], wire[u], SentTo(u), viewerConn[u])
    BY DEF IInv, QueuesInOrder
  <2> QED
    BY <1>0, <1>1, <2>1, QueueTypes, Write
<1> QED
  BY <1>3, <1>5, <1>6, <1>7 DEF IInv

\* A failed write and the loop that empties the channel lose messages of a
\* viewer that is no longer connected.
LEMMA viewerWriterLosesIInv ==
    ASSUME TypeOK, Pointers, IInv, NEW v \in Viewer,
           viewerWriterError(v) \/ viewerWriterDrain(v)
    PROVE  IInv'
<1>0. /\ sessions' = sessions /\ sharerPC' = sharerPC /\ sent' = sent /\ closed' = closed
      /\ viewers' = viewers /\ viewerPC' = viewerPC
      /\ joined' = joined /\ sendOpen' = sendOpen /\ due' = due /\ wire' = wire
      /\ writer[v] \in {"run", "drain"} /\ send[v] # <<>>
      /\ send' = [send EXCEPT ![v] = Tail(send[v])]
  BY DEF viewerWriterError, viewerWriterDrain, sharerVars, viewerVars
<1>1. viewerConn'[v] = FALSE /\ writer'[v] = "drain"
  <2>1. CASE viewerWriterError(v)
    BY <2>1 DEF viewerWriterError, TypeOK
  <2>2. CASE viewerWriterDrain(v)
    <3>1. writer[v] = "drain" /\ writer' = writer /\ viewerConn' = viewerConn
      BY <2>2 DEF viewerWriterDrain, viewerVars
    <3> QED
      BY <3>1, QueueTypes DEF IInv, Untouched
  <2> QED
    BY <2>1, <2>2
<1>2. \A u \in Viewer : u # v =>
        viewerConn'[u] = viewerConn[u] /\ writer'[u] = writer[u] /\ send'[u] = send[u]
  BY DEF viewerWriterError, viewerWriterDrain, viewerVars, TypeOK
<1>3. Registered' /\ TeardownOnce' /\ ListedIsOpen'
  BY <1>0 DEF IInv, Registered, RunningSessionIsRegistered, TeardownOnce,
         ClosedSessionStaysEmpty, ListedIsOpen, ChannelOpenWhileListed
<1>4. viewerPC[v] \notin {"dial", "found", "ack"}
  BY <1>0 DEF IInv, Untouched
<1>5. Untouched'
  BY <1>0, <1>1, <1>2, <1>4 DEF IInv, Untouched
<1>6. ListedOrTold'
  BY <1>0, <1>1, <1>2 DEF IInv, ListedOrTold
<1>7. QueuesInOrder'
  <2> SUFFICES ASSUME NEW u \in Viewer
               PROVE  InOrder(due[u], send'[u], wire[u], SentTo(u), viewerConn'[u])
    BY <1>0 DEF QueuesInOrder, SentTo
  <2>1. InOrder(due[u], send[u], wire[u], SentTo(u), viewerConn[u])
    BY DEF IInv, QueuesInOrder
  <2>2. CASE u = v
    <3>1. send'[v] = Tail(send[v])
      BY <1>0 DEF TypeOK
    <3>2. InOrder(due[v], Tail(send[v]), wire[v], SentTo(v), FALSE)
      BY <1>0, <2>1, <2>2, QueueTypes, Discard
    <3> QED
      BY <1>1, <2>2, <3>1, <3>2, Zenon
  <2>3. CASE u # v
    BY <1>2, <2>1, <2>3
  <2> QED
    BY <2>2, <2>3
<1> QED
  BY <1>3, <1>5, <1>6, <1>7 DEF IInv

\* A lost connection needs no bookkeeping until its handler notices.
LEMMA ViewerLostIInv ==
    ASSUME TypeOK, Pointers, IInv, NEW v \in Viewer, ViewerLost(v)
    PROVE  IInv'
<1>0. /\ sessions' = sessions /\ sharerPC' = sharerPC /\ sent' = sent /\ closed' = closed
      /\ viewers' = viewers /\ viewerPC' = viewerPC /\ joined' = joined /\ writer' = writer
      /\ send' = send /\ sendOpen' = sendOpen /\ due' = due /\ wire' = wire
      /\ viewerConn' = [viewerConn EXCEPT ![v] = FALSE]
  BY DEF ViewerLost, sharerVars, queueVars
<1>1. viewerConn'[v] = FALSE /\ \A u \in Viewer : u # v => viewerConn'[u] = viewerConn[u]
  BY <1>0 DEF TypeOK
<1>2. Registered' /\ TeardownOnce' /\ ListedIsOpen'
  BY <1>0 DEF IInv, Registered, RunningSessionIsRegistered, TeardownOnce,
         ClosedSessionStaysEmpty, ListedIsOpen, ChannelOpenWhileListed
<1>3. Untouched' /\ ListedOrTold'
  BY <1>0, <1>1 DEF IInv, Untouched, ListedOrTold
<1>4. QueuesInOrder'
  <2> SUFFICES ASSUME NEW u \in Viewer
               PROVE  InOrder(due[u], send[u], wire[u], SentTo(u), viewerConn'[u])
    BY <1>0 DEF QueuesInOrder, SentTo
  <2>1. InOrder(due[u], send[u], wire[u], SentTo(u), viewerConn[u])
    BY DEF IInv, QueuesInOrder
  <2>2. InOrder(due[u], send[u], wire[u], SentTo(u), FALSE)
    BY <2>1, QueueTypes, Cut, Zenon
  <2> QED
    BY <1>1, <2>1, <2>2, Zenon
<1> QED
  BY <1>2, <1>3, <1>4 DEF IInv

\* The departure closes a channel only of a viewer it unlists.
LEMMA runViewerEndIInv ==
    ASSUME TypeOK, Pointers, IInv, NEW v \in Viewer, runViewerEnd(v)
    PROVE  IInv'
<1>0. /\ sessions' = sessions /\ sharerPC' = sharerPC /\ sent' = sent /\ closed' = closed
      /\ joined' = joined /\ writer' = writer /\ viewerConn' = viewerConn
      /\ send' = send /\ due' = due /\ wire' = wire
      /\ viewerPC[v] = "run" /\ ~viewerConn[v] /\ joined[v] \in Sharer
      /\ viewerPC' = [viewerPC EXCEPT ![v] = "done"]
      /\ viewers' = [viewers EXCEPT ![joined[v]] = viewers[joined[v]] \ {v}]
      /\ sendOpen' = [sendOpen EXCEPT ![v] = ChannelAfter(joined[v], v)]
  BY DEF runViewerEnd, sharerVars, Pointers
<1>1. /\ viewerPC'[v] = "done"
      /\ \A u \in Viewer : u # v => viewerPC'[u] = viewerPC[u] /\ sendOpen'[u] = sendOpen[u]
  BY <1>0 DEF TypeOK
<1>2. /\ \A t \in Sharer : v \notin viewers'[t] /\ viewers'[t] \subseteq viewers[t]
      /\ \A t \in Sharer, u \in Viewer : u # v /\ u \in viewers[t] => u \in viewers'[t]
      /\ \A t \in Sharer : viewers'[t] \subseteq Viewer
  BY <1>0 DEF IInv, ListedIsOpen, ChannelOpenWhileListed, TypeOK
<1>3. Registered'
  BY <1>0 DEF IInv, Registered, RunningSessionIsRegistered
<1>4. TeardownOnce'
  BY <1>0, <1>2 DEF IInv, TeardownOnce, ClosedSessionStaysEmpty
<1>5. ListedIsOpen'
  <2> SUFFICES ASSUME NEW t \in Sharer, NEW u \in viewers'[t]
               PROVE  sendOpen'[u] /\ joined[u] = t /\ viewerPC'[u] \in {"ack", "run"}
    BY <1>0 DEF ListedIsOpen, ChannelOpenWhileListed
  <2>1. u \in Viewer /\ u # v /\ u \in viewers[t]
    BY <1>2
  <2> QED
    BY <1>1, <2>1 DEF IInv, ListedIsOpen, ChannelOpenWhileListed
<1>6. Untouched'
  BY <1>0, <1>1 DEF IInv, Untouched
<1>7. ListedOrTold'
  <2> SUFFICES ASSUME NEW u \in Viewer, viewerPC'[u] \in {"ack", "run"}, viewerConn[u]
               PROVE  u \in viewers'[joined[u]] \/ Has(wire[u], Ended)
    BY <1>0 DEF ListedOrTold
  <2>1. u # v /\ viewerPC[u] \in {"ack", "run"} /\ joined[u] \in Sharer
    BY <1>0, <1>1 DEF Pointers
  <2> QED
    BY <1>2, <2>1 DEF IInv, ListedOrTold
<1>8. QueuesInOrder'
  BY <1>0 DEF IInv, QueuesInOrder, SentTo
<1> QED
  BY <1>3, <1>4, <1>5, <1>6, <1>7, <1>8 DEF IInv

\* The inductive invariant holds in every reachable state of the relay.
THEOREM Inductive == Spec => [](TypeOK /\ Pointers /\ IInv)
<1>1. NewServer => IInv
  <2> SUFFICES ASSUME NewServer PROVE IInv
    OBVIOUS
  <2>1. Registered /\ TeardownOnce /\ ListedIsOpen /\ ListedOrTold
    BY DEF NewServer, Registered, RunningSessionIsRegistered, TeardownOnce,
           ClosedSessionStaysEmpty, ListedIsOpen, ChannelOpenWhileListed, ListedOrTold
  <2>2. Untouched
    BY EmptyWire DEF NewServer, Untouched
  <2>3. QueuesInOrder
    BY EmptyWire DEF NewServer, QueuesInOrder, SentTo
  <2> QED
    BY <2>1, <2>2, <2>3 DEF IInv
<1>2. TypeOK /\ Pointers /\ IInv /\ [Next]_vars => IInv'
  <2> SUFFICES ASSUME TypeOK, Pointers, IInv, [Next]_vars PROVE IInv'
    OBVIOUS
  <2>1. ASSUME \/ \E s \in Sharer : SharerLost(s)
               \/ \E v \in Viewer : runViewerSPAKE2(v)
               \/ UNCHANGED vars
        PROVE  IInv'
    <3>1. /\ sessions' = sessions /\ sharerPC' = sharerPC /\ sent' = sent
          /\ closed' = closed /\ viewers' = viewers /\ viewerPC' = viewerPC
          /\ viewerConn' = viewerConn /\ joined' = joined /\ send' = send
          /\ sendOpen' = sendOpen /\ due' = due /\ wire' = wire /\ writer' = writer
      BY <2>1 DEF SharerLost, runViewerSPAKE2, vars, sharerVars, viewerVars, queueVars
    <3> QED
      BY <3>1 DEF IInv, Registered, RunningSessionIsRegistered, TeardownOnce,
         ClosedSessionStaysEmpty, ListedIsOpen, ChannelOpenWhileListed, Untouched,
         ListedOrTold, QueuesInOrder, SentTo
  <2>2. ASSUME NEW v \in Viewer, viewerWriterDone(v) PROVE IInv'
    <3>1. /\ sessions' = sessions /\ sharerPC' = sharerPC /\ sent' = sent
          /\ closed' = closed /\ viewers' = viewers /\ viewerPC' = viewerPC
          /\ viewerConn' = viewerConn /\ joined' = joined /\ send' = send
          /\ sendOpen' = sendOpen /\ due' = due /\ wire' = wire
          /\ writer[v] # "none" /\ writer' = [writer EXCEPT ![v] = "done"]
      BY <2>2 DEF viewerWriterDone, sharerVars, viewerVars, queueVars
    <3>2. Registered' /\ TeardownOnce' /\ ListedIsOpen' /\ ListedOrTold' /\ QueuesInOrder'
      BY <3>1 DEF IInv, Registered, RunningSessionIsRegistered, TeardownOnce,
         ClosedSessionStaysEmpty, ListedIsOpen, ChannelOpenWhileListed, ListedOrTold,
         QueuesInOrder, SentTo
    <3>3. Untouched'
      BY <3>1 DEF IInv, Untouched, TypeOK
    <3> QED
      BY <3>2, <3>3 DEF IInv
  <2> QED
    BY <2>1, <2>2, handleShareIInv, runSharerBroadcastIInv, runSharerUnicastIInv,
       runSharerEndIInv, runSharerFreeIInv, handleWatchLookupIInv, handleWatchJoinIInv,
       handleWatchAckIInv, viewerWriterWriteIInv, viewerWriterLosesIInv, ViewerLostIInv,
       runViewerEndIInv DEF Next, ServeSharer, ServeViewer, ServeWriter
<1> QED
  BY <1>1, <1>2, TypeCorrect, PTL DEF Spec

-----------------------------------------------------------------------------
\* The properties.

\* No broadcast, unicast, teardown or departure sends on, or closes, a closed
\* channel: a viewer is listed only while its channel is open.
THEOREM ChannelSafety == Spec => []ChannelOpenWhileListed
  BY Inductive, PTL DEF IInv, ListedIsOpen

\* handleWatch never adds a viewer to a session that was torn down after the
\* look-up.
THEOREM ClosedStaysEmpty == Spec => []ClosedSessionStaysEmpty
  BY Inductive, PTL DEF IInv, TeardownOnce

\* The check and the registration of an ID, and its release, are such that a
\* running session keeps its entry in Server.sessions.
THEOREM IDOwnership == Spec => []RunningSessionIsRegistered
  BY Inductive, PTL DEF IInv, Registered

\* A viewer whose admission raced the teardown is refused or told.
THEOREM EndIsAnnounced == Spec => []EveryoneToldOfTheEnd
<1>1. TypeOK /\ Pointers /\ IInv => EveryoneToldOfTheEnd
  <2> SUFFICES ASSUME TypeOK, Pointers, IInv, NEW v \in Viewer, viewerConn[v],
                      viewerPC[v] \in {"ack", "run"}, closed[joined[v]]
               PROVE  \E i \in DOMAIN wire[v] : wire[v][i].kind = "session-ended"
    BY DEF EveryoneToldOfTheEnd
  <2>1. Has(wire[v], Ended)
    BY DEF IInv, ListedOrTold, TeardownOnce, ClosedSessionStaysEmpty, Pointers
  <2> QED
    BY <2>1 DEF Has, Ended
<1> QED
  BY <1>1, Inductive, PTL

\* Each step of the relay is a step of Broker, or none.
LEMMA BrokerStep ==
    ASSUME TypeOK, Pointers, IInv, [Next]_vars
    PROVE  [Promise!Next]_(Promise!vars)
<1>1. ASSUME \/ \E s \in Sharer : handleShare(s) \/ SharerLost(s) \/ runSharerFree(s)
             \/ \E v \in Viewer : \/ runViewerSPAKE2(v) \/ viewerWriterDrain(v)
                                  \/ viewerWriterDone(v)
             \/ UNCHANGED vars
      PROVE  UNCHANGED Promise!vars
  <2>1. /\ viewers' = viewers /\ closed' = closed /\ sent' = sent
        /\ viewerConn' = viewerConn /\ due' = due /\ wire' = wire
    BY <1>1 DEF handleShare, SharerLost, runSharerFree, runViewerSPAKE2, viewerWriterDrain,
       viewerWriterDone, vars, sharerVars, viewerVars, queueVars
  <2> QED
    BY <2>1 DEF Promise!vars
<1>2. ASSUME NEW s \in Sharer, runSharerBroadcast(s) PROVE Promise!Publish(s)
  <2>1. ~closed[s]
    BY <1>2 DEF IInv, TeardownOnce, runSharerBroadcast
  <2> QED
    BY <1>2, <2>1 DEF runSharerBroadcast, viewerVars, Promise!Publish, Promise!Send
<1>3. ASSUME NEW s \in Sharer, NEW v \in Viewer, runSharerUnicast(s, v)
      PROVE  Promise!Address(s, v)
  <2> DEFINE m == [kind |-> "unicast", n |-> sent[s] + 1]
  <2>1. /\ ~closed[s] /\ v \in viewers[s] /\ sent' = [sent EXCEPT ![s] = sent[s] + 1]
        /\ closed' = closed /\ wire' = wire
    BY <1>3 DEF IInv, TeardownOnce, runSharerUnicast
  <2>2. due' = [u \in Viewer |-> IF u \in {v} THEN Append(due[u], m) ELSE due[u]]
    BY <1>3 DEF runSharerUnicast, TypeOK
  <2>3. \/ viewers' = viewers /\ viewerConn' = viewerConn
        \/ /\ viewerConn' = [viewerConn EXCEPT ![v] = FALSE]
           /\ viewers' = [viewers EXCEPT ![s] = viewers[s] \ {v}]
    BY <1>3, Zenon DEF runSharerUnicast, DisconnectSlowConsumer
  <2> QED
    BY <2>1, <2>2, <2>3 DEF Promise!Address, Promise!Send
<1>4. ASSUME NEW s \in Sharer, runSharerEnd(s) PROVE Promise!End(s)
  <2>1. ~closed[s]
    BY <1>4 DEF IInv, TeardownOnce, runSharerEnd
  <2> QED
    BY <1>4, <2>1 DEF runSharerEnd, SendControl, viewerVars, Promise!End, Promise!Control
<1>5. ASSUME NEW v \in Viewer, handleWatchLookup(v)
      PROVE  Promise!Refuse(v) \/ Promise!Connect(v)
  <2>1. wire[v] = <<>> /\ ~viewerConn[v] /\ \A s \in Sharer : v \notin viewers[s]
    BY <1>5 DEF handleWatchLookup, IInv, Untouched, ListedIsOpen
  <2>2. /\ sent' = sent /\ viewers' = viewers /\ closed' = closed /\ due' = due
    BY <1>5 DEF handleWatchLookup, sharerVars, queueVars
  <2>3. CASE /\ wire' = [wire EXCEPT ![v] = <<[kind |-> "session-not-found", n |-> 0]>>]
             /\ viewerConn' = viewerConn
    <3>1. Append(wire[v], Promise!Control("session-not-found"))
            = <<[kind |-> "session-not-found", n |-> 0]>>
      BY <2>1 DEF Promise!Control
    <3>2. viewerConn' = [viewerConn EXCEPT ![v] = FALSE]
      BY <2>1, <2>3 DEF TypeOK
    <3> QED
      BY <2>1, <2>2, <2>3, <3>1, <3>2, Zenon DEF Promise!Refuse, Promise!Member
  <2>4. CASE wire' = wire /\ viewerConn' = [viewerConn EXCEPT ![v] = TRUE]
    BY <2>1, <2>2, <2>4 DEF Promise!Connect
  <2> QED
    BY <1>5, <2>3, <2>4 DEF handleWatchLookup
<1>6. ASSUME NEW v \in Viewer, handleWatchJoin(v)
      PROVE  \/ Promise!Refuse(v) \/ UNCHANGED Promise!vars
             \/ \E s \in Sharer : Promise!Admit(s, v)
  <2>1. wire[v] = <<>> /\ joined[v] \in Sharer /\ \A s \in Sharer : v \notin viewers[s]
    BY <1>6 DEF handleWatchJoin, IInv, Untouched, ListedIsOpen, Pointers
  <2>2. /\ sent' = sent /\ closed' = closed /\ due' = due
    BY <1>6 DEF handleWatchJoin, sharerVars, queueVars
  <2>3. ASSUME NEW c \in Refusal(joined[v]), wire' = SendControl({v}, c),
               viewerConn' = [viewerConn EXCEPT ![v] = FALSE], viewers' = viewers
        PROVE  Promise!Refuse(v) \/ UNCHANGED Promise!vars
    <3>1. c \in {"session-not-found", "session-full"}
      BY DEF Refusal
    <3>2. CASE viewerConn[v]
      <4>1. wire' = [wire EXCEPT ![v] = Append(wire[v], Promise!Control(c))]
        BY <2>3, <3>2 DEF SendControl, Promise!Control, TypeOK
      <4> QED
        BY <2>1, <2>2, <2>3, <3>1, <4>1 DEF Promise!Refuse, Promise!Member
    <3>3. CASE ~viewerConn[v]
      <4>1. wire' = wire /\ viewerConn' = viewerConn
        BY <2>3, <3>3 DEF SendControl, TypeOK
      <4> QED
        BY <2>2, <2>3, <4>1 DEF Promise!vars
    <3> QED
      BY <3>2, <3>3
  <2>4. CASE /\ Refusal(joined[v]) = {} /\ wire' = wire /\ viewerConn' = viewerConn
             /\ viewers' = [viewers EXCEPT ![joined[v]] = viewers[joined[v]] \cup {v}]
    <3>1. ~closed[joined[v]]
      BY <2>4 DEF Refusal
    <3> QED
      BY <2>1, <2>2, <2>4, <3>1 DEF Promise!Admit, Promise!Member
  <2> QED
    BY <1>6, <2>3, <2>4 DEF handleWatchJoin
<1>7. ASSUME NEW v \in Viewer, handleWatchAck(v)
      PROVE  Promise!Ack(v) \/ UNCHANGED Promise!vars
  <2>1. /\ sent' = sent /\ closed' = closed /\ due' = due /\ viewers' = viewers
        /\ viewerConn' = viewerConn /\ viewerPC[v] = "ack"
        /\ wire' = SendControl({v}, "join-ack")
    BY <1>7 DEF handleWatchAck, sharerVars, queueVars
  <2>2. CASE viewerConn[v]
    <3>1. wire' = [wire EXCEPT ![v] = Append(wire[v], Promise!Control("join-ack"))]
      BY <2>1, <2>2 DEF SendControl, Promise!Control, TypeOK
    <3>2. ~Promise!Acked(v)
      BY <2>1 DEF IInv, Untouched, Has, JoinAck, Promise!Acked, Promise!Given, Promise!Control
    <3>3. Promise!Member(v) \/ Promise!Told(v)
      <4>1. joined[v] \in Sharer /\ (v \in viewers[joined[v]] \/ Has(wire[v], Ended))
        BY <2>1, <2>2 DEF IInv, ListedOrTold, Pointers
      <4> QED
        BY <4>1 DEF Has, Ended, Promise!Member, Promise!Told, Promise!Given, Promise!Control
    <3> QED
      BY <2>1, <2>2, <3>1, <3>2, <3>3 DEF Promise!Ack
  <2>3. CASE ~viewerConn[v]
    <3>1. wire' = wire
      BY <2>1, <2>3 DEF SendControl, TypeOK
    <3> QED
      BY <2>1, <3>1 DEF Promise!vars
  <2> QED
    BY <2>2, <2>3
<1>8. ASSUME NEW v \in Viewer, viewerWriterWrite(v) PROVE Promise!Deliver(v)
  <2>1. /\ sent' = sent /\ closed' = closed /\ due' = due /\ viewers' = viewers
        /\ viewerConn' = viewerConn /\ viewerConn[v] /\ writer[v] = "run"
        /\ send[v] # <<>> /\ wire' = [wire EXCEPT ![v] = Append(wire[v], Head(send[v]))]
    BY <1>8 DEF viewerWriterWrite, sharerVars, viewerVars
  <2>2. Promise!Acked(v)
    <3>1. Has(wire[v], JoinAck)
      BY <2>1 DEF IInv, Untouched
    <3> QED
      BY <3>1 DEF Has, JoinAck, Promise!Acked, Promise!Given, Promise!Control
  <2>3. InOrder(due[v], send[v], wire[v], SentTo(v), TRUE)
    <3>1. InOrder(due[v], send[v], wire[v], SentTo(v), viewerConn[v]) /\ viewerConn[v] = TRUE
      BY <2>1, QueueTypes DEF IInv, QueuesInOrder
    <3> QED
      BY <3>1, Zenon
  <2>4. PICK i \in DOMAIN due[v] :
             /\ due[v][i] = Head(send[v])
             /\ \A k \in DOMAIN wire[v] : wire[v][k].n < due[v][i].n
             /\ \A j \in 1..(i-1) : due[v][j].kind = "unicast" => Has(wire[v], due[v][j])
    BY <2>1, <2>3, QueueTypes, HeadIsNext
  <2>5. Promise!IsNext(v, i)
    BY <2>4 DEF Promise!IsNext, Promise!Given, Has
  <2> QED
    BY <2>1, <2>2, <2>4, <2>5 DEF Promise!Deliver
<1>9. ASSUME NEW v \in Viewer, viewerWriterError(v) \/ ViewerLost(v) PROVE Promise!Disconnect(v)
  BY <1>9 DEF viewerWriterError, ViewerLost, sharerVars, queueVars, Promise!Disconnect
<1>10. ASSUME NEW v \in Viewer, runViewerEnd(v)
       PROVE  joined[v] \in Sharer /\ Promise!Forget(joined[v], v)
  BY <1>10 DEF runViewerEnd, sharerVars, Pointers, Promise!Forget
<1> QED
  BY <1>1, <1>2, <1>3, <1>4, <1>5, <1>6, <1>7, <1>8, <1>9, <1>10
     DEF Next, ServeSharer, ServeViewer, ServeWriter, Promise!Next

\* The relay, with its goroutines, locks and bounded channels, implements
\* Broker: order, no duplicates, no lost unicast, the join-ack first, and the
\* end announced.
THEOREM Refinement == Spec => ImplementsBroker
<1>1. NewServer => Promise!Init
  BY DEF NewServer, Promise!Init
<1> QED
  BY <1>1, BrokerStep, Inductive, PTL DEF Spec, ImplementsBroker, Promise!Spec

=============================================================================
