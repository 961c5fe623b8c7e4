------------------------------- MODULE Relay -------------------------------
(***************************************************************************)
(* internal/relay/relay.go: the broker between one sharer connection and   *)
(* the viewer connections of a session.  Every connection is served by a   *)
(* goroutine of its own, and every accepted viewer has a second one        *)
(* (viewerWriter) behind a bounded Go channel.                             *)
(*                                                                         *)
(* An action is one critical section of Server.mu or session.mu, or one    *)
(* step outside them.  A session object is named by the sharer connection  *)
(* that created it: handleWatch keeps a pointer to the object while the    *)
(* session ID may be freed and registered again.  The relay ID of a viewer *)
(* is its connection (generateViewerID draws 6 random characters; IDs do   *)
(* not collide here).                                                      *)
(*                                                                         *)
(* A connection is lost when the peer closes it, when it is silent for     *)
(* SharerTimeoutSec or ViewerTimeoutSec, or when the relay closes it.      *)
(* A control frame written to a lost connection is dropped (sendControl    *)
(* ignores errors).  Heartbeats only answer with a pong and are left out.  *)
(* A definition XBug is a plausible mistake, used only to see that the     *)
(* properties below notice it.                                             *)
(***************************************************************************)
EXTENDS Naturals, Sequences, FiniteSets

CONSTANTS
    SessionID,
    Sharer,         \* connections to /api/share
    Viewer,         \* connections to /api/watch
    None,           \* no entry in Server.sessions, no session object
    IDOf,           \* the session ID a connection asks for
    MaxViewers,     \* Server.maxViewers
    SendBuf,        \* viewerSendBufSize
    MaxSent,        \* bound: messages read from one sharer
    MaxSPAKE2       \* bound: handshake messages read from one viewer

ASSUME NoneAssumption == None \notin Sharer
ASSUME IDAssumption   == IDOf \in [Sharer \cup Viewer -> SessionID]
ASSUME SizeAssumption == /\ MaxViewers \in Nat /\ SendBuf \in Nat \ {0}
                         /\ MaxSent \in Nat /\ MaxSPAKE2 \in Nat

VARIABLES
    sessions,   \* Server.sessions: session ID -> session object
    sharerPC,   \* program counter of handleShare/runSharer
    sharerConn, \* the sharer's connection is usable
    closed,     \* session.closed
    viewers,    \* session.viewers
    sent,       \* messages read from the sharer so far
    toSharer,   \* written to the sharer
    viewerPC,   \* program counter of handleWatch/runViewer
    viewerConn, \* the viewer's connection is usable
    joined,     \* the session object handleWatch looked up
    send,       \* viewerConn.send: buffered messages
    sendOpen,   \* viewerConn.send has not been closed
    writer,     \* program counter of viewerWriter
    wire,       \* written to the viewer
    due,        \* history: messages sent to the viewer while listed
    spoke       \* handshake messages read from the viewer so far

sharerVars == <<sharerPC, sharerConn, sent>>
viewerVars == <<viewerPC, viewerConn, joined, spoke>>
queueVars  == <<send, sendOpen, due>>
vars == <<sessions, sharerVars, closed, viewers, toSharer, viewerVars, queueVars, writer, wire>>

Message == [kind : {"stream", "unicast"}, n : Nat]
Control == [kind : {"join-ack", "session-not-found", "session-full", "session-ended"},
            n : {0}]
Notice  == [kind : {"spake2", "viewer-disconnected"}, viewer : Viewer]

-----------------------------------------------------------------------------

NewServer ==
    /\ sessions = [id \in SessionID |-> None]
    /\ sharerPC = [s \in Sharer |-> "dial"]
    /\ sharerConn = [s \in Sharer |-> FALSE]
    /\ closed = [s \in Sharer |-> FALSE]
    /\ viewers = [s \in Sharer |-> {}]
    /\ sent = [s \in Sharer |-> 0]
    /\ toSharer = [s \in Sharer |-> <<>>]
    /\ viewerPC = [v \in Viewer |-> "dial"]
    /\ viewerConn = [v \in Viewer |-> FALSE]
    /\ joined = [v \in Viewer |-> None]
    /\ send = [v \in Viewer |-> <<>>]
    /\ sendOpen = [v \in Viewer |-> TRUE]
    /\ writer = [v \in Viewer |-> "none"]
    /\ wire = [v \in Viewer |-> <<>>]
    /\ due = [v \in Viewer |-> <<>>]
    /\ spoke = [v \in Viewer |-> 0]

\* wire after control frame c was written to the viewers of V that are there.
SendControl(V, c) ==
    [v \in Viewer |-> IF v \in V /\ viewerConn[v] THEN Append(wire[v], [kind |-> c, n |-> 0])
                                            ELSE wire[v]]

\* toSharer after a write to the sharer of session object s.
UntaggedBug(s, m) == [toSharer EXCEPT ![s] = Append(toSharer[s], [kind |-> m.kind])]
WriteToSharer(s, m) ==
    [toSharer EXCEPT ![s] = IF sharerConn[s] THEN Append(toSharer[s], m) ELSE toSharer[s]]

-----------------------------------------------------------------------------
\* The sharer's connection.

\* handleShare: the check of the session ID and the registration, under
\* Server.mu; a sharer that is too late gets session-id-conflict.
ConflictBug(id) == FALSE
Conflict(id) == sessions[id] # None

handleShare(s) ==
    /\ sharerPC[s] = "dial"
    /\ \/ /\ Conflict(IDOf[s])
          /\ sharerPC' = [sharerPC EXCEPT ![s] = "done"]
          /\ UNCHANGED <<sessions, sharerConn>>
       \/ /\ ~Conflict(IDOf[s])
          /\ sessions' = [sessions EXCEPT ![IDOf[s]] = s]
          /\ sharerPC' = [sharerPC EXCEPT ![s] = "run"]
          /\ sharerConn' = [sharerConn EXCEPT ![s] = TRUE]
    /\ UNCHANGED <<closed, viewers, sent, toSharer, viewerVars, queueVars, writer, wire>>

\* runSharer, stream and terminal-size messages: a full channel drops the
\* message for that viewer.
runSharerBroadcast(s) ==
    /\ sharerPC[s] = "run" /\ sharerConn[s]
    /\ sent[s] < MaxSent
    /\ sent' = [sent EXCEPT ![s] = sent[s] + 1]
    /\ send' = [v \in Viewer |->
                  IF v \in viewers[s] /\ Len(send[v]) < SendBuf
                  THEN Append(send[v], [kind |-> "stream", n |-> sent[s] + 1])
                  ELSE send[v]]
    /\ due' = [v \in Viewer |->
                 IF v \in viewers[s] THEN Append(due[v], [kind |-> "stream", n |-> sent[s] + 1])
                                     ELSE due[v]]
    /\ UNCHANGED <<sessions, sharerPC, sharerConn, closed, viewers, toSharer, viewerVars,
                   sendOpen, writer, wire>>

\* The branch of a unicast that does not fit into the channel: the viewer is
\* disconnected ("slow consumer").
KeepSlowConsumerBug(s, v) ==
    /\ sendOpen' = [sendOpen EXCEPT ![v] = FALSE]
    /\ viewerConn' = [viewerConn EXCEPT ![v] = FALSE]
    /\ UNCHANGED viewers
DropUnicastBug(s, v) == UNCHANGED <<sendOpen, viewerConn, viewers>>
DisconnectSlowConsumer(s, v) ==
    /\ sendOpen' = [sendOpen EXCEPT ![v] = FALSE]
    /\ viewerConn' = [viewerConn EXCEPT ![v] = FALSE]
    /\ viewers' = [viewers EXCEPT ![s] = viewers[s] \ {v}]

\* runSharer, unicast to a listed viewer (an unknown ID is ignored).
runSharerUnicast(s, v) ==
    /\ sharerPC[s] = "run" /\ sharerConn[s]
    /\ sent[s] < MaxSent
    /\ sent' = [sent EXCEPT ![s] = sent[s] + 1]
    /\ v \in viewers[s]
    /\ due' = [due EXCEPT ![v] = Append(due[v], [kind |-> "unicast", n |-> sent[s] + 1])]
    /\ \/ /\ Len(send[v]) < SendBuf
          /\ send' = [send EXCEPT ![v] =
                        Append(send[v], [kind |-> "unicast", n |-> sent[s] + 1])]
          /\ UNCHANGED <<viewers, sendOpen, viewerConn>>
       \/ /\ Len(send[v]) >= SendBuf
          /\ DisconnectSlowConsumer(s, v)
          /\ UNCHANGED send
    /\ UNCHANGED <<sessions, sharerPC, sharerConn, closed, toSharer, viewerPC, joined, spoke,
                   writer, wire>>

\* The sharer closes its connection or is silent for SharerTimeoutSec.
SharerLost(s) ==
    /\ sharerPC[s] = "run" /\ sharerConn[s]
    /\ sharerConn' = [sharerConn EXCEPT ![s] = FALSE]
    /\ UNCHANGED <<sessions, sharerPC, sent, closed, viewers, toSharer, viewerVars, queueVars,
                   writer, wire>>

\* The deferred function of runSharer, first under session.mu ...
runSharerEnd(s) ==
    /\ sharerPC[s] = "run" /\ ~sharerConn[s]
    /\ closed' = [closed EXCEPT ![s] = TRUE]
    /\ wire' = SendControl(viewers[s], "session-ended")
    /\ sendOpen' = [v \in Viewer |-> sendOpen[v] /\ v \notin viewers[s]]
    /\ viewers' = [viewers EXCEPT ![s] = {}]
    /\ sharerPC' = [sharerPC EXCEPT ![s] = "free"]
    /\ UNCHANGED <<sessions, sharerConn, sent, toSharer, viewerVars, send, due, writer>>

\* ... then under Server.mu.
NotFreedBug(s) == sessions
Freed(s) == [sessions EXCEPT ![IDOf[s]] = None]

runSharerFree(s) ==
    /\ sharerPC[s] = "free"
    /\ sessions' = Freed(s)
    /\ sharerPC' = [sharerPC EXCEPT ![s] = "done"]
    /\ UNCHANGED <<sharerConn, sent, closed, viewers, toSharer, viewerVars, queueVars, writer,
                   wire>>

-----------------------------------------------------------------------------
\* A viewer's connection.

\* handleWatch up to the look-up of the session, under Server.mu.
handleWatchLookup(v) ==
    /\ viewerPC[v] = "dial"
    /\ \/ /\ sessions[IDOf[v]] = None
          /\ wire' = [wire EXCEPT ![v] = <<[kind |-> "session-not-found", n |-> 0]>>]
          /\ viewerPC' = [viewerPC EXCEPT ![v] = "done"]
          /\ UNCHANGED <<viewerConn, joined>>
       \/ /\ sessions[IDOf[v]] # None
          /\ joined' = [joined EXCEPT ![v] = sessions[IDOf[v]]]
          /\ viewerConn' = [viewerConn EXCEPT ![v] = TRUE]
          /\ viewerPC' = [viewerPC EXCEPT ![v] = "found"]
          /\ UNCHANGED wire
    /\ UNCHANGED <<sessions, sharerVars, closed, viewers, toSharer, queueVars, writer, spoke>>

\* The two refusals of handleWatch's second critical section.
NoClosedCheckBug(s) ==
    IF Cardinality(viewers[s]) >= MaxViewers THEN {"session-full"} ELSE {}
Refusal(s) ==
    IF closed[s] THEN {"session-not-found"}
    ELSE IF Cardinality(viewers[s]) >= MaxViewers THEN {"session-full"}
    ELSE {}

\* handleWatch under session.mu of the object found before.
handleWatchJoin(v) ==
    /\ viewerPC[v] = "found"
    /\ LET s == joined[v]
       IN  \/ \E c \in Refusal(s) :
                /\ wire' = SendControl({v}, c)
                /\ viewerConn' = [viewerConn EXCEPT ![v] = FALSE]
                /\ viewerPC' = [viewerPC EXCEPT ![v] = "done"]
                /\ UNCHANGED viewers
           \/ /\ Refusal(s) = {}
              /\ viewers' = [viewers EXCEPT ![s] = viewers[s] \cup {v}]
              /\ viewerPC' = [viewerPC EXCEPT ![v] = "ack"]
              /\ UNCHANGED <<wire, viewerConn>>
    /\ UNCHANGED <<sessions, sharerVars, closed, toSharer, joined, spoke, queueVars, writer>>

\* The join-ack, sent without a lock, and the start of viewerWriter.
handleWatchAck(v) ==
    /\ viewerPC[v] = "ack"
    /\ wire' = SendControl({v}, "join-ack")
    /\ writer' = [writer EXCEPT ![v] = "run"]
    /\ viewerPC' = [viewerPC EXCEPT ![v] = "run"]
    /\ UNCHANGED <<sessions, sharerVars, closed, viewers, toSharer, viewerConn, joined, spoke,
                   queueVars>>

\* viewerWriter: one message taken from the channel and written.
viewerWriterWrite(v) ==
    /\ writer[v] = "run"
    /\ send[v] # <<>>
    /\ viewerConn[v]
    /\ wire' = [wire EXCEPT ![v] = Append(wire[v], Head(send[v]))]
    /\ send' = [send EXCEPT ![v] = Tail(send[v])]
    /\ UNCHANGED <<sessions, sharerVars, closed, viewers, toSharer, viewerVars, sendOpen,
                   due, writer>>

\* A write fails: the connection is lost, or the client takes more than 5 s.
viewerWriterError(v) ==
    /\ writer[v] = "run"
    /\ send[v] # <<>>
    /\ viewerConn' = [viewerConn EXCEPT ![v] = FALSE]
    /\ send' = [send EXCEPT ![v] = Tail(send[v])]
    /\ writer' = [writer EXCEPT ![v] = "drain"]
    /\ UNCHANGED <<sessions, sharerVars, closed, viewers, toSharer, viewerPC, joined, spoke,
                   sendOpen, due, wire>>

\* The loop that empties the channel after a failed write.
viewerWriterDrain(v) ==
    /\ writer[v] = "drain"
    /\ send[v] # <<>>
    /\ send' = [send EXCEPT ![v] = Tail(send[v])]
    /\ UNCHANGED <<sessions, sharerVars, closed, viewers, toSharer, viewerVars, sendOpen,
                   due, writer, wire>>

\* Both loops end when the channel is empty and closed.
viewerWriterDone(v) ==
    /\ writer[v] \in {"run", "drain"}
    /\ send[v] = <<>> /\ ~sendOpen[v]
    /\ writer' = [writer EXCEPT ![v] = "done"]
    /\ UNCHANGED <<sessions, sharerVars, closed, viewers, toSharer, viewerVars, queueVars, wire>>

\* runViewer: a handshake message, passed on unless the session has ended.
runViewerSPAKE2(v) ==
    /\ viewerPC[v] = "run" /\ viewerConn[v]
    /\ spoke[v] < MaxSPAKE2
    /\ spoke' = [spoke EXCEPT ![v] = spoke[v] + 1]
    /\ toSharer' = IF closed[joined[v]] THEN toSharer
                   ELSE WriteToSharer(joined[v], [kind |-> "spake2", viewer |-> v])
    /\ UNCHANGED <<sessions, sharerVars, closed, viewers, viewerPC, viewerConn, joined,
                   queueVars, writer, wire>>

\* The viewer closes its connection or is silent for ViewerTimeoutSec.
ViewerLost(v) ==
    /\ viewerPC[v] \in {"found", "ack", "run"} /\ viewerConn[v]
    /\ viewerConn' = [viewerConn EXCEPT ![v] = FALSE]
    /\ UNCHANGED <<sessions, sharerVars, closed, viewers, toSharer, viewerPC, joined, spoke,
                   queueVars, writer, wire>>

\* What the deferred function of runViewer leaves of the channel of v, in
\* session object s.
ChannelAfterBug(s, v) == sendOpen[v]
ChannelAfter(s, v) == sendOpen[v] /\ v \notin viewers[s]

\* Whether it reports the departure.
ReportsBug(s, v) == ~closed[s] /\ v \in viewers[s]
Reports(s, v) == ~closed[s]

runViewerEnd(v) ==
    /\ viewerPC[v] = "run" /\ ~viewerConn[v]
    /\ LET s == joined[v]
       IN  /\ sendOpen' = [sendOpen EXCEPT ![v] = ChannelAfter(s, v)]
           /\ viewers' = [viewers EXCEPT ![s] = viewers[s] \ {v}]
           /\ toSharer' = IF Reports(s, v)
                          THEN WriteToSharer(s, [kind |-> "viewer-disconnected", viewer |-> v])
                          ELSE toSharer
    /\ viewerPC' = [viewerPC EXCEPT ![v] = "done"]
    /\ UNCHANGED <<sessions, sharerVars, closed, viewerConn, joined, spoke, send, due,
                   writer, wire>>

-----------------------------------------------------------------------------

ServeSharer(s) == runSharerEnd(s) \/ runSharerFree(s)
ServeViewer(v) ==
    handleWatchJoin(v) \/ handleWatchAck(v) \/ runViewerEnd(v)
ServeWriter(v) ==
    \/ viewerWriterWrite(v) \/ viewerWriterError(v)
    \/ viewerWriterDrain(v) \/ viewerWriterDone(v)

Next ==
    \/ \E s \in Sharer : \/ handleShare(s) \/ runSharerBroadcast(s) \/ SharerLost(s)
                         \/ ServeSharer(s)
    \/ \E s \in Sharer, v \in Viewer : runSharerUnicast(s, v)
    \/ \E v \in Viewer : \/ handleWatchLookup(v) \/ runViewerSPAKE2(v) \/ ViewerLost(v)
                         \/ ServeViewer(v) \/ ServeWriter(v)

Spec == NewServer /\ [][Next]_vars

\* The Go scheduler runs every goroutine that can run; peers may stop sending
\* and may stay connected for ever.
Fairness ==
    /\ \A s \in Sharer : WF_vars(ServeSharer(s))
    /\ \A v \in Viewer : WF_vars(ServeViewer(v)) /\ WF_vars(ServeWriter(v))

FairSpec == Spec /\ Fairness

-----------------------------------------------------------------------------

\* Every variable has its type.
TypeOK ==
    /\ sessions \in [SessionID -> Sharer \cup {None}]
    /\ sharerPC \in [Sharer -> {"dial", "run", "free", "done"}]
    /\ sharerConn \in [Sharer -> BOOLEAN]
    /\ closed \in [Sharer -> BOOLEAN]
    /\ viewers \in [Sharer -> SUBSET Viewer]
    /\ sent \in [Sharer -> Nat]
    /\ toSharer \in [Sharer -> Seq(Notice)]
    /\ viewerPC \in [Viewer -> {"dial", "found", "ack", "run", "done"}]
    /\ viewerConn \in [Viewer -> BOOLEAN]
    /\ joined \in [Viewer -> Sharer \cup {None}]
    /\ send \in [Viewer -> Seq(Message)]
    /\ sendOpen \in [Viewer -> BOOLEAN]
    /\ writer \in [Viewer -> {"none", "run", "drain", "done"}]
    /\ wire \in [Viewer -> Seq(Message \cup Control)]
    /\ due \in [Viewer -> Seq(Message)]
    /\ spoke \in [Viewer -> Nat]

\* A viewer in session.viewers has an open channel, so no broadcast, unicast,
\* teardown or departure ever sends on, or closes, a closed channel (either
\* would crash the relay with every session on it).
ChannelOpenWhileListed ==
    \A s \in Sharer : \A v \in viewers[s] : sendOpen[v] /\ joined[v] = s

\* A viewer whose look-up raced the teardown is never added to the dead
\* session, where nobody would ever tell it that the session is over.
ClosedSessionStaysEmpty == \A s \in Sharer : closed[s] => viewers[s] = {}

\* A running session owns its ID: no other registration replaces it and no
\* other session's teardown frees it.
RunningSessionIsRegistered ==
    \A s \in Sharer : sharerPC[s] \in {"run", "free"} => sessions[IDOf[s]] = s

\* Every viewer that was in the session when the sharer went away and is
\* still connected has been told.
EveryoneToldOfTheEnd ==
    \A v \in Viewer :
        viewerPC[v] \in {"ack", "run"} /\ viewerConn[v] /\ closed[joined[v]] =>
            \E i \in DOMAIN wire[v] : wire[v][i].kind = "session-ended"

\* The relay keeps the promises of Broker: messages are forwarded in the order
\* received and after the join-ack, none twice; those to all may be dropped
\* when a channel is full, a unicast never; members are told of the end, and
\* only a viewer that was added to a session is sent a join-ack.
Promise == INSTANCE Broker WITH
              members <- viewers, over <- closed, connected <- viewerConn, got <- wire
ImplementsBroker == Promise!Spec

\* When the sharer is gone the session ID becomes free.
SessionIDFreed ==
    \A s \in Sharer :
        (sharerPC[s] = "run" /\ ~sharerConn[s]) ~> (sessions[IDOf[s]] # s)

\* A viewer handler that has returned leaves no writer goroutine behind.
NoWriterLeaks ==
    \A v \in Viewer : (viewerPC[v] = "done") ~> (writer[v] \in {"none", "done"})

\* The sharer of a running session hears of every viewer that left, also of
\* one the relay disconnected itself: handleViewerDisconnect of the sharer
\* relies on it.  specs/relay/relay-protocol.spec.md:128 says the opposite ("the
\* relay sends no notification to the Sharer"); runViewer sends one.
DepartureReported ==
    \A s \in Sharer, v \in Viewer :
        (joined[v] = s /\ viewerPC[v] = "run" /\ ~viewerConn[v]) ~>
            \/ ~sharerConn[s]
            \/ \E i \in DOMAIN toSharer[s] :
                 toSharer[s][i] = [kind |-> "viewer-disconnected", viewer |-> v]

=============================================================================
