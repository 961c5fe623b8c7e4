-------------------------------- MODULE Join --------------------------------
(***************************************************************************)
(* One `lw join`: runJoin (cmd/lw/join.go), the loops of Viewer.Run        *)
(* (internal/viewer) and the connection they read (relayclient.go), from   *)
(* the command line to the message it exits with.                          *)
(*                                                                         *)
(* The viewer has one goroutine, which blocks in Recv or Send; Ctrl-C, a   *)
(* signal and the 15 s of the handshake reach it through the contexts it   *)
(* passes there.  The sharer and the relay appear as the viewer sees them: *)
(* messages in the order of Relay, keys and nonces in the order of Session.*)
(* Stream keys are numbers in the order they are drawn, 0 is none.  Epochs *)
(* are in Sharing; here a frame is of an expired epoch or not.             *)
(* A definition XBug is a plausible mistake, used only to see that the     *)
(* properties below notice it.                                             *)
(***************************************************************************)
EXTENDS Naturals, Sequences, FiniteSetsExt

CONSTANTS
    Threshold,      \* ViewerRevocationFailureThreshold
    MaxNonce,       \* bound: frames sealed by the sharer
    MaxKey          \* bound: stream keys

ASSUME JoinAssumption == /\ Threshold \in Nat \ {0} /\ MaxNonce \in Nat
                         /\ MaxKey \in Nat \ {0}

VARIABLES
    pc,         \* where runJoin and Run are
    result,     \* what they return, "none" before
    cancelled,  \* the ctx of runJoin
    late,       \* the 15 s of handshake are over
    conn,       \* the connection to the relay
    streamKey, lastNonce, failures,
    spoken,     \* handshake messages sent
    inbox,      \* messages on their way to the viewer
    answered,   \* the join-ack and answers of the handshake sent to it
    ended,      \* the relay has sent session-ended
    lost,       \* history: the sharer was killed or its connection dropped
    revoked,    \* the sharer has revoked the viewer
    key, sealed, \* the sharer's stream key and nonce counter
    wrapped,    \* the key RegisterViewer has sealed for the viewer, 0 before
    due,        \* keys Revoke has sealed for the viewer and not sent
    held,       \* frames that are sealed and not sent yet
    sentKey,    \* the key the viewer was sent last, 0 for none
    sentNonce,  \* history: the highest nonce of a frame sent
    unlucky,    \* history: stream frames sent before their key or after a later one
    confirmA,   \* what the first bytes of the sharer's confirm_a look like
    genuine     \* the sharer has the code

viewVars   == <<streamKey, lastNonce, failures>>
keyVars    == <<key, wrapped, due, sentKey>>
sharerVars == <<answered, ended, lost, revoked, keyVars, sealed, held, sentNonce, unlucky>>
peerVars   == <<sharerVars, confirmA, genuine>>
vars == <<pc, result, cancelled, late, conn, viewVars, spoken, inbox, peerVars>>

Handshake == {"join", "msgA", "confirmA", "delivery"}

Frame   == [kind : {"stream", "size"}, nonce : Nat, key : Nat, expired : BOOLEAN]
Message == Frame \cup [kind : {"handshake", "delivery", "rekey"}, key : Nat] \cup
           [kind : {"join-ack", "session-not-found", "session-full", "session-ended"}]

Init ==
    /\ pc = "start" /\ result = "none" /\ cancelled = FALSE /\ late = FALSE /\ conn = "none"
    /\ streamKey = 0 /\ lastNonce = 0 /\ failures = 0
    /\ spoken = 0 /\ inbox = <<>>
    /\ answered = 0 /\ ended = FALSE /\ lost = FALSE /\ revoked = FALSE
    /\ key = 1 /\ wrapped = 0 /\ due = {} /\ sentKey = 0
    /\ sealed = 0 /\ held = {} /\ sentNonce = 0 /\ unlucky = 0
    /\ confirmA \in {"untyped", "skipped", "session-ended", "session-not-found"}
    /\ genuine \in BOOLEAN

-----------------------------------------------------------------------------
\* The relay and the sharer.

Sends(m) == inbox' = Append(inbox, m)

Refused == 5
Listed  == answered \in 1..4

\* handleWatch answers; the session may end before it writes the join-ack.
RelayAnswers ==
    /\ answered = 0
    /\ \/ Sends([kind |-> "join-ack"]) /\ answered' = 1
       \/ /\ ~ended
          /\ \E c \in {"session-not-found", "session-full"} : Sends([kind |-> c])
          /\ answered' = Refused
    /\ UNCHANGED <<ended, lost, revoked, keyVars, sealed, held, sentNonce, unlucky>>

\* handleSPAKE2: msg_a and confirm_a; after a confirm_b RegisterViewer seals
\* the stream key of that moment ...
SharerAnswers ==
    /\ answered \in 1..spoken /\ answered < 3 /\ ~ended
    /\ answered' = answered + 1
    /\ Sends([kind |-> "handshake", key |-> 0])
    /\ UNCHANGED <<ended, lost, revoked, keyVars, sealed, held, sentNonce, unlucky>>

RegisterViewer ==
    /\ answered = 3 /\ spoken = 3 /\ wrapped = 0 /\ ~ended
    /\ wrapped' = key
    /\ UNCHANGED <<inbox, answered, ended, lost, revoked, key, due, sentKey, sealed, held,
                   sentNonce, unlucky>>

\* ... which is sent later, whatever Revoke has made of it.
SharerDelivers ==
    /\ answered = 3 /\ wrapped # 0 /\ ~ended
    /\ answered' = 4
    /\ Sends([kind |-> "delivery", key |-> wrapped])
    /\ sentKey' = wrapped
    /\ UNCHANGED <<ended, lost, revoked, key, wrapped, due, sealed, held, sentNonce, unlucky>>

\* EncryptFrame for the output or for a size ...
SharerSeals(kind) ==
    /\ Listed /\ ~ended /\ sealed < MaxNonce
    /\ \A f \in held : f.kind # kind
    /\ sealed' = sealed + 1
    /\ held' = held \cup {[kind |-> kind, nonce |-> sealed + 1, key |-> key,
                           expired |-> FALSE]}
    /\ UNCHANGED <<inbox, answered, ended, lost, revoked, keyVars, sentNonce, unlucky>>

\* ... and the Send of its goroutine, which may come late: after a frame sealed
\* later, after a change of the key, or after the grace period of the epoch.
SharerSendsFrame(f) ==
    /\ ~ended
    /\ held' = held \ {f}
    /\ \E e \in IF f.nonce < sealed THEN BOOLEAN ELSE {FALSE} :
          Sends([f EXCEPT !.expired = e])
    /\ sentNonce' = Max({sentNonce, f.nonce})
    /\ unlucky' = IF f.kind = "stream" /\ (f.nonce < sentNonce \/ f.key # sentKey)
                  THEN unlucky + 1 ELSE unlucky
    /\ UNCHANGED <<answered, ended, lost, revoked, keyVars, sealed>>

\* Revoke of this viewer or of another, one or several at a time.  The key
\* changes at once, and is sealed for the viewers that are registered and stay.
SharerRevokes ==
    /\ Listed /\ ~ended /\ key < MaxKey
    /\ key' = key + 1
    /\ \/ /\ wrapped # 0 /\ ~revoked /\ revoked' = TRUE /\ UNCHANGED due
       \/ /\ due' = IF wrapped # 0 /\ ~revoked THEN due \cup {key + 1} ELSE due
          /\ UNCHANGED revoked
    /\ UNCHANGED <<inbox, answered, ended, lost, wrapped, sentKey, sealed, held, sentNonce,
                   unlucky>>

\* Revoke sends the key that it has sealed, in no order with other calls, or
\* passes over a viewer it does not find in viewerIDMap (when, is in Sharing).
SharerSendsRekey(k) ==
    /\ ~ended
    /\ due' = due \ {k}
    /\ \/ answered = 4 /\ Sends([kind |-> "rekey", key |-> k]) /\ sentKey' = k
       \/ UNCHANGED <<inbox, sentKey>>
    /\ UNCHANGED <<answered, ended, lost, revoked, key, wrapped, sealed, held, sentNonce, unlucky>>

\* The sharer has ended the session, or was killed or lost its connection; the
\* relay tells the viewers it has listed the same.
SharerEnds ==
    /\ ~ended /\ answered # Refused
    /\ ended' = TRUE /\ lost' \in BOOLEAN
    /\ Sends([kind |-> "session-ended"])
    /\ UNCHANGED <<answered, revoked, keyVars, sealed, held, sentNonce, unlucky>>

\* What the peers do concerns the viewer until Run returns.
Peers ==
    /\ conn = "up" /\ result = "none"
    /\ \/ RelayAnswers \/ SharerAnswers \/ RegisterViewer \/ SharerDelivers
       \/ SharerRevokes \/ SharerEnds
       \/ \E k \in due : SharerSendsRekey(k)
       \/ \E kind \in {"stream", "size"} : SharerSeals(kind)
       \/ \E f \in held : SharerSendsFrame(f)
    /\ UNCHANGED <<pc, result, cancelled, late, conn, viewVars, spoken, confirmA, genuine>>

\* The connection breaks: what is under way may or may not still arrive.
ConnectionLost ==
    /\ conn = "up" /\ result = "none"
    /\ conn' = "down"
    /\ \E n \in 0..Len(inbox) : inbox' = SubSeq(inbox, 1, n)
    /\ UNCHANGED <<pc, result, cancelled, late, viewVars, spoken, peerVars>>

-----------------------------------------------------------------------------
\* runJoin.

Returns(r) == pc' = "report" /\ result' = r

\* The checks of the relay URL and of the code, dialRelay (5 s), setRawMode;
\* each may fail.
Steps ==
    [start |-> [fails |-> "invalid code", next |-> "dial"],
     dial  |-> [fails |-> "could not reach relay", next |-> "raw"],
     raw   |-> [fails |-> "setting raw mode", next |-> "join"]]

StartUp ==
    /\ pc \in DOMAIN Steps
    /\ \/ Returns(Steps[pc].fails) /\ UNCHANGED conn
       \/ /\ pc' = Steps[pc].next /\ UNCHANGED result
          /\ conn' = IF pc = "dial" THEN "up" ELSE conn
    /\ UNCHANGED <<cancelled, late, viewVars, spoken, inbox, peerVars>>

\* Ctrl-C read from the terminal, SIGINT or SIGTERM.  Nobody has asked for
\* the signals before the connection stands: they end the process.
Interrupt ==
    /\ pc \notin {"report", "exited"}
    /\ \/ /\ pc \in {"start", "dial"}
          /\ pc' = "exited" /\ result' = "killed" /\ UNCHANGED cancelled
       \/ /\ pc \notin {"start", "dial"} /\ ~cancelled
          /\ cancelled' = TRUE /\ UNCHANGED <<pc, result>>
    /\ UNCHANGED <<late, conn, viewVars, spoken, inbox, peerVars>>

\* hsCtx expires.
HandshakeDeadline ==
    /\ pc \in Handshake /\ ~late
    /\ late' = TRUE
    /\ UNCHANGED <<pc, result, cancelled, conn, viewVars, spoken, inbox, peerVars>>

\* The context that the Recv or Send at pc has is done.
NotJoinBug == cancelled \/ (late /\ pc \in Handshake \ {"join"})
JoinOnlyBug == cancelled \/ (late /\ pc = "join")
CtxDone == cancelled \/ (late /\ pc \in Handshake)

\* What Run returns when Recv fails.
NoCtxCheckBug ==
    IF pc = "stream" THEN "connection lost" ELSE IF CtxDone THEN "timeout" ELSE "failed"
RecvError ==
    CASE CtxDone /\ pc = "stream"  -> "quit"
      [] CtxDone /\ pc # "stream"  -> "timeout"
      [] ~CtxDone /\ pc = "stream" -> "connection lost"
      [] OTHER                     -> "failed"

\* Recv fails when its context is done (or returns a message that is there),
\* and when the connection is down and all messages are read.
RecvFails ==
    /\ pc \in Handshake \cup {"stream"}
    /\ CtxDone \/ (conn = "down" /\ inbox = <<>>)
    /\ Returns(RecvError)
    /\ UNCHANGED <<cancelled, late, conn, viewVars, spoken, inbox, peerVars>>

\* relay.Close and the other deferred calls.
Report ==
    /\ pc = "report"
    /\ pc' = "exited"
    /\ conn' = IF conn = "up" THEN "closed" ELSE conn
    /\ inbox' = <<>>
    /\ UNCHANGED <<result, cancelled, late, viewVars, spoken, peerVars>>

-----------------------------------------------------------------------------
\* Viewer.handshake.

\* A Send fails if the connection is down or its context done, or is lost.
Speaks(next) ==
    \/ pc' = next /\ spoken' = spoken + 1 /\ UNCHANGED result
    \/ (conn = "down" \/ CtxDone) /\ Returns("failed") /\ UNCHANGED spoken

Continues == UNCHANGED <<pc, result, spoken>>

waitForJoinAck(m) ==
    /\ pc = "join"
    /\ \/ m.kind = "join-ack" /\ Speaks("msgA")
       \/ /\ m.kind \in {"session-not-found", "session-full"}
          /\ Returns(m.kind) /\ UNCHANGED spoken
       \/ /\ m.kind \notin {"join-ack", "session-not-found", "session-full"}
          /\ Continues
    /\ UNCHANGED viewVars

\* The first bytes of a message in recvHandshakeMsg.  A unicast has no type
\* byte; msg_a begins with 4 and a key delivery with a letter or digit, but
\* confirm_a is a MAC and may look like anything.
Looks(m) ==
    CASE m.kind = "handshake" /\ pc = "confirmA" -> confirmA
      [] m.kind \in {"handshake", "delivery"}    -> "untyped"
      [] m.kind = "session-ended"                -> "session-ended"
      [] OTHER                                   -> "skipped"

\* spake.Exchange and Confirm; a sharer without the code fails the second.
Verifies == pc # "confirmA" \/ genuine

NextStepBug == [msgA |-> "confirmA", confirmA |-> "confirmB"]
NextStep == [msgA |-> "confirmA", confirmA |-> "delivery"]

recvHandshakeMsg(m) ==
    /\ pc \in {"msgA", "confirmA", "delivery"}
    /\ \/ /\ Looks(m) = "untyped" /\ pc # "delivery" /\ Verifies
          /\ Speaks(NextStep[pc]) /\ UNCHANGED streamKey
       \/ /\ Looks(m) = "untyped" /\ pc # "delivery" /\ ~Verifies
          /\ Returns("failed") /\ UNCHANGED <<spoken, streamKey>>
       \/ /\ Looks(m) = "untyped" /\ pc = "delivery"
          /\ streamKey' = m.key
          /\ pc' = "stream" /\ UNCHANGED <<result, spoken>>
       \/ /\ Looks(m) \in {"session-ended", "session-not-found"}
          /\ Returns(Looks(m)) /\ UNCHANGED <<spoken, streamKey>>
       \/ Looks(m) = "skipped" /\ Continues /\ UNCHANGED streamKey
    /\ UNCHANGED <<lastNonce, failures>>

-----------------------------------------------------------------------------
\* Viewer.streamLoop.

Fresh(m) == m.nonce > lastNonce
Opens(m) == m.key = streamKey

\* Enough failures in a row to give up.
TooMany(n) == n >= Threshold

\* decryptAndWrite: lastNonce is set before the frame is opened.
StreamFrame(m) ==
    /\ m.kind = "stream"
    /\ \/ m.expired /\ UNCHANGED <<pc, result, viewVars>>
       \/ /\ ~m.expired
          /\ lastNonce' = Max({lastNonce, m.nonce})
          /\ failures' = IF Fresh(m) /\ Opens(m) THEN 0 ELSE failures + 1
          /\ IF TooMany(failures') THEN Returns("access revoked") ELSE UNCHANGED <<pc, result>>
          /\ UNCHANGED streamKey

\* decryptAndApplySize; the resize handler of runJoin sleeps before it returns.
SizeFrame(m) ==
    /\ m.kind = "size"
    /\ \/ /\ ~m.expired /\ Fresh(m) /\ Opens(m)
          /\ lastNonce' = m.nonce /\ pc' = "resize"
       \/ /\ m.expired \/ ~Fresh(m) \/ ~Opens(m)
          /\ UNCHANGED <<pc, lastNonce>>
    /\ UNCHANGED <<result, streamKey, failures>>

ResizeHandled ==
    /\ pc = "resize"
    /\ pc' = "stream"
    /\ UNCHANGED <<result, cancelled, late, conn, viewVars, spoken, inbox, peerVars>>

processRekey(m) ==
    /\ m.kind = "rekey"
    /\ streamKey' = m.key /\ failures' = 0
    /\ UNCHANGED <<pc, result, lastNonce>>

EndFrame(m) ==
    /\ m.kind = "session-ended"
    /\ Returns("session-ended") /\ UNCHANGED viewVars

streamLoop(m) ==
    /\ pc = "stream"
    /\ StreamFrame(m) \/ SizeFrame(m) \/ processRekey(m) \/ EndFrame(m)
    /\ UNCHANGED spoken

-----------------------------------------------------------------------------

Recv ==
    /\ conn \in {"up", "down"} /\ inbox # <<>>
    /\ LET m == Head(inbox) IN waitForJoinAck(m) \/ recvHandshakeMsg(m) \/ streamLoop(m)
    /\ inbox' = Tail(inbox)
    /\ UNCHANGED <<cancelled, late, conn, peerVars>>

Process == StartUp \/ Recv \/ RecvFails \/ ResizeHandled \/ Report

Next == Process \/ Interrupt \/ HandshakeDeadline \/ ConnectionLost \/ Peers

Spec == Init /\ [][Next]_vars

\* The viewer's goroutine runs and its timer fires.  The peers need not answer.
FairSpec == Spec /\ WF_vars(Process) /\ WF_vars(HandshakeDeadline)

-----------------------------------------------------------------------------

\* Every variable has its type.
TypeOK ==
    /\ pc \in {"start", "dial", "raw", "stream", "resize", "report", "exited"} \cup Handshake
    /\ result \in {"none", "invalid code", "could not reach relay", "setting raw mode", "killed",
                   "session-not-found", "session-full", "timeout", "failed", "quit",
                   "connection lost", "session-ended", "access revoked"}
    /\ cancelled \in BOOLEAN /\ late \in BOOLEAN
    /\ conn \in {"none", "up", "down", "closed"}
    /\ streamKey \in Nat /\ lastNonce \in Nat /\ failures \in 0..Threshold
    /\ spoken \in 0..3 /\ inbox \in Seq(Message)
    /\ answered \in 0..5 /\ ended \in BOOLEAN /\ lost \in BOOLEAN /\ revoked \in BOOLEAN
    /\ key \in Nat /\ wrapped \in 0..key /\ due \in SUBSET (1..key) /\ sentKey \in 0..key
    /\ sealed \in Nat /\ held \in SUBSET Frame /\ sentNonce \in 0..sealed /\ unlucky \in 0..sealed
    /\ confirmA \in {"untyped", "skipped", "session-ended", "session-not-found"}
    /\ genuine \in BOOLEAN

\* What runJoin says when it exits is true, with these exceptions: a time-out
\* can also be a Ctrl-C during the handshake; the end of the session or its
\* absence a confirm_a that looks like that message; "session ended by sharer"
\* a sharer that was killed or whose connection dropped, which the viewer cannot
\* tell apart (specs/cli/commands.spec.md:82-85 wants "session lost (connection
\* dropped)" there); and "access revoked" a viewer nobody revoked to whom
\* Threshold frames were sent before their key or out of order.
ReportIsTrue ==
    /\ result = "quit" => cancelled
    /\ result = "timeout" => late \/ cancelled
    /\ result = "connection lost" => conn = "down" /\ ~cancelled
    /\ result = "session-ended" => \/ ended /\ ~lost
                                   \/ ended /\ lost
                                   \/ confirmA = "session-ended"
    /\ result = "session-not-found" => answered = Refused \/ confirmA = "session-not-found"
    /\ result = "session-full" => answered = Refused
    /\ result = "access revoked" => revoked \/ unlucky >= Threshold
    /\ result = "failed" => ~genuine \/ conn # "up" \/ cancelled \/ late

\* The handshake ends, whichever message is lost, ignored or misread.
HandshakeEnds == pc \in Handshake ~> pc \notin Handshake

\* lw join exits once the user has asked for it, the session is over or the
\* connection is gone, also when session-ended was read before the join-ack
\* and ignored.
LeavesWhenOver == cancelled \/ ended \/ conn = "down" ~> pc = "exited"

=============================================================================
