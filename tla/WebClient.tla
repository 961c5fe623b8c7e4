----------------------------- MODULE WebClient -----------------------------
(***************************************************************************)
(* web/src/client.ts and main.ts: one attempt of a browser to watch a      *)
(* session, from the click on "Watch" to the overlay that ends it.         *)
(*                                                                         *)
(* JavaScript runs one task at a time; a task includes the continuations   *)
(* of the promises it resolves.  An action is such a task: a WebSocket     *)
(* event, a timer, or the completion of WebCrypto calls.  What happens     *)
(* between an await of WebCrypto and its continuation is up to the others, *)
(* and calls complete in any order: a handler that awaits is an element of *)
(* tasks, with the key bytes it has passed on (crypto.ts copies them).     *)
(*                                                                         *)
(* The sharer and the relay appear as the client sees them: messages in    *)
(* the order of Relay, keys and nonces in the order of Session.  Stream    *)
(* keys are numbers in the order they are drawn, 0 is none or zeroed; a    *)
(* terminal size is the number of the SetTermSize that made it, from 1.    *)
(* Which keys and sizes the sharer sends, and when, is in Sharing; here it *)
(* may send those it has sealed in any order, or never.  authKey is set    *)
(* and zeroed with streamKey and is left out, and so are heartbeats.       *)
(* A definition XBug is a plausible mistake, used only to see that the     *)
(* properties below notice it.                                             *)
(***************************************************************************)
EXTENDS Naturals, Sequences, Bags, FiniteSetsExt

CONSTANTS
    Threshold,      \* VIEWER_REVOCATION_FAILURE_THRESHOLD
    MaxNonce,       \* bound: frames sealed by the sharer
    MaxSize,        \* bound: sizes of the sharer's terminal
    MaxKey,         \* bound: stream keys
    MaxEpoch,       \* bound: epochs
    MaxReplay       \* bound: frames the relay repeats

ASSUME ThresholdAssumption == Threshold \in Nat \ {0}
ASSUME BoundAssumption == /\ MaxNonce \in Nat /\ MaxSize \in Nat /\ MaxReplay \in Nat
                          /\ MaxKey \in Nat \ {0} /\ MaxEpoch \in Nat \ {0}

VARIABLES
    state,      \* LockwireClient.state
    overlay,    \* main.ts: the overlay is visible
    canRetry,   \* main.ts: the "Watch" button is enabled
    ws,         \* WebSocket.readyState
    pc,         \* where runHandshake awaits
    streamKey, lastNonce, failures,
    epoch,      \* currentEpoch, 0 before the first frame
    graceOver,  \* EPOCH_GRACE_PERIOD_MS since epochTransitionTime are over
    tasks,      \* the bag of handlers waiting for WebCrypto
    size,       \* the size of the terminal, 0 at first
    newest,     \* history: the highest nonce of the output shown
    inbox,      \* messages on their way to the client
    spoken,     \* handshake messages sent by the client
    answered,   \* how many the relay and the sharer have answered
    ended,      \* the relay has sent session-ended
    revoked,    \* the sharer has revoked the client
    key, sealed, \* the sharer's stream key and nonce counter
    wrapped,    \* the key RegisterViewer has sealed for the client, 0 before
    due,        \* keys Revoke has sealed for the client and not sent
    sentKey,    \* history: the key the client was sent last, 0 for none
    nowEpoch,   \* the sharer's epoch
    resizes,    \* sizes the sharer's terminal has had
    held,       \* frames that are sealed and not sent yet
    sentSize,   \* history: the size sent last since the key delivery, 0 for none
    aired,      \* stream frames the relay may repeat
    replays,    \* frames the relay has repeated
    unseen      \* history: what the client cannot have noticed, or has not refused

screenVars == <<state, overlay, canRetry>>
epochVars  == <<epoch, graceOver>>
shownVars  == <<size, newest>>
streamVars == <<lastNonce, failures, shownVars>>
clientVars == <<screenVars, ws, pc, streamKey, streamVars, epochVars, tasks, spoken, unseen>>
keyVars    == <<revoked, key, wrapped, due, sentKey>>
frameVars  == <<sealed, nowEpoch, resizes, held, sentSize>>
replayVars == <<aired, replays>>
peerVars   == <<answered, ended, keyVars, frameVars, replayVars>>
vars == <<clientVars, inbox, peerVars>>

Frame   == [kind : {"stream"}, nonce : Nat, key : Nat, epoch : Nat]
Size    == [kind : {"size"}, nonce : Nat, key : Nat, epoch : Nat, size : Nat]
Rekey   == [kind : {"rekey"}, key : Nat]
Control == [kind : {"join-ack", "session-not-found", "session-full", "session-ended"}]
Unicast == [kind : {"handshake"}, looks : {"untyped", "skipped", "rejected"}, key : Nat]
Task    == [msg : Frame \cup Size \cup Rekey \cup Unicast, with : Nat]

Init ==
    /\ state = "pre-join" /\ overlay = FALSE /\ canRetry = TRUE
    /\ ws = "none" /\ pc = "none"
    /\ streamKey = 0 /\ lastNonce = 0 /\ failures = 0
    /\ epoch = 0 /\ graceOver = FALSE
    /\ tasks = EmptyBag /\ size = 0 /\ newest = 0
    /\ inbox = <<>> /\ spoken = 0 /\ answered = 0 /\ ended = FALSE
    /\ revoked = FALSE /\ key = 1 /\ wrapped = 0 /\ due = {} /\ sentKey = 0
    /\ sealed = 0 /\ nowEpoch = 1 /\ resizes = 0 /\ held = {} /\ sentSize = 0
    /\ aired = {} /\ replays = 0
    /\ unseen = {}

-----------------------------------------------------------------------------
\* The sharer and the relay.

Sends(m) == inbox' = Append(inbox, m)

\* answered counts the join-ack and the three answers of the handshake.
Refused == 5
Listed  == answered \in 1..4

\* handleWatch answers the connection.
RelayAnswers ==
    /\ answered = 0 /\ pc = "join"
    /\ \/ Sends([kind |-> "join-ack"]) /\ answered' = 1
       \/ /\ ~ended
          /\ \E c \in {"session-not-found", "session-full"} : Sends([kind |-> c])
          /\ answered' = Refused
    /\ UNCHANGED <<clientVars, ended, keyVars, frameVars, replayVars>>

\* handleSPAKE2 answers a handshake message with msg_a (a curve point, first
\* byte 4) or confirm_a (a MAC, any first byte, which may not verify).  Unicasts
\* have no type byte.
SharerAnswers ==
    /\ answered \in 1..spoken /\ answered < 3 /\ ~ended
    /\ answered' = answered + 1
    /\ \E l \in {"untyped"} \cup (IF answered = 2 THEN {"skipped", "rejected"} ELSE {}) :
          Sends([kind |-> "handshake", looks |-> l, key |-> 0])
    /\ UNCHANGED <<clientVars, ended, keyVars, frameVars, replayVars>>

\* After a confirm_b RegisterViewer seals the stream key of that moment ...
RegisterViewer ==
    /\ answered = 3 /\ spoken = 3 /\ wrapped = 0 /\ ~ended
    /\ wrapped' = key
    /\ UNCHANGED <<clientVars, inbox, answered, ended, revoked, key, due, sentKey, frameVars,
                   replayVars>>

\* ... and the key delivery (it begins with a viewer ID) is sent later.
SharerDelivers ==
    /\ answered = 3 /\ wrapped # 0 /\ ~ended
    /\ answered' = 4
    /\ Sends([kind |-> "handshake", looks |-> "untyped", key |-> wrapped])
    /\ sentKey' = wrapped
    /\ UNCHANGED <<clientVars, ended, revoked, key, wrapped, due, frameVars, replayVars>>

\* streamLoop, SetTermSize, and relayLoop after the delivery to any viewer: a
\* frame is sealed in one step and sent in another.  Broadcasts reach the
\* client as soon as the relay has it listed.
Held(kind) == {f \in held : f.kind = kind}

SharerStreams ==
    /\ Listed /\ ~ended /\ Held("stream") = {} /\ sealed < MaxNonce
    /\ sealed' = sealed + 1
    /\ held' = held \cup {[kind |-> "stream", nonce |-> sealed + 1, key |-> key,
                           epoch |-> nowEpoch]}
    /\ UNCHANGED <<clientVars, inbox, answered, ended, keyVars, nowEpoch, resizes, sentSize,
                   replayVars>>

\* SetTermSize seals the size it has just stored, relayLoop one that it has
\* read before; each has one frame to send at most.
SharerSealsSize(s) ==
    /\ Listed /\ ~ended /\ Cardinality(Held("size")) < 2 /\ sealed < MaxNonce
    /\ s <= MaxSize
    /\ resizes' = Max({resizes, s})
    /\ sealed' = sealed + 1
    /\ held' = held \cup {[kind |-> "size", nonce |-> sealed + 1, key |-> key,
                           epoch |-> nowEpoch, size |-> s]}
    /\ UNCHANGED <<clientVars, inbox, answered, ended, keyVars, nowEpoch, sentSize, replayVars>>

SharerSendsFrame(f) ==
    /\ ~ended
    /\ Sends(f)
    /\ held' = held \ {f}
    /\ sentSize' = IF f.kind = "size" /\ answered = 4 THEN f.size ELSE sentSize
    /\ aired' = IF replays < MaxReplay /\ f.kind = "stream" THEN aired \cup {f} ELSE {}
    /\ UNCHANGED <<clientVars, answered, ended, keyVars, sealed, nowEpoch, resizes, replays>>

\* Revoke of the client or of another viewer, one or several at a time.  The
\* key changes at once, and is sealed for those who are registered and stay.
SharerRevokes ==
    /\ Listed /\ ~ended /\ key < MaxKey
    /\ key' = key + 1
    /\ \/ /\ wrapped # 0 /\ ~revoked /\ revoked' = TRUE /\ UNCHANGED due
       \/ /\ due' = IF wrapped # 0 /\ ~revoked THEN due \cup {key + 1} ELSE due
          /\ UNCHANGED revoked
    /\ UNCHANGED <<clientVars, inbox, answered, ended, wrapped, sentKey, frameVars, replayVars>>

\* Revoke sends the key that it has sealed, in no order with other calls, or
\* passes over a viewer it does not find in viewerIDMap.
SharerSendsRekey(k) ==
    /\ ~ended
    /\ due' = due \ {k}
    /\ \/ answered = 4 /\ Sends([kind |-> "rekey", key |-> k]) /\ sentKey' = k
       \/ UNCHANGED <<inbox, sentKey>>
    /\ UNCHANGED <<clientVars, answered, ended, revoked, key, wrapped, frameVars, replayVars>>

\* CurrentEpoch of the session; before a frame is sealed, which one it is does
\* not matter.
EpochPasses ==
    /\ Listed /\ sealed > 0 /\ nowEpoch < MaxEpoch
    /\ nowEpoch' = nowEpoch + 1
    /\ UNCHANGED <<clientVars, inbox, answered, ended, keyVars, sealed, resizes, held, sentSize,
                   replayVars>>

\* The sharer is gone; its viewers are told, perhaps before the join-ack.
SharerEnds ==
    /\ ~ended /\ answered # Refused
    /\ ended' = TRUE
    /\ Sends([kind |-> "session-ended"])
    /\ UNCHANGED <<clientVars, answered, keyVars, frameVars, replayVars>>

\* The relay is not trusted and may send a frame again.
RelayReplays ==
    /\ replays < MaxReplay
    /\ replays' = replays + 1
    /\ \E f \in aired : Sends(f)
    /\ UNCHANGED <<clientVars, answered, ended, keyVars, frameVars, aired>>

\* What the peers do concerns the client as long as its socket is open.
Peers ==
    /\ ws = "open"
    /\ \/ RelayAnswers \/ SharerAnswers \/ RegisterViewer \/ SharerDelivers \/ SharerStreams
       \/ SharerRevokes \/ EpochPasses \/ SharerEnds
       \/ \E s \in 1..(resizes + 1) : SharerSealsSize(s)
       \/ \E f \in held : SharerSendsFrame(f)
       \/ \E k \in due : SharerSendsRekey(k)

-----------------------------------------------------------------------------
\* The client's connection.

\* setState, and what handleStateChange of main.ts makes of it.
setState(s) ==
    /\ state' = s
    /\ overlay' = (s \in {"ended", "lost", "revoked"} \/ (overlay /\ s # "active"))
    /\ canRetry' = (canRetry \/ s = "error")

\* disconnect: no message is dispatched once the socket is closing.
disconnect ==
    /\ ws' = IF ws = "open" THEN "closing" ELSE ws
    /\ streamKey' = 0

handleError == setState("error") /\ disconnect /\ pc' = "failed"

\* startSession and connect.
connect ==
    /\ state = "pre-join"
    /\ state' = "connecting" /\ canRetry' = FALSE
    /\ ws' = "connecting" /\ pc' = "dial"
    /\ UNCHANGED <<overlay, streamKey, streamVars, epochVars, tasks, spoken, unseen, inbox,
                   peerVars>>

onopen ==
    /\ ws = "connecting"
    /\ ws' = "open" /\ pc' = "join"
    /\ UNCHANGED <<screenVars, streamKey, streamVars, epochVars, tasks, spoken, unseen, inbox,
                   peerVars>>

\* The end of the connection: onerror if it failed, then onclose.
NoOncloseBug(failed) ==
    IF failed THEN setState("lost") ELSE UNCHANGED screenVars
onclose(failed) ==
    IF failed \/ state = "active" THEN setState("lost") ELSE UNCHANGED screenVars

ConnectionEnds(failed) ==
    /\ ws \in {"open", "closing"} \/ (ws = "connecting" /\ failed)
    /\ ws' = "closed"
    /\ inbox' = <<>>
    /\ onclose(failed)
    /\ unseen' = IF pc = "derive" THEN unseen \cup {"end"} ELSE unseen
    /\ UNCHANGED <<pc, streamKey, streamVars, epochVars, tasks, spoken, peerVars>>

-----------------------------------------------------------------------------
\* runHandshake.

\* The awaits that a timer of 15 s limits.
TimedOnlyJoinBug == {"join"}
Timed == {"join", "msgA", "confirmA", "delivery"}

Timeout ==
    /\ pc \in Timed
    /\ handleError
    /\ UNCHANGED <<streamVars, epochVars, tasks, spoken, unseen, inbox, peerVars>>

Takes == ws = "open" /\ inbox' = Tail(inbox)

Skips == UNCHANGED <<screenVars, ws, pc, streamKey, spoken>>

\* waitForJoinAck; only a join-ack or a refusal counts.
waitForJoinAck(m) ==
    /\ pc = "join" /\ Takes
    /\ \/ /\ m.kind = "join-ack"
          /\ pc' = "msgA" /\ spoken' = 1
          /\ UNCHANGED <<screenVars, ws, streamKey>>
       \/ /\ m.kind \in {"session-not-found", "session-full"}
          /\ handleError /\ UNCHANGED spoken
       \/ /\ m.kind \notin {"join-ack", "session-not-found", "session-full"}
          /\ Skips
    /\ UNCHANGED <<streamVars, epochVars, tasks, unseen, peerVars>>

\* What the first bytes of a message make of it.
Looks(m) ==
    IF m.kind = "handshake" THEN m.looks
    ELSE IF m.kind \in {"session-ended", "session-not-found"} THEN "rejected"
    ELSE IF m.kind = "rekey" THEN "untyped"
    ELSE "skipped"

NoSuchStepBug == [msgA |-> "confirmA", confirmA |-> "confirmB", delivery |-> "derive"]
NextStep == [msgA |-> "confirmA", confirmA |-> "delivery", delivery |-> "derive"]

\* A handler starts WebCrypto calls for m with the stream key it has now.
Awaits(m) == tasks' = tasks (+) SetToBag({[msg |-> m, with |-> streamKey]})

\* recvHandshakeMsg and what runHandshake does with its result up to the next
\* await: an answer, or for the key delivery the start of WebCrypto.
recvHandshakeMsg(m) ==
    /\ pc \in {"msgA", "confirmA", "delivery"} /\ Takes
    /\ \/ /\ Looks(m) = "untyped"
          /\ pc' = NextStep[pc]
          /\ \/ pc = "delivery" /\ Awaits(m) /\ UNCHANGED spoken
             \/ pc # "delivery" /\ spoken' = spoken + 1 /\ UNCHANGED tasks
          /\ UNCHANGED <<screenVars, ws, streamKey>>
       \/ /\ Looks(m) = "rejected"
          /\ handleError /\ UNCHANGED <<spoken, tasks>>
       \/ /\ Looks(m) = "skipped"
          /\ Skips /\ UNCHANGED tasks
    /\ UNCHANGED <<streamVars, epochVars, unseen, peerVars>>

\* While processKeyDelivery awaits, nobody listens: the last listener of
\* recvHandshakeMsg is gone and startStreamLoop has not set onmessage yet.
NobodyListens(m) ==
    /\ pc = "derive" /\ Takes
    /\ unseen' = unseen \cup {CASE m.kind = "session-ended" -> "end"
                                [] m.kind = "size" -> "size"
                                [] m.kind = "rekey" -> "key"
                                [] OTHER -> "output"}
    /\ UNCHANGED <<screenVars, ws, pc, streamKey, streamVars, epochVars, tasks, spoken,
                   peerVars>>

\* The end of processKeyDelivery, and startStreamLoop.
processKeyDelivery ==
    /\ pc = "derive"
    /\ \E t \in BagToSet(tasks) : streamKey' = t.msg.key
    /\ tasks' = EmptyBag
    /\ pc' = "stream"
    /\ setState("active")
    /\ UNCHANGED <<ws, streamVars, epochVars, spoken, unseen, inbox, peerVars>>

-----------------------------------------------------------------------------
\* The stream loop.  A handler runs to its first await at once ...

validateEpoch(e) == e >= epoch \/ (e = epoch - 1 /\ ~graceOver)

SeesEpoch(e) ==
    /\ epoch' = IF validateEpoch(e) /\ e > epoch THEN e ELSE epoch
    /\ graceOver' = (graceOver /\ epoch' = epoch)

InFlight(kind) == \E t \in BagToSet(tasks) : t.msg.kind = kind

handleStreamFrame(m) ==
    /\ m.kind = "stream"
    /\ SeesEpoch(m.epoch)
    /\ \/ validateEpoch(m.epoch) /\ m.nonce > lastNonce /\ Awaits(m)
       \/ ~(validateEpoch(m.epoch) /\ m.nonce > lastNonce) /\ UNCHANGED tasks
    /\ unseen' = IF lastNonce < m.nonce /\ m.nonce <= newest THEN unseen \cup {"replay"}
                                                           ELSE unseen
    /\ UNCHANGED <<screenVars, ws, streamKey>>

\* Size frames are taken in any order of their nonces.
SizeIsFreshBug(m) == m.nonce > lastNonce
SizeIsFresh(m) == TRUE

handleTermSizeFrame(m) ==
    /\ m.kind = "size"
    /\ SeesEpoch(m.epoch)
    /\ \/ validateEpoch(m.epoch) /\ SizeIsFresh(m) /\ Awaits(m)
       \/ ~(validateEpoch(m.epoch) /\ SizeIsFresh(m)) /\ UNCHANGED tasks
    /\ unseen' = IF ~validateEpoch(m.epoch) \/ m.key # streamKey \/ InFlight("size")
                 THEN unseen \cup {"size"} ELSE unseen
    /\ UNCHANGED <<screenVars, ws, streamKey>>

handlePossibleRekey(m) ==
    /\ m.kind = "rekey"
    /\ Awaits(m)
    /\ unseen' = IF InFlight("rekey") THEN unseen \cup {"key"} ELSE unseen
    /\ UNCHANGED <<screenVars, ws, streamKey, epochVars>>

handleEnded(m) ==
    /\ m.kind = "session-ended"
    /\ setState("ended") /\ disconnect
    /\ UNCHANGED <<epochVars, tasks, unseen>>

onmessage(m) ==
    /\ pc = "stream" /\ Takes
    /\ \/ handleStreamFrame(m) \/ handleTermSizeFrame(m) \/ handlePossibleRekey(m)
       \/ handleEnded(m)
    /\ UNCHANGED <<pc, streamVars, spoken, peerVars>>

\* ... and goes on when WebCrypto is done, whatever has happened meanwhile.
Done(t) == tasks' = tasks (-) SetToBag({t})
Opens(t) == t.with = t.msg.key

StreamFrameDecrypted(t) ==
    /\ t.msg.kind = "stream" /\ Done(t)
    /\ Opens(t)
    /\ lastNonce' = t.msg.nonce
    /\ failures' = 0
    /\ newest' = Max({newest, t.msg.nonce})
    /\ UNCHANGED <<screenVars, ws, streamKey, size>>

StreamFrameFailed(t) ==
    /\ t.msg.kind = "stream" /\ Done(t)
    /\ ~Opens(t)
    /\ failures' = failures + 1
    /\ \/ failures' >= Threshold /\ setState("revoked") /\ disconnect
       \/ failures' < Threshold /\ UNCHANGED <<screenVars, ws, streamKey>>
    /\ UNCHANGED <<lastNonce, shownVars>>

TermSizeDecrypted(t) ==
    /\ t.msg.kind = "size" /\ Done(t)
    /\ size' = IF Opens(t) THEN t.msg.size ELSE size
    /\ UNCHANGED <<screenVars, ws, streamKey, lastNonce, failures, newest>>

\* The old key is zeroed, then replaced.
Rekeyed(t) ==
    /\ t.msg.kind = "rekey" /\ Done(t)
    /\ streamKey' = t.msg.key
    /\ failures' = 0
    /\ UNCHANGED <<screenVars, ws, lastNonce, shownVars>>

WebCrypto ==
    /\ pc = "stream"
    /\ \E t \in BagToSet(tasks) :
          \/ StreamFrameDecrypted(t) \/ StreamFrameFailed(t) \/ TermSizeDecrypted(t)
          \/ Rekeyed(t)
    /\ UNCHANGED <<pc, epochVars, spoken, unseen, inbox, peerVars>>

GraceEnds ==
    /\ ws = "open" /\ epoch > 0 /\ ~graceOver
    /\ graceOver' = TRUE
    /\ UNCHANGED <<screenVars, ws, pc, streamKey, streamVars, epoch, tasks, spoken, unseen,
                   inbox, peerVars>>

-----------------------------------------------------------------------------

Dispatch ==
    /\ inbox # <<>>
    /\ LET m == Head(inbox)
       IN  waitForJoinAck(m) \/ recvHandshakeMsg(m) \/ NobodyListens(m) \/ onmessage(m)

Opening == onopen \/ (ws = "connecting" /\ ConnectionEnds(TRUE))

Next ==
    \/ connect \/ onopen \/ Timeout \/ Dispatch \/ processKeyDelivery \/ WebCrypto \/ GraceEnds
    \/ \E failed \in BOOLEAN : ConnectionEnds(failed)
    \/ Peers

Spec == Init /\ [][Next]_vars

\* With a relay that repeats frames.
ReplaySpec == Init /\ [][Next \/ (ws = "open" /\ RelayReplays)]_vars

\* The browser's event loop: every event and timer is served, every WebCrypto
\* call completes, and a connection attempt has a result.  The peers need not
\* do anything.
Fairness ==
    /\ WF_vars(Opening) /\ WF_vars(Timeout) /\ WF_vars(Dispatch)
    /\ WF_vars(processKeyDelivery) /\ WF_vars(WebCrypto)

FairSpec == Spec /\ Fairness

-----------------------------------------------------------------------------

\* Every variable has its type.
TypeOK ==
    /\ state \in {"pre-join", "connecting", "active", "ended", "lost", "revoked", "error"}
    /\ overlay \in BOOLEAN /\ canRetry \in BOOLEAN
    /\ ws \in {"none", "connecting", "open", "closing", "closed"}
    /\ pc \in {"none", "dial", "derive", "stream", "failed"} \cup
              {"join", "msgA", "confirmA", "delivery"}
    /\ streamKey \in Nat /\ lastNonce \in Nat /\ failures \in Nat
    /\ epoch \in Nat /\ graceOver \in BOOLEAN
    /\ BagToSet(tasks) \in SUBSET Task
    /\ size \in Nat
    /\ newest \in Nat
    /\ inbox \in Seq(Frame \cup Size \cup Rekey \cup Control \cup Unicast)
    /\ spoken \in Nat /\ answered \in Nat /\ ended \in BOOLEAN
    /\ revoked \in BOOLEAN /\ key \in Nat /\ wrapped \in 0..key /\ due \in SUBSET (1..key)
    /\ sentKey \in 0..key
    /\ sealed \in Nat /\ nowEpoch \in Nat /\ resizes \in Nat /\ sentSize \in Nat
    /\ held \in SUBSET (Frame \cup Size)
    /\ aired \in SUBSET Frame /\ replays \in Nat
    /\ unseen \in SUBSET {"end", "size", "key", "output", "replay"}

\* "Connecting" always comes to an end: whichever message of the handshake is
\* lost, ignored or misread, one of the timers of 15 s ends the attempt.
ConnectingEnds == (state = "connecting") ~> (state # "connecting")

\* A user whose session is over, or whose connection is gone, sees an overlay
\* or can try again, for good - unless the news arrived while the client
\* derived its key and nobody listened.
EndIsShown ==
    (ended \/ ws = "closed") ~> [](overlay \/ canRetry \/ "end" \in unseen)

\* When the client has worked off what it was sent, it has the key it was sent
\* last, and the size it was sent last since its key delivery, unless a message
\* came while nobody listened, two handlers of the same kind overlapped, or the
\* size frame came under a key the client did not have then, or too late for
\* its epoch.  (This is about client.ts.  Whether what the sharer sends last is
\* its latest key and size is in Sharing, with the cases where it is not.)
Quiet == state = "active" /\ ws = "open" /\ ~ended /\ inbox = <<>> /\ tasks = EmptyBag
CaughtUp ==
    Quiet => /\ streamKey = sentKey \/ "key" \in unseen
             /\ size = sentSize \/ sentSize = 0 \/ "size" \in unseen

\* A frame that is not newer than what was decrypted before it arrived is
\* refused.
ReplaysRefused == "replay" \notin unseen

=============================================================================
