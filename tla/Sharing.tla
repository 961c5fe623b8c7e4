------------------------------ MODULE Sharing ------------------------------
(***************************************************************************)
(* A shared terminal end to end: internal/sharer (its goroutines relayLoop,*)
(* streamLoop, the SIGWINCH handler that calls SetTermSize, and one        *)
(* control-socket goroutine per Revoke), the Session they share, the relay *)
(* as a FIFO, and the CLI viewers of internal/viewer.                      *)
(*                                                                         *)
(* The session's operations are the actions of module Session, taken       *)
(* together with the step of the goroutine that calls them.  Between two   *)
(* such calls, and between EncryptFrame and Send, the other goroutines run.*)
(*                                                                         *)
(* The relay promises what module Relay is checked for: per viewer,        *)
(* messages arrive in the order sent; a stream or size message may be      *)
(* dropped (Lossy), a unicast is not; a departure is reported to the       *)
(* sharer; the end of the session is reported to the viewers.  Viewers do  *)
(* not trust it with more: RelayReplays repeats old frames.                *)
(*                                                                         *)
(* A viewer connection is named by its relay ID.  It completes at most one *)
(* handshake, so the relay ID also names the auth key (RelayID below).     *)
(* It may know the code or not; if it does not, the SPAKE2 library refuses *)
(* confirm_a on the viewer's side and confirm_b on the sharer's.           *)
(***************************************************************************)
EXTENDS Session, Sequences, FiniteSets

CONSTANTS
    Revoker,            \* control-socket goroutines, one revoke command each
    None,               \* no entry in viewerIDMap
    MaxOutput,          \* bound: chunks of terminal output
    MaxSize,            \* bound: terminal sizes, numbered from 1; 0: the terminal
                        \* has no size, and what viewers ignore is not sent
    FailureThreshold,   \* protocol.ViewerRevocationFailureThreshold
    Lossy,              \* TRUE: the relay may drop stream and size messages
    ReplayRoom,         \* bound: the relay may replay a frame while fewer are queued
    MayEnd,             \* TRUE: the sharer's connection to the relay may end
    MayLeave            \* TRUE: viewers may leave of their own accord

RelayID == AuthKey

ASSUME SharingAssumption ==
    /\ Caller = {"stream", "relay", "resize"}
    /\ Plaintext = ({"out"} \X (1..MaxOutput)) \cup ({"size"} \X (1..MaxSize))
    /\ None \notin RelayID
    /\ MaxOutput \in Nat /\ MaxSize \in Nat
    /\ FailureThreshold \in Nat \ {0}
    /\ ReplayRoom \in Nat
    /\ Lossy \in BOOLEAN /\ MayEnd \in BOOLEAN /\ MayLeave \in BOOLEAN

VARIABLES
    handshakes,  \* Sharer.handshakes: relay ID -> state
    viewerIDMap, \* Sharer.viewerIDMap: session viewer ID -> relay ID
    termSize,    \* Sharer.termCols and termRows
    loop,        \* relayLoop: program counter and locals
    resize,      \* SetTermSize: program counter
    revoke,      \* Revoke, per goroutine: program counter and locals
    held,        \* caller -> the sealed frame it is about to Send
    output,      \* chunks of terminal output read so far
    viewerCount, \* statusBarSharerProbe.viewerCount
    relayUp,     \* the sharer's connection to the relay
    toSharer,    \* messages on their way to relayLoop
    conn,        \* viewer connections the relay holds
    queue,       \* messages on their way to each viewer
    view,        \* the viewers (internal/viewer)
    missed       \* history: viewers a Revoke passed over, or sent an older key
                 \* after the newest one

sharerVars == <<handshakes, viewerIDMap, termSize, loop, resize, revoke, held, output,
                viewerCount, missed>>
netVars == <<relayUp, toSharer, conn, queue>>
allVars == <<vars, sharerVars, netVars, view>>

NewView == [pc |-> "dial", knowsCode |-> FALSE, id |-> None, key |-> 0, lastNonce |-> 0,
            failures |-> 0, epochKnown |-> FALSE, epoch |-> 0, graceOver |-> FALSE,
            shown |-> <<>>, size |-> 0]

IdleLoop == [pc |-> "recv", viewer |-> None, id |-> None, wrap |-> None, size |-> 0]

IdleRevoke == [pc |-> "idle", id |-> None, rekeys |-> {}, rekey |-> None, to |-> None]

Init ==
    /\ NewSession
    /\ handshakes = [r \in RelayID |-> "none"]
    /\ viewerIDMap = [v \in ViewerID |-> None]
    /\ termSize = 0
    /\ loop = [IdleLoop EXCEPT !.pc = IF MaxSize = 0 THEN "recv" ELSE "start"]
    /\ resize = "idle"
    /\ revoke = [k \in Revoker |-> IdleRevoke]
    /\ held = [c \in Caller |-> Idle]
    /\ output = 0
    /\ viewerCount = 0
    /\ relayUp = TRUE
    /\ toSharer = <<>>
    /\ conn = [r \in RelayID |-> FALSE]
    /\ queue = [r \in RelayID |-> <<>>]
    /\ view = [r \in RelayID |-> NewView]
    /\ missed = {}

-----------------------------------------------------------------------------
\* The relay as the sharer and the viewers see it.

\* Messages of the sharer for one viewer and for all of them.  A viewer that
\* is not connected gets nothing; Send fails when the connection is down.
Unicast(r, m) ==
    /\ relayUp
    /\ queue' = IF conn[r] THEN [queue EXCEPT ![r] = Append(queue[r], m)] ELSE queue

Broadcast(m) ==
    /\ relayUp
    /\ \E lost \in SUBSET {r \in RelayID : conn[r]} :
         /\ lost # {} => Lossy
         /\ queue' = [r \in RelayID |-> IF conn[r] /\ r \notin lost
                                        THEN Append(queue[r], m) ELSE queue[r]]

\* The viewer of connection r says m to the sharer.
ToSharer(r, m) ==
    toSharer' = IF relayUp THEN Append(toSharer, [from |-> r, msg |-> m]) ELSE toSharer

\* The relay, which is not trusted, sends viewer r an old frame once more.
Message(f) == [kind |-> IF f.text[1] = "out" THEN "stream" ELSE "termsize", frame |-> f]
RelayReplays(r) ==
    /\ view[r].pc = "active" /\ conn[r]
    /\ Len(queue[r]) < ReplayRoom
    /\ \E f \in frames \ {held[c] : c \in Caller} :
         queue' = [queue EXCEPT ![r] = Append(queue[r], Message(f))]
    /\ UNCHANGED <<vars, sharerVars, relayUp, toSharer, conn, view>>

\* The connection of the sharer is lost or closed: the relay tells the
\* viewers.  Buffered handshake messages are not read any more.
RelayLost ==
    /\ MayEnd /\ relayUp
    /\ relayUp' = FALSE
    /\ toSharer' = <<>>
    /\ queue' = [r \in RelayID |-> IF conn[r] THEN Append(queue[r], [kind |-> "session-ended"])
                                              ELSE queue[r]]
    /\ UNCHANGED <<vars, sharerVars, conn, view>>

-----------------------------------------------------------------------------
\* runShare calls SetTermSize once, then Run, which starts the loops.
RunStart ==
    /\ loop.pc = "start"
    /\ termSize > 0 /\ resize = "idle"
    /\ loop' = IdleLoop
    /\ UNCHANGED <<vars, handshakes, viewerIDMap, termSize, resize, revoke, held, output,
                   viewerCount, missed, netVars, view>>

-----------------------------------------------------------------------------
\* streamLoop: read a chunk, EncryptFrame, Send.

streamLoopRead ==
    /\ loop.pc # "start"
    /\ output < MaxOutput
    /\ held["stream"] = Idle
    /\ EncryptFrameBegin("stream", <<"out", output + 1>>)
    /\ output' = output + 1
    /\ UNCHANGED <<handshakes, viewerIDMap, termSize, loop, resize, revoke, held, viewerCount,
                   missed, netVars, view>>

\* The end of EncryptFrame, for the three goroutines that call it.
EncryptFrameReturn(c) ==
    /\ EncryptFrameSeal(c)
    /\ held' = [held EXCEPT ![c] =
                  [text |-> pending[c].text, epoch |-> pending[c].epoch,
                   key |-> pending[c].key, nonce |-> nonce + 1]]
    /\ UNCHANGED <<handshakes, viewerIDMap, termSize, loop, resize, revoke, output, viewerCount,
                   missed, netVars, view>>

\* A failing Send ends the loop: the frame then stays in held for good.
streamLoopSend ==
    /\ held["stream"] # Idle
    /\ Broadcast(Message(held["stream"]))
    /\ held' = [held EXCEPT !["stream"] = Idle]
    /\ UNCHANGED <<vars, handshakes, viewerIDMap, termSize, loop, resize, revoke, output,
                   viewerCount, missed, relayUp, toSharer, conn, view>>

-----------------------------------------------------------------------------
\* SetTermSize: record the size, then broadcastTermSize.

SetTermSize ==
    /\ resize = "idle"
    /\ termSize < MaxSize
    /\ termSize' = termSize + 1
    /\ resize' = "encrypt"
    /\ UNCHANGED <<vars, handshakes, viewerIDMap, loop, revoke, held, output, viewerCount,
                   missed, netVars, view>>

SetTermSizeEncrypt ==
    /\ resize = "encrypt"
    /\ \/ EncryptFrameBegin("resize", <<"size", termSize>>) /\ resize' = "send"
       \/ closed /\ resize' = "idle" /\ UNCHANGED vars
    /\ UNCHANGED <<handshakes, viewerIDMap, termSize, loop, revoke, held, output, viewerCount,
                   missed, netVars, view>>

SetTermSizeSend ==
    /\ resize = "send"
    /\ held["resize"] # Idle
    /\ \/ Broadcast(Message(held["resize"]))
       \/ ~relayUp /\ UNCHANGED queue
    /\ held' = [held EXCEPT !["resize"] = Idle]
    /\ resize' = "idle"
    /\ UNCHANGED <<vars, handshakes, viewerIDMap, termSize, loop, revoke, output, viewerCount,
                   missed, relayUp, toSharer, conn, view>>

-----------------------------------------------------------------------------
\* relayLoop: one message of toSharer after the other.

Received(r, m) ==
    /\ loop.pc = "recv"
    /\ toSharer # <<>>
    /\ Head(toSharer) = [from |-> r, msg |-> m]
    /\ toSharer' = Tail(toSharer)

\* handleSPAKE2, first message of a connection: msg_a.
handleInit(r) ==
    /\ Received(r, "init")
    /\ handshakes[r] = "none"
    /\ Unicast(r, [kind |-> "msg_a"])
    /\ handshakes' = [handshakes EXCEPT ![r] = "waitMsgB"]
    /\ UNCHANGED <<vars, viewerIDMap, termSize, loop, resize, revoke, held, output, viewerCount,
                   missed, relayUp, conn, view>>

\* msg_b that spake.Finish accepts: confirm_a.
handleMsgB(r) ==
    /\ Received(r, "msg_b")
    /\ handshakes[r] = "waitMsgB"
    /\ Unicast(r, [kind |-> "confirm_a"])
    /\ handshakes' = [handshakes EXCEPT ![r] = "waitConfirmB"]
    /\ UNCHANGED <<vars, viewerIDMap, termSize, loop, resize, revoke, held, output, viewerCount,
                   missed, relayUp, conn, view>>

\* spake.Verify accepts confirm_b, and spake.Finish any msg_b before it.
VerifiesBug(r) == TRUE
Verifies(r) == view[r].knowsCode

\* A msg_b that spake.Finish refuses, or a confirm_b that spake.Verify does
\* (neither comes from a viewer with the right code): cleanupHandshake.
handleRefused(r) ==
    /\ \/ Received(r, "msg_b") /\ handshakes[r] = "waitMsgB"
       \/ Received(r, "confirm_b") /\ handshakes[r] = "waitConfirmB"
    /\ ~Verifies(r)
    /\ handshakes' = [handshakes EXCEPT ![r] = "none"]
    /\ UNCHANGED <<vars, viewerIDMap, termSize, loop, resize, revoke, held, output, viewerCount,
                   missed, relayUp, conn, queue, view>>

\* confirm_b: RegisterViewer ...
handleConfirmB(r, v) ==
    /\ Received(r, "confirm_b")
    /\ handshakes[r] = "waitConfirmB"
    /\ Verifies(r)
    /\ RegisterViewer(v, r)
    /\ loop' = [loop EXCEPT !.pc = "deliver", !.viewer = r, !.id = v,
                            !.wrap = [auth |-> r, key |-> streamKey, nonce |-> nonce + 1]]
    /\ UNCHANGED <<handshakes, viewerIDMap, termSize, resize, revoke, held, output, viewerCount,
                   missed, relayUp, conn, queue, view>>

\* ... then the key delivery (an error ends the handler here) ...
deliverKey ==
    /\ loop.pc = "deliver"
    /\ \/ /\ Unicast(loop.viewer, [kind |-> "key", id |-> loop.id, wrap |-> loop.wrap])
          /\ handshakes' = [handshakes EXCEPT ![loop.viewer] = "complete"]
          /\ loop' = [loop EXCEPT !.pc = "map", !.wrap = None]
       \/ /\ ~relayUp
          /\ loop' = IdleLoop
          /\ UNCHANGED <<queue, handshakes>>
    /\ UNCHANGED <<vars, viewerIDMap, termSize, resize, revoke, held, output, viewerCount,
                   missed, relayUp, toSharer, conn, view>>

\* ... then viewerIDMap ...
MapEntryBug == loop.id
MapEntry == loop.viewer
mapViewer ==
    /\ loop.pc = "map"
    /\ viewerIDMap' = [viewerIDMap EXCEPT ![loop.id] = MapEntry]
    /\ loop' = [loop EXCEPT !.pc = "joined"]
    /\ UNCHANGED <<vars, handshakes, termSize, resize, revoke, held, output, viewerCount,
                   missed, netVars, view>>

\* ... then the probe and the size to be sent to the new viewer ...
viewerJoined ==
    /\ loop.pc = "joined"
    /\ viewerCount' = viewerCount + 1
    /\ loop' = IF termSize > 0 THEN [IdleLoop EXCEPT !.pc = "encrypt", !.size = termSize]
                               ELSE IdleLoop
    /\ UNCHANGED <<vars, handshakes, viewerIDMap, termSize, resize, revoke, held, output,
                   missed, netVars, view>>

\* ... and broadcastTermSize, whose errors are ignored.
joinedSizeEncrypt ==
    /\ loop.pc = "encrypt"
    /\ EncryptFrameBegin("relay", <<"size", loop.size>>)
    /\ loop' = [loop EXCEPT !.pc = "send"]
    /\ UNCHANGED <<handshakes, viewerIDMap, termSize, resize, revoke, held, output, viewerCount,
                   missed, netVars, view>>

joinedSizeSend ==
    /\ loop.pc = "send"
    /\ held["relay"] # Idle
    /\ \/ Broadcast(Message(held["relay"]))
       \/ ~relayUp /\ UNCHANGED queue
    /\ held' = [held EXCEPT !["relay"] = Idle]
    /\ loop' = IdleLoop
    /\ UNCHANGED <<vars, handshakes, viewerIDMap, termSize, resize, revoke, output, viewerCount,
                   missed, relayUp, toSharer, conn, view>>

\* viewerIDMap without the ID of a viewer that left.
UnmappedBug(v) == viewerIDMap
Unmapped(v) == [viewerIDMap EXCEPT ![v] = None]

\* handleViewerDisconnect: the look-up in viewerIDMap under the sharer's lock,
\* then RemoveViewer and the probe.
handleViewerDisconnect(r) ==
    /\ Received(r, "left")
    /\ \/ /\ \A v \in ViewerID : viewerIDMap[v] # r
          /\ UNCHANGED <<viewerIDMap, loop>>
       \/ \E v \in ViewerID :
            /\ viewerIDMap[v] = r
            /\ viewerIDMap' = Unmapped(v)
            /\ loop' = [loop EXCEPT !.pc = "remove", !.id = v]
    /\ UNCHANGED <<vars, handshakes, termSize, resize, revoke, held, output, viewerCount,
                   missed, relayUp, conn, queue, view>>

removeLeftViewer ==
    /\ loop.pc = "remove"
    /\ \/ RemoveViewer(loop.id)
       \/ NoReaders /\ loop.id \notin ListViewers /\ UNCHANGED vars
    /\ viewerCount' = viewerCount - 1
    /\ loop' = IdleLoop
    /\ UNCHANGED <<handshakes, viewerIDMap, termSize, resize, revoke, held, output, missed,
                   netVars, view>>

-----------------------------------------------------------------------------
\* Revoke, called by a control-socket goroutine.

\* The wrap that RevokeViewer, in this step, has made with auth key a.
NewWrap(a) == CHOOSE w \in wraps' \ wraps : w.auth = a

\* RevokeViewer; unknown IDs and a closed session are refused without effect.
RevokeBegin(k, v) ==
    /\ revoke[k].pc = "idle"
    /\ RevokeViewer(v)
    /\ revoke' = [revoke EXCEPT ![k] =
                    [@ EXCEPT !.pc = "unmap", !.id = v,
                              !.rekeys = {[id |-> u, wrap |-> NewWrap(viewers[u])] :
                                            u \in Remaining(v)}]]
    /\ UNCHANGED <<handshakes, viewerIDMap, termSize, loop, resize, held, output, viewerCount,
                   missed, netVars, view>>

\* The revoked ID leaves viewerIDMap, under the sharer's lock.
RevokeUnmap(k) ==
    /\ revoke[k].pc = "unmap"
    /\ viewerIDMap' = [viewerIDMap EXCEPT ![revoke[k].id] = None]
    /\ revoke' = [revoke EXCEPT ![k].pc = "rekey"]
    /\ UNCHANGED <<vars, handshakes, termSize, loop, resize, held, output, viewerCount, missed,
                   netVars, view>>

\* One round of the loop over the rekeys, in map-iteration order: look the
\* viewer up under the sharer's lock and pass over it if it is not mapped ...
RevokeRekey(k, rk) ==
    /\ revoke[k].pc = "rekey"
    /\ rk \in revoke[k].rekeys
    /\ \/ /\ viewerIDMap[rk.id] # None
          /\ revoke' = [revoke EXCEPT ![k].pc = "send", ![k].rekeys = @ \ {rk},
                                      ![k].rekey = rk, ![k].to = viewerIDMap[rk.id]]
          /\ UNCHANGED missed
       \/ /\ viewerIDMap[rk.id] = None
          /\ revoke' = [revoke EXCEPT ![k].rekeys = @ \ {rk}]
          /\ missed' = missed \cup {rk.wrap.auth}
    /\ UNCHANGED <<vars, handshakes, viewerIDMap, termSize, loop, resize, held, output,
                   viewerCount, netVars, view>>

\* The rekeys that a Revoke still has to send.
Due(k) == revoke[k].rekeys \cup IF revoke[k].pc = "send" THEN {revoke[k].rekey} ELSE {}

\* Rekey rk comes too late: a later Revoke, which overlaps this one, had the
\* newest key for the same viewer and is done with it.
Overtaken(rk) ==
    /\ rk.wrap.key # streamKey
    /\ \E w \in wraps : w.auth = rk.wrap.auth /\ w.key = streamKey
    /\ \A k \in Revoker : \A x \in Due(k) :
         ~(x.wrap.auth = rk.wrap.auth /\ x.wrap.key = streamKey)

\* ... then send; an error ends Revoke.
RevokeSend(k) ==
    /\ revoke[k].pc = "send"
    /\ \/ /\ Unicast(revoke[k].to, [kind |-> "key", id |-> revoke[k].rekey.id,
                                    wrap |-> revoke[k].rekey.wrap])
          /\ missed' = IF Overtaken(revoke[k].rekey)
                       THEN missed \cup {revoke[k].rekey.wrap.auth} ELSE missed
          /\ revoke' = [revoke EXCEPT ![k].pc = "rekey", ![k].rekey = None, ![k].to = None]
       \/ /\ ~relayUp
          /\ revoke' = [revoke EXCEPT ![k] = [IdleRevoke EXCEPT !.pc = "done"]]
          /\ UNCHANGED <<queue, missed>>
    /\ UNCHANGED <<vars, handshakes, viewerIDMap, termSize, loop, resize, held, output,
                   viewerCount, relayUp, toSharer, conn, view>>

\* The probe, when every rekey has been dealt with.
RevokeReturn(k) ==
    /\ revoke[k].pc = "rekey"
    /\ revoke[k].rekeys = {}
    /\ viewerCount' = viewerCount - 1
    /\ revoke' = [revoke EXCEPT ![k] = [IdleRevoke EXCEPT !.pc = "done"]]
    /\ UNCHANGED <<vars, handshakes, viewerIDMap, termSize, loop, resize, held, output, missed,
                   netVars, view>>

\* Run returns once both loops have, and runShare closes the session.
RunEnd ==
    /\ ~relayUp
    /\ loop.pc = "recv"
    /\ pending["stream"] = Idle
    /\ Close
    /\ handshakes' = [r \in RelayID |-> "none"]
    /\ UNCHANGED <<viewerIDMap, termSize, loop, resize, revoke, held, output, viewerCount,
                   missed, netVars, view>>

-----------------------------------------------------------------------------
\* The viewers.

\* A viewer reads the next message from the relay.
Reads(r, kinds) ==
    /\ conn[r]
    /\ queue[r] # <<>>
    /\ Head(queue[r]).kind \in kinds
    /\ queue' = [queue EXCEPT ![r] = Tail(queue[r])]

InHandshake(r) == view[r].pc \in {"waitMsgA", "waitConfirmA", "waitKey"}

\* Run up to the first handshake message: the relay has sent the join-ack.
viewerConnect(r) ==
    /\ view[r].pc = "dial"
    /\ relayUp
    /\ conn' = [conn EXCEPT ![r] = TRUE]
    /\ \E knows \in BOOLEAN :
         view' = [view EXCEPT ![r].pc = "waitMsgA", ![r].knowsCode = knows]
    /\ ToSharer(r, "init")
    /\ UNCHANGED <<vars, sharerVars, relayUp, queue>>

\* recvHandshakeMsg ignores the stream.
handshakeSkips(r) ==
    /\ InHandshake(r)
    /\ Reads(r, {"stream", "termsize"})
    /\ UNCHANGED <<vars, sharerVars, relayUp, toSharer, conn, view>>

\* msg_a -> msg_b.
viewerExchange(r) ==
    /\ view[r].pc = "waitMsgA"
    /\ Reads(r, {"msg_a"})
    /\ view' = [view EXCEPT ![r].pc = "waitConfirmA"]
    /\ ToSharer(r, "msg_b")
    /\ UNCHANGED <<vars, sharerVars, relayUp, conn>>

\* confirm_a -> confirm_b.  A viewer of ours with a wrong code notices here
\* and leaves (viewerLeaves); the sharer must also refuse another program's
\* that goes on.
viewerConfirm(r) ==
    /\ view[r].pc = "waitConfirmA"
    /\ Reads(r, {"confirm_a"})
    /\ view' = [view EXCEPT ![r].pc = "waitKey"]
    /\ ToSharer(r, "confirm_b")
    /\ UNCHANGED <<vars, sharerVars, relayUp, conn>>

\* processKeyDelivery.
processKeyDelivery(r) ==
    /\ view[r].pc = "waitKey"
    /\ Reads(r, {"key"})
    /\ view' = [view EXCEPT ![r].pc = "active", ![r].id = Head(queue[r]).id,
                            ![r].key = Head(queue[r]).wrap.key]
    /\ UNCHANGED <<vars, sharerVars, relayUp, toSharer, conn>>

\* processRekey: a key for this viewer replaces the one it holds.
processRekey(r) ==
    /\ view[r].pc = "active"
    /\ Reads(r, {"key"})
    /\ view' = IF Head(queue[r]).id = view[r].id /\ Head(queue[r]).wrap.auth = r
               THEN [view EXCEPT ![r].key = Head(queue[r]).wrap.key, ![r].failures = 0]
               ELSE view
    /\ UNCHANGED <<vars, sharerVars, relayUp, toSharer, conn>>

\* validateEpoch accepts epoch e, and what it remembers then.  The viewer has
\* a clock of its own: graceOver says that EpochGracePeriodSec have passed on
\* it since epochTransitionTime.
EpochValid(w, e) ==
    \/ ~w.epochKnown \/ e >= w.epoch
    \/ e + 1 = w.epoch /\ ~w.graceOver
EpochSeen(w, e) ==
    IF ~w.epochKnown \/ e > w.epoch
    THEN [w EXCEPT !.epochKnown = TRUE, !.epoch = e, !.graceOver = FALSE] ELSE w

\* Time passes for viewer r (no epoch is older than epoch 0).
GraceEnds(r) ==
    /\ view[r].pc = "active" /\ view[r].epochKnown
    /\ view[r].epoch > 0 /\ ~view[r].graceOver
    /\ view' = [view EXCEPT ![r].graceOver = TRUE]
    /\ UNCHANGED <<vars, sharerVars, netVars>>

\* The test of a frame's nonce against the last one.
StaleNonceBug(w, n) == FALSE
StaleNonce(w, n) == n <= w.lastNonce

\* A viewer after a stream frame that was refused or did not decrypt.
Failed(w) ==
    [w EXCEPT !.failures = w.failures + 1,
              !.pc = IF w.failures + 1 >= FailureThreshold THEN "revoked" ELSE w.pc]

\* decryptAndWrite: the viewer after stream frame f.
AfterStream(w, f) ==
    LET seen == EpochSeen(w, f.epoch)
    IN  IF ~EpochValid(w, f.epoch) THEN w
        ELSE IF StaleNonce(w, f.nonce) THEN Failed(seen)
        ELSE IF w.key # f.key THEN Failed([seen EXCEPT !.lastNonce = f.nonce])
        ELSE [seen EXCEPT !.lastNonce = f.nonce, !.failures = 0,
                          !.shown = Append(w.shown, f.text[2])]

\* decryptAndApplySize: the viewer after size frame f.
AfterSize(w, f) ==
    LET seen == EpochSeen(w, f.epoch)
    IN  IF ~EpochValid(w, f.epoch) THEN w
        ELSE IF StaleNonce(w, f.nonce) \/ w.key # f.key THEN seen
        ELSE [seen EXCEPT !.lastNonce = f.nonce, !.size = f.text[2]]

\* streamLoop of the viewer: a broadcast message.  Giving up as "access
\* revoked" ends the process and with it the connection.
viewerFrame(r) ==
    /\ view[r].pc = "active"
    /\ Reads(r, {"stream", "termsize"})
    /\ view' = [view EXCEPT ![r] = IF Head(queue[r]).kind = "stream"
                                   THEN AfterStream(view[r], Head(queue[r]).frame)
                                   ELSE AfterSize(view[r], Head(queue[r]).frame)]
    /\ \/ view'[r].pc = "active" /\ UNCHANGED <<conn, toSharer>>
       \/ /\ view'[r].pc = "revoked"
          /\ conn' = [conn EXCEPT ![r] = FALSE]
          /\ ToSharer(r, "left")
    /\ UNCHANGED <<vars, sharerVars, relayUp>>

\* session-ended, in any phase.
viewerEnded(r) ==
    /\ InHandshake(r) \/ view[r].pc = "active"
    /\ Reads(r, {"session-ended"})
    /\ view' = [view EXCEPT ![r].pc = "ended"]
    /\ conn' = [conn EXCEPT ![r] = FALSE]
    /\ UNCHANGED <<vars, sharerVars, relayUp, toSharer>>

\* The viewer quits, times out in the handshake or loses its connection.
viewerLeaves(r) ==
    /\ MayLeave
    /\ InHandshake(r) \/ view[r].pc = "active"
    /\ conn' = [conn EXCEPT ![r] = FALSE]
    /\ queue' = [queue EXCEPT ![r] = <<>>]
    /\ view' = [view EXCEPT ![r].pc = "left"]
    /\ ToSharer(r, "left")
    /\ UNCHANGED <<vars, sharerVars, relayUp>>

-----------------------------------------------------------------------------

Clock == Tick /\ UNCHANGED <<sharerVars, netVars, view>>

RelayLoop ==
    \/ \E r \in RelayID : \/ handleInit(r) \/ handleMsgB(r) \/ handleRefused(r)
                          \/ handleViewerDisconnect(r)
                          \/ \E v \in ViewerID : handleConfirmB(r, v)
    \/ deliverKey \/ mapViewer \/ viewerJoined \/ joinedSizeEncrypt \/ joinedSizeSend
    \/ removeLeftViewer

StreamLoop == streamLoopRead \/ streamLoopSend

Resize == SetTermSize \/ SetTermSizeEncrypt \/ SetTermSizeSend

Revoke(k) ==
    \/ \E v \in ViewerID : RevokeBegin(k, v)
    \/ RevokeUnmap(k)
    \/ \E rk \in revoke[k].rekeys : RevokeRekey(k, rk)
    \/ RevokeSend(k)
    \/ RevokeReturn(k)

RunViewer(r) ==
    \/ viewerConnect(r) \/ handshakeSkips(r) \/ viewerExchange(r) \/ viewerConfirm(r)
    \/ processKeyDelivery(r) \/ processRekey(r) \/ GraceEnds(r) \/ viewerFrame(r)
    \/ viewerEnded(r) \/ viewerLeaves(r)

SharingNext ==
    \/ RelayLoop \/ StreamLoop \/ Resize
    \/ \E c \in Caller : EncryptFrameReturn(c)
    \/ \E k \in Revoker : Revoke(k)
    \/ \E r \in RelayID : RunViewer(r)
    \/ \E r \in RelayID : RelayReplays(r)
    \/ RelayLost \/ RunStart \/ RunEnd \/ Clock

SharingSpec == Init /\ [][SharingNext]_allVars

-----------------------------------------------------------------------------

\* Every variable of the sharer, the network and the viewers has its type.
SharingTypeOK ==
    /\ handshakes \in [RelayID -> {"none", "waitMsgB", "waitConfirmB", "complete"}]
    /\ viewerIDMap \in [ViewerID -> RelayID \cup {None}]
    /\ termSize \in 0..MaxSize
    /\ loop.pc \in {"start", "recv", "deliver", "map", "joined", "encrypt", "send", "remove"}
    /\ resize \in {"idle", "encrypt", "send"}
    /\ \A k \in Revoker : revoke[k].pc \in {"idle", "unmap", "rekey", "send", "done"}
    /\ held \in [Caller -> Frame \cup {Idle}]
    /\ output \in 0..MaxOutput
    /\ relayUp \in BOOLEAN
    /\ conn \in [RelayID -> BOOLEAN]
    /\ \A r \in RelayID :
         /\ view[r].pc \in {"dial", "waitMsgA", "waitConfirmA", "waitKey", "active",
                            "ended", "left", "revoked"}
         /\ view[r].key \in Nat /\ view[r].lastNonce \in Nat
         /\ view[r].shown \in Seq(1..MaxOutput)
    /\ missed \subseteq RelayID

\* A viewer shows the terminal output in order and shows nothing twice,
\* whatever the interleaving of stream, size and key messages.
ShownInOrder ==
    \A r \in RelayID : \A i, j \in DOMAIN view[r].shown :
        i < j => view[r].shown[i] < view[r].shown[j]

\* Nothing that was sealed after a viewer's revocation is ever shown by it,
\* although it stays connected and keeps receiving every message.
RevokedSeesNothingNew ==
    \A r \in RelayID : status[r] = "revoked" =>
        \A f \in frames :
            f.text[1] = "out" /\ f.nonce > revokedAt[r] =>
                \A i \in DOMAIN view[r].shown : view[r].shown[i] # f.text[2]

\* Only a viewer that knows the code is registered or holds a stream key,
\* also when another one's handshake is under way or fails ("the Sharer does
\* not deliver K").
KeyOnlyWithCode ==
    \A r \in RelayID : view[r].key # 0 \/ status[r] # "fresh" => view[r].knowsCode

\* viewerIDMap sends keys to their owners: an entry leads to the connection
\* whose auth key the session holds, or held, under that ID.  The random
\* IDs are taken to be distinct (UniqueIDs): the code does not look.
MapLeadsToOwner ==
    \A v \in ViewerID :
        /\ viewerIDMap[v] # None /\ v \in ListViewers => viewers[v] = viewerIDMap[v]
        /\ \A u \in ViewerID : viewerIDMap[u] = viewerIDMap[v] /\ viewerIDMap[v] # None => u = v

\* Nothing is under way: the sharer's goroutines wait for input and every
\* message has been read.
Quiescent ==
    /\ relayUp /\ toSharer = <<>>
    /\ loop.pc = "recv" /\ resize = "idle"
    /\ \A c \in Caller : held[c] = Idle /\ pending[c] = Idle
    /\ \A k \in Revoker : revoke[k].pc \in {"idle", "done"}
    /\ \A r \in RelayID : conn[r] => queue[r] = <<>>

\* When things settle, every watching viewer that was not revoked holds the
\* stream key in use, also after revocations that overlap, with two provisos:
\* no Revoke found it missing in viewerIDMap (see OthersKeepWatching), and no
\* Revoke sent it its older key after a later one had sent the newest.  IDs are
\* taken to be distinct here too.
RekeyedViewersFollow ==
    Quiescent => \A r \in RelayID \ missed :
        view[r].pc = "active" /\ status[r] = "member" => view[r].key = streamKey

\* The same without the proviso: revoking one viewer leaves all others able
\* to read ("Viewer B continues receiving the stream uninterrupted").
OthersKeepWatching ==
    Quiescent => \A r \in RelayID :
        view[r].pc = "active" /\ status[r] = "member" => view[r].key = streamKey

\* When things settle, every watching viewer has the sharer's current size.
SizeSettles ==
    Quiescent => \A r \in RelayID :
        view[r].pc = "active" /\ view[r].key = streamKey => view[r].size = termSize

=============================================================================
