------------------------ MODULE SharingSafetyProofs ------------------------
(***************************************************************************)
(* Sharing: what the viewers hold and show, for any number of viewers,     *)
(* revocations, frames and sizes, and for every draw of viewer IDs.        *)
(*                                                                         *)
(* Every step of the system is a step of the session or leaves it alone    *)
(* (SharingProofs), so the session's inductive invariant IInv is at hand   *)
(* in every induction below.                                               *)
(***************************************************************************)
EXTENDS SharingProofs, SequenceTheorems

USE SharingAssumption, AuthAssumption, IdleAssumption, FlagAssumption

-----------------------------------------------------------------------------
\* The types, field by field.

Rekey  == [id : ViewerID, wrap : Wrap]
Letter == [from : RelayID, msg : {"init", "msg_b", "confirm_b", "left"}]

BareMsg  == [kind : {"msg_a", "confirm_a", "session-ended"}]
KeyMsg   == [kind : {"key"}, id : ViewerID, wrap : Wrap]
FrameMsg == [kind : {"stream", "termsize"}, frame : Frame]
Msg      == BareMsg \cup KeyMsg \cup
            {m \in FrameMsg : m.kind = "stream" <=> m.frame.text[1] = "out"}

Handshake == {"waitMsgA", "waitConfirmA", "waitKey"}
ViewPC    == Handshake \cup {"dial", "active", "ended", "left", "revoked"}
View == [pc : ViewPC, knowsCode : BOOLEAN, id : ViewerID \cup {None}, key : Nat,
         lastNonce : Nat, failures : Nat, epochKnown : BOOLEAN, epoch : Nat,
         graceOver : BOOLEAN, shown : Seq(1..MaxOutput), size : 0..MaxSize]

LoopPC == {"start", "recv", "deliver", "map", "joined", "encrypt", "send", "remove"}
LoopTypes ==
    /\ loop \in [pc : LoopPC, viewer : RelayID \cup {None}, id : ViewerID \cup {None},
                 wrap : Wrap \cup {None}, size : 0..MaxSize]
    /\ loop.pc \in {"deliver", "map"} => loop.viewer \in RelayID
    /\ loop.pc \in {"deliver", "map", "remove"} => loop.id \in ViewerID
    /\ loop.pc = "deliver" => loop.wrap \in Wrap

RevokePC == {"idle", "unmap", "rekey", "send", "done"}
RevokeState == [pc : RevokePC, id : ViewerID \cup {None}, rekeys : SUBSET Rekey,
                rekey : Rekey \cup {None}, to : RelayID \cup {None}]
RevokeTypes ==
    /\ revoke \in [Revoker -> RevokeState]
    /\ \A k \in Revoker :
         /\ revoke[k].pc = "unmap" => revoke[k].id \in ViewerID
         /\ revoke[k].pc = "send" => revoke[k].rekey \in Rekey /\ revoke[k].to \in RelayID

SharerTypes ==
    /\ handshakes \in [RelayID -> {"none", "waitMsgB", "waitConfirmB", "complete"}]
    /\ viewerIDMap \in [ViewerID -> RelayID \cup {None}]
    /\ held \in [Caller -> Frame \cup {Idle}]
    /\ missed \in SUBSET RelayID

NetTypes ==
    /\ relayUp \in BOOLEAN
    /\ toSharer \in Seq(Letter)
    /\ conn \in [RelayID -> BOOLEAN]
    /\ queue \in [RelayID -> Seq(Msg)]

ViewTypes == view \in [RelayID -> View]

\* With CallsAreTyped of SharingProofs, all of the state.
Types ==
    /\ CallsAreTyped
    /\ LoopTypes
    /\ RevokeTypes
    /\ SharerTypes
    /\ NetTypes
    /\ ViewTypes

\* The type invariant of the model is part of it.
LEMMA TypesSuffice == Types => SharingTypeOK
  BY DEF Types, CallsAreTyped, LoopTypes, LoopPC, RevokeTypes, RevokeState, RevokePC,
         SharerTypes, NetTypes, ViewTypes, View, ViewPC, Handshake, SharingTypeOK

-----------------------------------------------------------------------------
\* What a plaintext is.
LEMMA TextParts ==
    ASSUME NEW t \in Plaintext
    PROVE  \/ t[1] = "out" /\ t[2] \in 1..MaxOutput
           \/ t[1] = "size" /\ t[2] \in 1..MaxSize
  OBVIOUS

\* A frame travels as a message of its kind.
LEMMA MessageTyped ==
    ASSUME NEW f \in Frame
    PROVE  /\ Message(f) \in Msg /\ Message(f).frame = f
           /\ Message(f).kind = IF f.text[1] = "out" THEN "stream" ELSE "termsize"
  BY DEF Message, Msg, FrameMsg

\* Sending, per queue.
LEMMA UnicastTyped ==
    ASSUME queue \in [RelayID -> Seq(Msg)], NEW r \in RelayID, NEW m \in Msg, Unicast(r, m)
    PROVE  queue' \in [RelayID -> Seq(Msg)]
  BY DEF Unicast

\* Broadcasting a message keeps the queues typed.
LEMMA BroadcastTyped ==
    ASSUME queue \in [RelayID -> Seq(Msg)], NEW m \in Msg, Broadcast(m)
    PROVE  queue' \in [RelayID -> Seq(Msg)]
  BY DEF Broadcast

\* Reading takes the first message of one viewer's queue and leaves the other queues alone.
LEMMA ReadsTyped ==
    ASSUME queue \in [RelayID -> Seq(Msg)], NEW r \in RelayID, NEW kinds, Reads(r, kinds)
    PROVE  /\ queue' \in [RelayID -> Seq(Msg)]
           /\ Head(queue[r]) \in Msg /\ Head(queue[r]).kind \in kinds
           /\ queue[r] # <<>> /\ conn[r]
           /\ queue'[r] = Tail(queue[r])
           /\ \A s \in RelayID \ {r} : queue'[s] = queue[s]
  BY DEF Reads

\* What a viewer sends to the sharer is a letter.
LEMMA ToSharerTyped ==
    ASSUME toSharer \in Seq(Letter), NEW r \in RelayID,
           NEW m \in {"init", "msg_b", "confirm_b", "left"}, ToSharer(r, m)
    PROVE  toSharer' \in Seq(Letter)
<1>1. [from |-> r, msg |-> m] \in Letter
  BY DEF Letter
<1> QED
  BY <1>1 DEF ToSharer

\* Receiving a letter keeps the sharer's queue typed.
LEMMA ReceivedTyped ==
    ASSUME toSharer \in Seq(Letter), NEW r, NEW m, Received(r, m)
    PROVE  toSharer' \in Seq(Letter)
  BY DEF Received


-----------------------------------------------------------------------------
\* What a viewer makes of a message.

\* validateEpoch touches nothing but what it remembers of the epoch.
LEMMA SeenTyped ==
    ASSUME NEW w \in View, NEW e \in Nat
    PROVE  /\ EpochSeen(w, e) \in View
           /\ EpochSeen(w, e).pc = w.pc /\ EpochSeen(w, e).key = w.key
           /\ EpochSeen(w, e).id = w.id
           /\ EpochSeen(w, e).lastNonce = w.lastNonce /\ EpochSeen(w, e).shown = w.shown
           /\ EpochSeen(w, e).knowsCode = w.knowsCode /\ EpochSeen(w, e).failures = w.failures
<1> DEFINE n == [w EXCEPT !.epochKnown = TRUE, !.epoch = e, !.graceOver = FALSE]
<1>1. n \in View
  BY Zenon DEF View
<1>2. /\ n.pc = w.pc /\ n.key = w.key /\ n.lastNonce = w.lastNonce /\ n.shown = w.shown
      /\ n.failures = w.failures /\ n.id = w.id
  BY DEF View
<1>3. n.knowsCode = w.knowsCode
  BY Zenon DEF View
<1>4. EpochSeen(w, e) = n \/ EpochSeen(w, e) = w
  BY DEF EpochSeen
<1> HIDE DEF n
<1> QED
  BY <1>1, <1>2, <1>3, <1>4

\* A failure counts, and may end the viewer.
LEMMA FailedTyped ==
    ASSUME NEW w \in View, w.pc = "active"
    PROVE  /\ Failed(w) \in View
           /\ Failed(w).pc \in {"active", "revoked"} /\ Failed(w).key = w.key
           /\ Failed(w).lastNonce = w.lastNonce /\ Failed(w).shown = w.shown
           /\ Failed(w).knowsCode = w.knowsCode /\ Failed(w).id = w.id
<1> DEFINE a == w.failures + 1
           b == IF a >= FailureThreshold THEN "revoked" ELSE w.pc
           n == [w EXCEPT !.failures = a, !.pc = b]
<1>1. a \in Nat /\ b \in {"active", "revoked"}
  BY DEF View
<1>2. Failed(w) = n
  BY DEF Failed
<1> HIDE DEF a, b
<1>3. b \in ViewPC
  BY <1>1 DEF ViewPC
<1>4. n \in View
  BY <1>1, <1>3, Zenon DEF View
<1>5. /\ n.pc = b /\ n.key = w.key /\ n.lastNonce = w.lastNonce /\ n.shown = w.shown
      /\ n.id = w.id
  BY DEF View
<1>6. n.knowsCode = w.knowsCode
  BY Zenon DEF View
<1> HIDE DEF n
<1> QED
  BY <1>1, <1>2, <1>4, <1>5, <1>6

\* What a frame may do to a viewer: it stays as it is but for its bookkeeping,
\* or shows a chunk sealed under its own key with a nonce above all before.
Takes(w, f, n) ==
    /\ n \in View
    /\ n.pc \in {"active", "revoked"} /\ n.key = w.key /\ n.knowsCode = w.knowsCode
    /\ n.id = w.id /\ n.lastNonce >= w.lastNonce
    /\ \/ n.shown = w.shown
       \/ /\ f.text[1] = "out" /\ w.key = f.key /\ f.nonce > w.lastNonce
          /\ n.lastNonce = f.nonce /\ n.shown = Append(w.shown, f.text[2])

\* decryptAndWrite takes a frame of output, or refuses it and shows nothing.
LEMMA StreamTakes ==
    ASSUME NEW w \in View, w.pc = "active", NEW f \in Frame, f.text[1] = "out"
    PROVE  Takes(w, f, AfterStream(w, f))
<1> DEFINE seen == EpochSeen(w, f.epoch)
           late == [seen EXCEPT !.lastNonce = f.nonce]
           x    == Append(w.shown, f.text[2])
           good == [seen EXCEPT !.lastNonce = f.nonce, !.failures = 0, !.shown = x]
<1>0. f.epoch \in Nat /\ f.nonce \in Nat /\ f.text \in Plaintext /\ w.lastNonce \in Nat
      /\ w.shown \in Seq(1..MaxOutput)
  BY DEF Frame, View
<1>1. /\ seen \in View /\ seen.pc = w.pc /\ seen.key = w.key /\ seen.lastNonce = w.lastNonce
      /\ seen.shown = w.shown /\ seen.knowsCode = w.knowsCode
      /\ seen.id = w.id
  BY <1>0, SeenTyped
<1>2. x \in Seq(1..MaxOutput)
  BY <1>0, TextParts
<1>3. AfterStream(w, f) = IF ~EpochValid(w, f.epoch) THEN w
                          ELSE IF f.nonce <= w.lastNonce THEN Failed(seen)
                          ELSE IF w.key # f.key THEN Failed(late) ELSE good
  BY DEF AfterStream, StaleNonce
<1> HIDE DEF seen
<1>4. late \in View /\ good \in View
  BY <1>0, <1>1, <1>2, Zenon DEF View
<1>5. /\ late.pc = w.pc /\ late.key = w.key /\ late.lastNonce = f.nonce /\ late.shown = w.shown
      /\ late.id = w.id
  BY <1>1 DEF View
<1>6. /\ good.pc = w.pc /\ good.key = w.key /\ good.lastNonce = f.nonce /\ good.shown = x
      /\ good.id = w.id
  BY <1>1 DEF View
<1>7. late.knowsCode = w.knowsCode /\ good.knowsCode = w.knowsCode
  BY <1>1, Zenon DEF View
<1> HIDE DEF late, good
<1>8. /\ Failed(seen) \in View
      /\ Failed(seen).pc \in {"active", "revoked"} /\ Failed(seen).key = w.key
      /\ Failed(seen).lastNonce = w.lastNonce /\ Failed(seen).shown = w.shown
      /\ Failed(seen).knowsCode = w.knowsCode /\ Failed(seen).id = w.id
  BY <1>1, FailedTyped
<1>9. /\ Failed(late) \in View
      /\ Failed(late).pc \in {"active", "revoked"} /\ Failed(late).key = w.key
      /\ Failed(late).lastNonce = f.nonce /\ Failed(late).shown = w.shown
      /\ Failed(late).knowsCode = w.knowsCode /\ Failed(late).id = w.id
  BY <1>4, <1>5, <1>7, FailedTyped
<1>a. CASE ~EpochValid(w, f.epoch)
  BY <1>0, <1>3, <1>a DEF Takes
<1>b. CASE EpochValid(w, f.epoch) /\ f.nonce <= w.lastNonce
  BY <1>0, <1>3, <1>8, <1>b DEF Takes
<1>c. CASE EpochValid(w, f.epoch) /\ ~(f.nonce <= w.lastNonce) /\ w.key # f.key
  BY <1>0, <1>3, <1>9, <1>c DEF Takes
<1>d. CASE EpochValid(w, f.epoch) /\ ~(f.nonce <= w.lastNonce) /\ w.key = f.key
  BY <1>0, <1>3, <1>4, <1>6, <1>7, <1>d DEF Takes
<1> QED
  BY <1>a, <1>b, <1>c, <1>d

\* decryptAndApplySize takes a size frame; it shows no output.
LEMMA SizeTakes ==
    ASSUME NEW w \in View, w.pc = "active", NEW f \in Frame, f.text[1] # "out"
    PROVE  Takes(w, f, AfterSize(w, f))
<1> DEFINE seen == EpochSeen(w, f.epoch)
           good == [seen EXCEPT !.lastNonce = f.nonce, !.size = f.text[2]]
<1>0. f.epoch \in Nat /\ f.nonce \in Nat /\ f.text \in Plaintext /\ w.lastNonce \in Nat
  BY DEF Frame, View
<1>1. /\ seen \in View /\ seen.pc = w.pc /\ seen.key = w.key /\ seen.lastNonce = w.lastNonce
      /\ seen.shown = w.shown /\ seen.knowsCode = w.knowsCode
      /\ seen.id = w.id
  BY <1>0, SeenTyped
<1>2. f.text[2] \in 0..MaxSize
  BY <1>0, TextParts
<1>3. AfterSize(w, f) = IF ~EpochValid(w, f.epoch) THEN w
                        ELSE IF f.nonce <= w.lastNonce \/ w.key # f.key THEN seen ELSE good
  BY DEF AfterSize, StaleNonce
<1> HIDE DEF seen
<1>4. good \in View
  BY <1>0, <1>1, <1>2, Zenon DEF View
<1>5. /\ good.pc = w.pc /\ good.key = w.key /\ good.lastNonce = f.nonce /\ good.shown = w.shown
      /\ good.id = w.id
  BY <1>1 DEF View
<1>6. good.knowsCode = w.knowsCode
  BY <1>1, Zenon DEF View
<1> HIDE DEF good
<1>a. CASE ~EpochValid(w, f.epoch)
  BY <1>0, <1>3, <1>a DEF Takes
<1>b. CASE EpochValid(w, f.epoch) /\ (f.nonce <= w.lastNonce \/ w.key # f.key)
  BY <1>0, <1>1, <1>3, <1>b DEF Takes
<1>c. CASE EpochValid(w, f.epoch) /\ ~(f.nonce <= w.lastNonce) /\ w.key = f.key
  BY <1>0, <1>3, <1>4, <1>5, <1>6, <1>c DEF Takes
<1> QED
  BY <1>a, <1>b, <1>c

-----------------------------------------------------------------------------
\* The steps of viewer r: only its own state changes, and it connects, goes
\* on without touching key and output, reads a key or reads a frame.
Others(r) ==
    \A s \in RelayID \ {r} : view'[s] = view[s] /\ conn'[s] = conn[s] /\ queue'[s] = queue[s]

Pops(r, kinds) ==
    /\ queue[r] # <<>> /\ Head(queue[r]) \in Msg /\ Head(queue[r]).kind \in kinds
    /\ queue'[r] = Tail(queue[r])

Connects(r) ==
    /\ view[r].pc = "dial" /\ view'[r].pc = "waitMsgA"
    /\ view'[r].key = view[r].key /\ view'[r].lastNonce = view[r].lastNonce
    /\ view'[r].shown = view[r].shown
    /\ conn'[r] /\ queue'[r] = queue[r]

GoesOn(r) ==
    /\ view[r].pc # "dial" /\ view'[r].pc # "dial"
    /\ view'[r].key = view[r].key /\ view'[r].lastNonce = view[r].lastNonce
    /\ view'[r].shown = view[r].shown /\ view'[r].knowsCode = view[r].knowsCode
    /\ view'[r].pc \in Handshake => view[r].pc \in Handshake /\ conn'[r] = conn[r]
    /\ \/ queue'[r] = queue[r]
       \/ Pops(r, {"msg_a", "confirm_a", "session-ended", "stream", "termsize"})
       \/ queue'[r] = <<>> /\ view'[r].pc = "left"

GetsKey(r) ==
    /\ view[r].pc \in {"waitKey", "active"} /\ view'[r].pc = "active"
    /\ view'[r].lastNonce = view[r].lastNonce
    /\ view'[r].shown = view[r].shown /\ view'[r].knowsCode = view[r].knowsCode
    /\ Pops(r, {"key"})
    /\ \/ view[r].pc = "active" /\ view'[r].key = view[r].key
       \/ /\ view[r].pc = "waitKey" \/ Head(queue[r]).wrap.auth = r
          /\ view'[r].key = Head(queue[r]).wrap.key

GetsFrame(r) ==
    /\ view[r].pc = "active"
    /\ Pops(r, {"stream", "termsize"})
    /\ Takes(view[r], Head(queue[r]).frame, view'[r])

ViewerStep(r) ==
    /\ ViewTypes' /\ NetTypes' /\ Others(r)
    /\ Connects(r) \/ GoesOn(r) \/ GetsKey(r) \/ GetsFrame(r)

\* Replacing the state of one viewer.
LEMMA ViewReplaced ==
    ASSUME view \in [RelayID -> View], NEW r \in RelayID, NEW n \in View,
           view' = [view EXCEPT ![r] = n]
    PROVE  /\ ViewTypes' /\ view'[r] = n
           /\ \A s \in RelayID \ {r} : view'[s] = view[s]
  BY Zenon DEF ViewTypes

\* Changing the connection of one viewer.
LEMMA ConnReplaced ==
    ASSUME conn \in [RelayID -> BOOLEAN], NEW r \in RelayID, NEW b \in BOOLEAN,
           conn' = [conn EXCEPT ![r] = b]
    PROVE  /\ conn' \in [RelayID -> BOOLEAN] /\ conn'[r] = b
           /\ \A s \in RelayID \ {r} : conn'[s] = conn[s]
  BY Zenon

\* A viewer that connects is a viewer step: it holds no key and has shown nothing.
LEMMA viewerConnectStep ==
    ASSUME Types, NEW r \in RelayID, viewerConnect(r)
    PROVE  ViewerStep(r)
<1>0. /\ view \in [RelayID -> View] /\ view[r] \in View /\ toSharer \in Seq(Letter)
      /\ conn \in [RelayID -> BOOLEAN] /\ queue \in [RelayID -> Seq(Msg)] /\ relayUp \in BOOLEAN
  BY DEF Types, ViewTypes, NetTypes
<1>1. PICK knows \in BOOLEAN :
        view' = [view EXCEPT ![r].pc = "waitMsgA", ![r].knowsCode = knows]
  BY DEF viewerConnect
<1> DEFINE n == [view[r] EXCEPT !.pc = "waitMsgA", !.knowsCode = knows]
<1>2. view' = [view EXCEPT ![r] = n]
  BY <1>0, <1>1 DEF View
<1>3. "waitMsgA" \in ViewPC
  BY DEF ViewPC, Handshake
<1>4. n \in View
  BY <1>0, <1>3, Zenon DEF View
<1>5. /\ n.pc = "waitMsgA" /\ n.key = view[r].key /\ n.lastNonce = view[r].lastNonce
      /\ n.shown = view[r].shown
  BY <1>0 DEF View
<1> HIDE DEF n
<1>6. ViewTypes' /\ view'[r] = n /\ \A s \in RelayID \ {r} : view'[s] = view[s]
  BY <1>0, <1>2, <1>4, ViewReplaced
<1>7. conn' = [conn EXCEPT ![r] = TRUE] /\ ToSharer(r, "init") /\ UNCHANGED <<relayUp, queue>>
      /\ view[r].pc = "dial"
  BY DEF viewerConnect
<1>8. /\ conn' \in [RelayID -> BOOLEAN] /\ conn'[r]
      /\ \A s \in RelayID \ {r} : conn'[s] = conn[s]
  BY <1>0, <1>7, ConnReplaced
<1>9. toSharer' \in Seq(Letter)
  BY <1>0, <1>7, ToSharerTyped
<1> QED
  BY <1>0, <1>5, <1>6, <1>7, <1>8, <1>9 DEF ViewerStep, NetTypes, Others, Connects

\* Stream and size frames read during the handshake are dropped.
LEMMA handshakeSkipsStep ==
    ASSUME Types, NEW r \in RelayID, handshakeSkips(r)
    PROVE  ViewerStep(r)
<1>0. /\ view \in [RelayID -> View] /\ queue \in [RelayID -> Seq(Msg)]
      /\ Reads(r, {"stream", "termsize"}) /\ view[r].pc \in Handshake
      /\ UNCHANGED <<relayUp, toSharer, conn, view>>
  BY DEF Types, ViewTypes, NetTypes, handshakeSkips, InHandshake, Handshake
<1>1. Pops(r, {"stream", "termsize"}) /\ queue' \in [RelayID -> Seq(Msg)]
      /\ \A s \in RelayID \ {r} : queue'[s] = queue[s]
  BY <1>0, ReadsTyped DEF Pops
<1>2. GoesOn(r)
  BY <1>0, <1>1 DEF GoesOn, Handshake, Pops
<1> QED
  BY <1>0, <1>1, <1>2 DEF Types, ViewerStep, NetTypes, ViewTypes, Others

\* The two answers of the handshake take a handshake message and change no key.
LEMMA viewerAnswersStep ==
    ASSUME Types, NEW r \in RelayID, viewerExchange(r) \/ viewerConfirm(r)
    PROVE  ViewerStep(r)
<1>0. /\ view \in [RelayID -> View] /\ queue \in [RelayID -> Seq(Msg)] /\ view[r] \in View
      /\ toSharer \in Seq(Letter) /\ view[r].pc \in Handshake
      /\ UNCHANGED <<relayUp, conn>>
  BY DEF Types, ViewTypes, NetTypes, viewerExchange, viewerConfirm, Handshake
<1>1. Reads(r, {"msg_a"}) \/ Reads(r, {"confirm_a"})
  BY DEF viewerExchange, viewerConfirm
<1>2. Pops(r, {"msg_a", "confirm_a"}) /\ queue' \in [RelayID -> Seq(Msg)]
      /\ \A s \in RelayID \ {r} : queue'[s] = queue[s]
  BY <1>0, <1>1, ReadsTyped DEF Pops
<1>3. PICK p \in {"waitConfirmA", "waitKey"} : view' = [view EXCEPT ![r].pc = p]
  BY DEF viewerExchange, viewerConfirm
<1> DEFINE n == [view[r] EXCEPT !.pc = p]
<1>4. p \in ViewPC /\ p # "dial"
  BY DEF ViewPC, Handshake
<1>5. n \in View
  BY <1>0, <1>4, Zenon DEF View
<1>6. /\ n.pc = p /\ n.key = view[r].key /\ n.lastNonce = view[r].lastNonce
      /\ n.shown = view[r].shown
  BY <1>0 DEF View
<1>7. n.knowsCode = view[r].knowsCode
  BY <1>0, Zenon DEF View
<1>8. ViewTypes' /\ view'[r] = n /\ \A s \in RelayID \ {r} : view'[s] = view[s]
  BY <1>0, <1>3, <1>5, ViewReplaced
<1> HIDE DEF n
<1>9. GoesOn(r)
  BY <1>0, <1>2, <1>4, <1>6, <1>7, <1>8 DEF GoesOn, Handshake, Pops
<1>a. toSharer' \in Seq(Letter)
  BY <1>0, ToSharerTyped DEF viewerExchange, viewerConfirm
<1> QED
  BY <1>0, <1>2, <1>8, <1>9, <1>a DEF Types, ViewerStep, NetTypes, Others

\* A key message is opened by the viewer's own auth key or leaves its key alone.
LEMMA viewerKeyStep ==
    ASSUME Types, NEW r \in RelayID, processKeyDelivery(r) \/ processRekey(r)
    PROVE  ViewerStep(r)
<1> DEFINE h == Head(queue[r])
<1>0. /\ view \in [RelayID -> View] /\ queue \in [RelayID -> Seq(Msg)] /\ view[r] \in View
      /\ view[r].pc \in {"waitKey", "active"}
      /\ Reads(r, {"key"}) /\ UNCHANGED <<relayUp, conn, toSharer>>
  BY DEF Types, ViewTypes, NetTypes, processKeyDelivery, processRekey
<1>1. Pops(r, {"key"}) /\ queue' \in [RelayID -> Seq(Msg)]
      /\ \A s \in RelayID \ {r} : queue'[s] = queue[s]
  BY <1>0, ReadsTyped DEF Pops
<1>2. h.id \in ViewerID /\ h.wrap.key \in Nat
  BY <1>1 DEF Pops, Msg, BareMsg, KeyMsg, FrameMsg, Wrap
<1>3. PICK n \in View :
        /\ view' = [view EXCEPT ![r] = n]
        /\ n.pc = "active" /\ n.lastNonce = view[r].lastNonce
        /\ n.shown = view[r].shown /\ n.knowsCode = view[r].knowsCode
        /\ \/ view[r].pc = "active" /\ n.key = view[r].key
           \/ (view[r].pc = "waitKey" \/ h.wrap.auth = r) /\ n.key = h.wrap.key
  <2>0. "active" \in ViewPC /\ 0 \in Nat
    BY DEF ViewPC
  <2>1. CASE processKeyDelivery(r)
    <3> DEFINE n == [view[r] EXCEPT !.pc = "active", !.id = h.id, !.key = h.wrap.key]
    <3>1. n \in View
      BY <1>0, <1>2, <2>0, Zenon DEF View
    <3>2. view' = [view EXCEPT ![r] = n] /\ view[r].pc = "waitKey"
      BY <1>0, <2>1 DEF processKeyDelivery, View
    <3>3. /\ n.pc = "active" /\ n.lastNonce = view[r].lastNonce /\ n.shown = view[r].shown
          /\ n.key = h.wrap.key
      BY <1>0 DEF View
    <3>4. n.knowsCode = view[r].knowsCode
      BY <1>0, Zenon DEF View
    <3> HIDE DEF n, h
    <3> QED
      BY <3>1, <3>2, <3>3, <3>4
  <2>2. CASE processRekey(r) /\ h.id = view[r].id /\ h.wrap.auth = r
    <3> DEFINE n == [view[r] EXCEPT !.key = h.wrap.key, !.failures = 0]
    <3>1. n \in View
      BY <1>0, <1>2, <2>0, Zenon DEF View
    <3>2. view' = [view EXCEPT ![r] = n] /\ view[r].pc = "active"
      BY <1>0, <2>2 DEF processRekey, View
    <3>3. /\ n.pc = view[r].pc /\ n.lastNonce = view[r].lastNonce /\ n.shown = view[r].shown
          /\ n.key = h.wrap.key
      BY <1>0 DEF View
    <3>4. n.knowsCode = view[r].knowsCode
      BY <1>0, Zenon DEF View
    <3> HIDE DEF n, h
    <3> QED
      BY <2>2, <3>1, <3>2, <3>3, <3>4
  <2>3. CASE processRekey(r) /\ ~(h.id = view[r].id /\ h.wrap.auth = r)
    <3>1. view' = view /\ view[r].pc = "active"
      BY <2>3 DEF processRekey
    <3>2. view' = [view EXCEPT ![r] = view[r]]
      BY <1>0, <3>1, Zenon
    <3> HIDE DEF h
    <3> QED
      BY <1>0, <3>1, <3>2
  <2> QED
    BY <2>1, <2>2, <2>3
<1>4. ViewTypes' /\ view'[r] = n /\ \A s \in RelayID \ {r} : view'[s] = view[s]
  BY <1>0, <1>3, ViewReplaced
<1>5. GetsKey(r)
  BY <1>0, <1>1, <1>3, <1>4 DEF GetsKey
<1> QED
  BY <1>0, <1>1, <1>4, <1>5 DEF Types, ViewerStep, NetTypes, Others

\* The end of the grace period changes neither key nor output.
LEMMA graceEndsStep ==
    ASSUME Types, NEW r \in RelayID, GraceEnds(r)
    PROVE  ViewerStep(r)
<1> DEFINE n == [view[r] EXCEPT !.graceOver = TRUE]
<1>0. /\ view \in [RelayID -> View] /\ view[r] \in View /\ view[r].pc = "active"
      /\ UNCHANGED netVars /\ view' = [view EXCEPT ![r] = n]
  BY DEF Types, ViewTypes, GraceEnds
<1>1. n \in View
  BY <1>0, Zenon DEF View
<1>2. /\ n.pc = "active" /\ n.lastNonce = view[r].lastNonce /\ n.shown = view[r].shown
      /\ n.key = view[r].key
  BY <1>0 DEF View
<1>3. n.knowsCode = view[r].knowsCode
  BY <1>0, Zenon DEF View
<1> HIDE DEF n
<1>4. ViewTypes' /\ view'[r] = n /\ \A s \in RelayID \ {r} : view'[s] = view[s]
  BY <1>0, <1>1, ViewReplaced
<1>5. GoesOn(r)
  BY <1>0, <1>2, <1>3, <1>4 DEF GoesOn, netVars, Handshake
<1> QED
  BY <1>0, <1>4, <1>5 DEF Types, ViewerStep, NetTypes, Others, netVars

\* A frame in the stream is taken or refused, and may end the viewer.
LEMMA viewerFrameStep ==
    ASSUME Types, NEW r \in RelayID, viewerFrame(r)
    PROVE  ViewerStep(r)
<1> DEFINE h == Head(queue[r])
           n == IF h.kind = "stream" THEN AfterStream(view[r], h.frame)
                                     ELSE AfterSize(view[r], h.frame)
<1>0. /\ view \in [RelayID -> View] /\ queue \in [RelayID -> Seq(Msg)] /\ view[r] \in View
      /\ view[r].pc = "active" /\ Reads(r, {"stream", "termsize"})
      /\ view' = [view EXCEPT ![r] = n] /\ UNCHANGED relayUp
      /\ conn \in [RelayID -> BOOLEAN] /\ toSharer \in Seq(Letter)
  BY DEF Types, ViewTypes, NetTypes, viewerFrame
<1>1. Pops(r, {"stream", "termsize"}) /\ queue' \in [RelayID -> Seq(Msg)]
      /\ \A s \in RelayID \ {r} : queue'[s] = queue[s]
  BY <1>0, ReadsTyped DEF Pops
<1>2. h.frame \in Frame /\ (h.kind = "stream" <=> h.frame.text[1] = "out")
  BY <1>1 DEF Pops, Msg, BareMsg, KeyMsg, FrameMsg
<1>3. Takes(view[r], h.frame, n)
  BY <1>0, <1>2, StreamTakes, SizeTakes
<1> HIDE DEF n
<1>4. n \in View
  BY <1>3 DEF Takes
<1>5. ViewTypes' /\ view'[r] = n /\ \A s \in RelayID \ {r} : view'[s] = view[s]
  BY <1>0, <1>4, ViewReplaced
<1>6. GetsFrame(r)
  BY <1>0, <1>1, <1>3, <1>5 DEF GetsFrame
<1>7. \/ UNCHANGED <<conn, toSharer>>
      \/ conn' = [conn EXCEPT ![r] = FALSE] /\ ToSharer(r, "left")
  BY DEF viewerFrame
<1>8. /\ conn' \in [RelayID -> BOOLEAN] /\ toSharer' \in Seq(Letter)
      /\ \A s \in RelayID \ {r} : conn'[s] = conn[s]
  BY <1>0, <1>7, ConnReplaced, ToSharerTyped
<1> QED
  BY <1>0, <1>1, <1>5, <1>6, <1>8 DEF Types, ViewerStep, NetTypes, Others

\* A viewer that ends or leaves keeps what it has shown.
LEMMA viewerGoneStep ==
    ASSUME Types, NEW r \in RelayID, viewerEnded(r) \/ viewerLeaves(r)
    PROVE  ViewerStep(r)
<1>0. /\ view \in [RelayID -> View] /\ queue \in [RelayID -> Seq(Msg)] /\ view[r] \in View
      /\ view[r].pc \in Handshake \cup {"active"}
      /\ conn \in [RelayID -> BOOLEAN] /\ toSharer \in Seq(Letter)
      /\ conn' = [conn EXCEPT ![r] = FALSE] /\ UNCHANGED relayUp
  BY DEF Types, ViewTypes, NetTypes, viewerEnded, viewerLeaves, InHandshake, Handshake
<1>1. PICK p \in {"ended", "left"} :
        /\ view' = [view EXCEPT ![r].pc = p]
        /\ p = "ended" => Reads(r, {"session-ended"}) /\ UNCHANGED toSharer
        /\ p = "left" => queue' = [queue EXCEPT ![r] = <<>>] /\ ToSharer(r, "left")
  BY DEF viewerEnded, viewerLeaves
<1> DEFINE n == [view[r] EXCEPT !.pc = p]
<1>2. p \in ViewPC /\ p # "dial" /\ p \notin Handshake
  BY DEF ViewPC, Handshake
<1>3. n \in View
  BY <1>0, <1>2, Zenon DEF View
<1>4. /\ n.pc = p /\ n.key = view[r].key /\ n.lastNonce = view[r].lastNonce
      /\ n.shown = view[r].shown
  BY <1>0 DEF View
<1>5. n.knowsCode = view[r].knowsCode
  BY <1>0, Zenon DEF View
<1>6. ViewTypes' /\ view'[r] = n /\ \A s \in RelayID \ {r} : view'[s] = view[s]
  BY <1>0, <1>1, <1>3, ViewReplaced
<1> HIDE DEF n
<1>7. /\ conn' \in [RelayID -> BOOLEAN] /\ \A s \in RelayID \ {r} : conn'[s] = conn[s]
  BY <1>0, ConnReplaced
<1>8. /\ queue' \in [RelayID -> Seq(Msg)] /\ \A s \in RelayID \ {r} : queue'[s] = queue[s]
      /\ p = "ended" => Pops(r, {"session-ended"})
      /\ p = "left" => queue'[r] = <<>>
  <2>1. CASE p = "ended"
    <3>1. Reads(r, {"session-ended"})
      BY <1>1, <2>1
    <3> QED
      BY <1>0, <2>1, <3>1, ReadsTyped DEF Pops
  <2>2. CASE p = "left"
    <3>1. queue' = [queue EXCEPT ![r] = <<>>]
      BY <1>1, <2>2
    <3>2. <<>> \in Seq(Msg)
      OBVIOUS
    <3>3. /\ queue' \in [RelayID -> Seq(Msg)] /\ queue'[r] = <<>>
          /\ \A s \in RelayID \ {r} : queue'[s] = queue[s]
      BY <1>0, <3>1, <3>2, Zenon
    <3> QED
      BY <2>2, <3>3
  <2> QED
    BY <2>1, <2>2
<1>9. toSharer' \in Seq(Letter)
  BY <1>0, <1>1, ToSharerTyped
<1>a. view[r].pc # "dial"
  BY <1>0 DEF Handshake
<1>b. GoesOn(r)
  BY <1>0, <1>1, <1>2, <1>4, <1>5, <1>6, <1>8, <1>a DEF GoesOn, Pops
<1> QED
  BY <1>0, <1>6, <1>7, <1>8, <1>9, <1>b DEF Types, ViewerStep, NetTypes, Others

\* Every step of a viewer is one of these.
LEMMA RunViewerStep ==
    ASSUME Types, NEW r \in RelayID, RunViewer(r)
    PROVE  ViewerStep(r) /\ UNCHANGED <<vars, sharerVars>>
<1>1. ViewerStep(r)
  BY viewerConnectStep, handshakeSkipsStep, viewerAnswersStep, viewerKeyStep, graceEndsStep,
     viewerFrameStep, viewerGoneStep DEF RunViewer
<1>2. UNCHANGED <<vars, sharerVars>>
  BY DEF RunViewer, viewerConnect, handshakeSkips, viewerExchange, viewerConfirm,
         processKeyDelivery, processRekey, GraceEnds, viewerFrame, viewerEnded, viewerLeaves
<1> QED
  BY <1>1, <1>2

-----------------------------------------------------------------------------
\* The steps of the sharer and the relay.

KeyMessage(id, w) == [kind |-> "key", id |-> id, wrap |-> w]

\* What the sharer or the relay may put into the queue of viewer r.
Sent(r, m) ==
    \/ m \in BareMsg
    \/ \E f \in frames : m = Message(f)
    \/ \E c \in Caller : held[c] # Idle /\ m = Message(held[c])
    \/ loop.pc = "deliver" /\ r = loop.viewer /\ m = KeyMessage(loop.id, loop.wrap)
    \/ \E k \in Revoker : /\ revoke[k].pc = "send" /\ r = revoke[k].to
                          /\ m = KeyMessage(revoke[k].rekey.id, revoke[k].rekey.wrap)

\* The queues of the connected viewers grow by at most one message.
QueuesGrow ==
    /\ queue' \in [RelayID -> Seq(Msg)]
    /\ \A r \in RelayID :
         \/ queue'[r] = queue[r]
         \/ \E m \in Msg : Sent(r, m) /\ conn[r] /\ queue'[r] = Append(queue[r], m)

\* A unicast is an addition to one queue.
LEMMA UnicastGrows ==
    ASSUME Types, NEW r \in RelayID, NEW m \in Msg, Sent(r, m), Unicast(r, m)
    PROVE  QueuesGrow
<1>1. queue \in [RelayID -> Seq(Msg)]
  BY DEF Types, NetTypes
<1> HIDE DEF Sent
<1> QED
  BY <1>1, UnicastTyped DEF QueuesGrow, Unicast

\* A broadcast is an addition to each queue it is not lost for.
LEMMA BroadcastGrows ==
    ASSUME Types, NEW m \in Msg, \A r \in RelayID : Sent(r, m), Broadcast(m)
    PROVE  QueuesGrow
<1>1. queue \in [RelayID -> Seq(Msg)]
  BY DEF Types, NetTypes
<1> QED
  BY <1>1, BroadcastTyped DEF QueuesGrow, Broadcast

\* A step that sends nothing adds nothing.
LEMMA KeptQueuesGrow ==
    ASSUME Types, UNCHANGED queue
    PROVE  QueuesGrow
  BY DEF Types, NetTypes, QueuesGrow

\* Handshake answers.
LEMMA handshakeGrows ==
    ASSUME Types, NEW r \in RelayID, handleInit(r) \/ handleMsgB(r)
    PROVE  QueuesGrow
<1>1. PICK m \in BareMsg : Unicast(r, m)
  BY DEF handleInit, handleMsgB, BareMsg
<1> QED
  BY <1>1, UnicastGrows DEF Msg, Sent

\* Key deliveries and rekeys.
LEMMA deliverKeyGrows ==
    ASSUME Types, deliverKey
    PROVE  QueuesGrow
<1>1. /\ loop.pc = "deliver" /\ loop.viewer \in RelayID
      /\ loop.id \in ViewerID /\ loop.wrap \in Wrap
  BY DEF Types, LoopTypes, deliverKey
<1>2. KeyMessage(loop.id, loop.wrap) \in Msg
  BY <1>1 DEF KeyMessage, Msg, KeyMsg
<1>3. Unicast(loop.viewer, KeyMessage(loop.id, loop.wrap)) \/ UNCHANGED queue
  BY DEF deliverKey, KeyMessage
<1>4. Sent(loop.viewer, KeyMessage(loop.id, loop.wrap))
  BY <1>1 DEF Sent
<1> QED
  BY <1>1, <1>2, <1>3, <1>4, UnicastGrows, KeptQueuesGrow

\* The rekeys of Revoke go to the viewers they were looked up for.
LEMMA revokeSendGrows ==
    ASSUME Types, NEW k \in Revoker, RevokeSend(k)
    PROVE  QueuesGrow
<1> DEFINE m == KeyMessage(revoke[k].rekey.id, revoke[k].rekey.wrap)
<1>1. revoke[k].pc = "send" /\ revoke[k].to \in RelayID /\ revoke[k].rekey \in Rekey
  BY DEF Types, RevokeTypes, RevokeSend
<1>2. m \in Msg
  BY <1>1 DEF KeyMessage, Msg, KeyMsg, Rekey
<1>3. Unicast(revoke[k].to, m) \/ UNCHANGED queue
  BY DEF RevokeSend, KeyMessage
<1>4. Sent(revoke[k].to, m)
  BY <1>1 DEF Sent
<1> QED
  BY <1>1, <1>2, <1>3, <1>4, UnicastGrows, KeptQueuesGrow

\* Frames.
LEMMA frameGrows ==
    ASSUME Types, streamLoopSend \/ SetTermSizeSend \/ joinedSizeSend
    PROVE  QueuesGrow
<1>1. \/ \E c \in Caller : held[c] # Idle /\ Broadcast(Message(held[c]))
      \/ UNCHANGED queue
  BY DEF streamLoopSend, SetTermSizeSend, joinedSizeSend
<1>2. ASSUME NEW c \in Caller, held[c] # Idle, Broadcast(Message(held[c]))
      PROVE  QueuesGrow
  <2>1. held[c] \in Frame
    BY <1>2 DEF Types, SharerTypes
  <2>2. Message(held[c]) \in Msg
    BY <2>1, MessageTyped
  <2>3. \A r \in RelayID : Sent(r, Message(held[c]))
    BY <1>2 DEF Sent
  <2> QED
    BY <1>2, <2>2, <2>3, BroadcastGrows
<1> QED
  BY <1>1, <1>2, KeptQueuesGrow

\* What the relay repeats was sealed before.
LEMMA replayGrows ==
    ASSUME Types, IInv, NEW r \in RelayID, RelayReplays(r)
    PROVE  QueuesGrow
<1>1. PICK f \in frames : queue' = [queue EXCEPT ![r] = Append(queue[r], Message(f))]
  BY DEF RelayReplays
<1>2. Message(f) \in Msg
  BY MessageTyped DEF IInv, TypeOK
<1>3. Sent(r, Message(f)) /\ conn[r] /\ queue \in [RelayID -> Seq(Msg)]
  BY DEF Sent, RelayReplays, Types, NetTypes
<1>4. queue' \in [RelayID -> Seq(Msg)]
  BY <1>1, <1>2, <1>3
<1>5. /\ queue'[r] = Append(queue[r], Message(f))
      /\ \A s \in RelayID \ {r} : queue'[s] = queue[s]
  BY <1>1, <1>3
<1> QED
  BY <1>2, <1>3, <1>4, <1>5 DEF QueuesGrow

\* The end of the session is put at the end of each queue.
LEMMA relayLostGrows ==
    ASSUME Types, RelayLost
    PROVE  QueuesGrow
<1> DEFINE m == [kind |-> "session-ended"]
<1>1. m \in BareMsg /\ m \in Msg /\ queue \in [RelayID -> Seq(Msg)]
  BY DEF BareMsg, Msg, Types, NetTypes
<1>2. queue' = [r \in RelayID |-> IF conn[r] THEN Append(queue[r], m) ELSE queue[r]]
  BY DEF RelayLost
<1> HIDE DEF m
<1>3. \A r \in RelayID : Sent(r, m)
  BY <1>1 DEF Sent
<1>4. queue' \in [RelayID -> Seq(Msg)]
  BY <1>1, <1>2
<1>5. \A r \in RelayID : \/ queue'[r] = queue[r]
                         \/ conn[r] /\ queue'[r] = Append(queue[r], m)
  BY <1>2
<1> QED
  BY <1>1, <1>3, <1>4, <1>5 DEF QueuesGrow

\* Steps that are not a viewer's.
SharerStep ==
    \/ RelayLoop \/ StreamLoop \/ Resize
    \/ \E c \in Caller : EncryptFrameReturn(c)
    \/ \E k \in Revoker : Revoke(k)
    \/ \E r \in RelayID : RelayReplays(r)
    \/ RelayLost \/ RunStart \/ RunEnd \/ Clock

\* No step of the sharer or the relay changes a viewer's own state.
LEMMA SharerKeepsViews ==
    ASSUME SharerStep
    PROVE  UNCHANGED <<view, conn>>
<1> USE DEF netVars
<1>1. ASSUME NEW r \in RelayID,
             \/ handleInit(r) \/ handleMsgB(r) \/ handleRefused(r)
             \/ handleViewerDisconnect(r) \/ \E v \in ViewerID : handleConfirmB(r, v)
      PROVE  UNCHANGED <<view, conn>>
  BY <1>1 DEF handleInit, handleMsgB, handleRefused, handleViewerDisconnect,
              handleConfirmB
<1>2. CASE deliverKey \/ mapViewer \/ viewerJoined \/ joinedSizeEncrypt \/ joinedSizeSend
           \/ removeLeftViewer
  BY <1>2 DEF deliverKey, mapViewer, viewerJoined, joinedSizeEncrypt, joinedSizeSend,
              removeLeftViewer
<1>3. CASE StreamLoop \/ Resize
  BY <1>3 DEF StreamLoop, streamLoopRead, streamLoopSend, Resize, SetTermSize,
              SetTermSizeEncrypt, SetTermSizeSend
<1>4. ASSUME NEW c \in Caller, EncryptFrameReturn(c) PROVE UNCHANGED <<view, conn>>
  BY <1>4 DEF EncryptFrameReturn
<1>5. ASSUME NEW k \in Revoker, Revoke(k) PROVE UNCHANGED <<view, conn>>
  BY <1>5 DEF Revoke, RevokeBegin, RevokeUnmap, RevokeRekey, RevokeSend, RevokeReturn
<1>6. ASSUME NEW r \in RelayID, RelayReplays(r) PROVE UNCHANGED <<view, conn>>
  BY <1>6 DEF RelayReplays
<1>7. CASE RelayLost \/ RunStart \/ RunEnd \/ Clock
  BY <1>7 DEF RelayLost, RunStart, RunEnd, Clock
<1> QED
  BY <1>1, <1>2, <1>3, <1>4, <1>5, <1>6, <1>7 DEF SharerStep, RelayLoop

\* Steps of the sharer and the relay only add to the queues of the viewers.
LEMMA SharerNet ==
    ASSUME Types, IInv, SharerStep
    PROVE  QueuesGrow /\ NetTypes'
<1> USE DEF netVars
<1>0. /\ relayUp \in BOOLEAN /\ toSharer \in Seq(Letter) /\ conn \in [RelayID -> BOOLEAN]
      /\ UNCHANGED conn
  BY SharerKeepsViews DEF Types, NetTypes
<1>1. ASSUME NEW r \in RelayID, handleInit(r) \/ handleMsgB(r)
      PROVE  QueuesGrow /\ UNCHANGED relayUp /\ toSharer' \in Seq(Letter)
  BY <1>0, <1>1, handshakeGrows, ReceivedTyped DEF handleInit, handleMsgB
<1>2. ASSUME NEW r \in RelayID,
             \/ handleRefused(r) \/ handleViewerDisconnect(r)
             \/ \E v \in ViewerID : handleConfirmB(r, v)
      PROVE  QueuesGrow /\ UNCHANGED relayUp /\ toSharer' \in Seq(Letter)
  BY <1>0, <1>2, KeptQueuesGrow, ReceivedTyped
     DEF handleRefused, handleViewerDisconnect, handleConfirmB
<1>3. CASE deliverKey
  BY <1>0, <1>3, deliverKeyGrows DEF deliverKey, NetTypes, QueuesGrow
<1>4. CASE mapViewer \/ viewerJoined \/ joinedSizeEncrypt \/ removeLeftViewer
  BY <1>0, <1>4, KeptQueuesGrow DEF mapViewer, viewerJoined, joinedSizeEncrypt,
     removeLeftViewer, NetTypes, QueuesGrow
<1>5. CASE streamLoopSend \/ SetTermSizeSend \/ joinedSizeSend
  BY <1>0, <1>5, frameGrows DEF streamLoopSend, SetTermSizeSend, joinedSizeSend, NetTypes,
     QueuesGrow
<1>6. CASE streamLoopRead \/ SetTermSize \/ SetTermSizeEncrypt
  BY <1>0, <1>6, KeptQueuesGrow DEF streamLoopRead, SetTermSize, SetTermSizeEncrypt, NetTypes,
     QueuesGrow
<1>7. ASSUME NEW c \in Caller, EncryptFrameReturn(c) PROVE QueuesGrow /\ NetTypes'
  BY <1>0, <1>7, KeptQueuesGrow DEF EncryptFrameReturn, NetTypes, QueuesGrow
<1>8. ASSUME NEW k \in Revoker, Revoke(k) PROVE QueuesGrow /\ NetTypes'
  BY <1>0, <1>8, KeptQueuesGrow, revokeSendGrows DEF Revoke, RevokeBegin, RevokeUnmap,
     RevokeRekey, RevokeSend, RevokeReturn, NetTypes, QueuesGrow
<1>9. ASSUME NEW r \in RelayID, RelayReplays(r) PROVE QueuesGrow /\ NetTypes'
  BY <1>0, <1>9, replayGrows DEF RelayReplays, NetTypes, QueuesGrow
<1>10. CASE RelayLost
  <2>1. QueuesGrow /\ relayUp' = FALSE /\ toSharer' = <<>>
    BY <1>10, relayLostGrows DEF RelayLost
  <2>2. <<>> \in Seq(Letter)
    OBVIOUS
  <2>3. relayUp' \in BOOLEAN /\ toSharer' \in Seq(Letter)
    BY <2>1, <2>2, Zenon
  <2> QED
    BY <1>0, <2>1, <2>3 DEF NetTypes, QueuesGrow
<1>11. CASE RunStart \/ RunEnd \/ Clock
  BY <1>0, <1>11, KeptQueuesGrow DEF RunStart, RunEnd, Clock, NetTypes, QueuesGrow
<1> QED
  BY <1>0, <1>1, <1>2, <1>3, <1>4, <1>5, <1>6, <1>7, <1>8, <1>9, <1>10, <1>11
     DEF SharerStep, RelayLoop, StreamLoop, Resize, NetTypes, QueuesGrow

\* relayLoop's locals keep their types.
LEMMA LoopStep ==
    ASSUME Types, IInv, SharerStep
    PROVE  LoopTypes'
<1>0. LoopTypes /\ IdleLoop \in [pc : LoopPC, viewer : RelayID \cup {None},
                                 id : ViewerID \cup {None}, wrap : Wrap \cup {None},
                                 size : 0..MaxSize]
  BY DEF Types, IdleLoop, LoopPC
<1>1. ASSUME NEW r \in RelayID, NEW v \in ViewerID, handleConfirmB(r, v) PROVE LoopTypes'
  <2> DEFINE w == [auth |-> r, key |-> streamKey, nonce |-> nonce + 1]
             n == [loop EXCEPT !.pc = "deliver", !.viewer = r, !.id = v, !.wrap = w]
  <2>1. w \in Wrap
    BY DEF IInv, TypeOK, Wrap, RelayID
  <2>2. loop' = n
    BY <1>1 DEF handleConfirmB
  <2> HIDE DEF w
  <2>3. n \in [pc : LoopPC, viewer : RelayID \cup {None}, id : ViewerID \cup {None},
               wrap : Wrap \cup {None}, size : 0..MaxSize]
    <3>1. "deliver" \in LoopPC
      BY DEF LoopPC
    <3> QED
      BY <1>0, <2>1, <3>1, Zenon DEF LoopTypes
  <2>4. n.viewer = r /\ n.id = v /\ n.wrap = w
    BY <1>0 DEF LoopTypes
  <2> QED
    BY <2>1, <2>2, <2>3, <2>4 DEF LoopTypes
<1>2. CASE deliverKey
  <2> DEFINE n == [loop EXCEPT !.pc = "map", !.wrap = None]
  <2>1. loop' = n \/ loop' = IdleLoop
    BY <1>2 DEF deliverKey
  <2>2. CASE loop' = IdleLoop
    BY <1>0, <2>2 DEF LoopTypes, IdleLoop
  <2>3. CASE loop' = n
    <3>1. n \in [pc : LoopPC, viewer : RelayID \cup {None}, id : ViewerID \cup {None},
                 wrap : Wrap \cup {None}, size : 0..MaxSize]
      <4>1. "map" \in LoopPC
        BY DEF LoopPC
      <4> QED
        BY <1>0, <4>1, Zenon DEF LoopTypes
    <3>2. n.pc = "map" /\ n.viewer = loop.viewer /\ n.id = loop.id
      BY <1>0 DEF LoopTypes
    <3>3. loop.viewer \in RelayID /\ loop.id \in ViewerID
      BY <1>0, <1>2 DEF LoopTypes, deliverKey
    <3> HIDE DEF n
    <3> QED
      BY <2>3, <3>1, <3>2, <3>3 DEF LoopTypes
  <2> QED
    BY <2>1, <2>2, <2>3
<1>3. CASE mapViewer \/ joinedSizeEncrypt
  BY <1>0, <1>3 DEF mapViewer, joinedSizeEncrypt, LoopTypes, LoopPC
<1>4. CASE viewerJoined
  <2>1. termSize \in 0..MaxSize
    BY DEF Types, CallsAreTyped
  <2> QED
    BY <1>0, <1>4, <2>1 DEF viewerJoined, LoopTypes, LoopPC, IdleLoop
<1>5. CASE joinedSizeSend \/ removeLeftViewer \/ RunStart
  BY <1>0, <1>5 DEF joinedSizeSend, removeLeftViewer, RunStart, LoopTypes, IdleLoop
<1>6. ASSUME NEW r \in RelayID, handleViewerDisconnect(r) PROVE LoopTypes'
  <2>1. CASE UNCHANGED loop
    BY <1>0, <2>1 DEF LoopTypes
  <2>2. ASSUME NEW v \in ViewerID, loop' = [loop EXCEPT !.pc = "remove", !.id = v]
        PROVE  LoopTypes'
    <3> DEFINE n == [loop EXCEPT !.pc = "remove", !.id = v]
    <3>1. n \in [pc : LoopPC, viewer : RelayID \cup {None}, id : ViewerID \cup {None},
                 wrap : Wrap \cup {None}, size : 0..MaxSize]
      <4>1. "remove" \in LoopPC
        BY DEF LoopPC
      <4> QED
        BY <1>0, <4>1, Zenon DEF LoopTypes
    <3>2. n.pc = "remove" /\ n.id = v
      BY <1>0 DEF LoopTypes
    <3> QED
      BY <2>2, <3>1, <3>2 DEF LoopTypes
  <2> QED
    BY <1>6, <2>1, <2>2 DEF handleViewerDisconnect
<1>7. CASE UNCHANGED loop
  BY <1>0, <1>7 DEF LoopTypes
<1>8. ASSUME NEW r \in RelayID, handleInit(r) \/ handleMsgB(r) \/ handleRefused(r)
      PROVE  UNCHANGED loop
  BY <1>8 DEF handleInit, handleMsgB, handleRefused
<1>9. ASSUME StreamLoop \/ Resize \/ RelayLost \/ RunEnd \/ Clock
      PROVE  UNCHANGED loop
  BY <1>9 DEF StreamLoop, streamLoopRead, streamLoopSend, Resize, SetTermSize,
              SetTermSizeEncrypt, SetTermSizeSend, RelayLost, RunEnd, Clock, sharerVars
<1>10. ASSUME NEW c \in Caller, EncryptFrameReturn(c) PROVE UNCHANGED loop
  BY <1>10 DEF EncryptFrameReturn
<1>11. ASSUME NEW k \in Revoker, Revoke(k) PROVE UNCHANGED loop
  BY <1>11 DEF Revoke, RevokeBegin, RevokeUnmap, RevokeRekey, RevokeSend, RevokeReturn
<1>12. ASSUME NEW r \in RelayID, RelayReplays(r) PROVE UNCHANGED loop
  BY <1>12 DEF RelayReplays, sharerVars
<1> QED
  BY <1>1, <1>2, <1>3, <1>4, <1>5, <1>6, <1>7, <1>8, <1>9, <1>10, <1>11, <1>12
     DEF SharerStep, RelayLoop

\* RevokeViewer hands Revoke one new wrap for every remaining viewer.
LEMMA NewWrapIs ==
    ASSUME IInv, TypeOK', NEW v \in ViewerID, RevokeViewer(v), NEW u \in Remaining(v)
    PROVE  /\ NewWrap(viewers[u]) \in wraps' /\ NewWrap(viewers[u]) \in Wrap
           /\ NewWrap(viewers[u]).auth = viewers[u]
           /\ NewWrap(viewers[u]).key = streamKey + 1
<1>0. TypeOK
  BY DEF IInv
<1>1. PICK n \in Nat : \E ord \in [Remaining(v) -> 1..n] : RekeyEffect(v, n, ord)
  BY <1>0, RevokeEffect
<1>2. PICK ord \in [Remaining(v) -> 1..n] : RekeyEffect(v, n, ord)
  BY <1>1
<1> DEFINE w == RekeyWrap(ord, u)
<1>3. w \in wraps' /\ w.auth = viewers[u] /\ w.nonce = nonce + ord[u]
  BY <1>2 DEF RekeyEffect, RekeyWrap
<1>4. w.nonce > nonce
  BY <1>0, <1>2, <1>3 DEF TypeOK
<1>5. w \notin wraps
  BY <1>0, <1>4 DEF IInv, HistoryBounded, TypeOK, Wrap
<1> HIDE DEF w
<1>6. \E x \in wraps' \ wraps : x.auth = viewers[u]
  BY <1>3, <1>5
<1>7. NewWrap(viewers[u]) \in wraps' \ wraps /\ NewWrap(viewers[u]).auth = viewers[u]
  BY <1>6 DEF NewWrap
<1>8. \A x \in wraps' \ wraps : x.key = streamKey + 1
  BY <1>2 DEF RekeyEffect, RekeyWrap
<1> QED
  BY <1>7, <1>8 DEF TypeOK

\* Replacing the state of one Revoke call.
LEMMA RevokeReplaced ==
    ASSUME RevokeTypes, NEW k \in Revoker, NEW n \in RevokeState,
           revoke' = [revoke EXCEPT ![k] = n],
           n.pc = "unmap" => n.id \in ViewerID,
           n.pc = "send" => n.rekey \in Rekey /\ n.to \in RelayID
    PROVE  /\ RevokeTypes' /\ revoke'[k] = n
           /\ \A j \in Revoker \ {k} : revoke'[j] = revoke[j]
<1>1. revoke' \in [Revoker -> RevokeState] /\ revoke'[k] = n
      /\ \A j \in Revoker \ {k} : revoke'[j] = revoke[j]
  BY Zenon DEF RevokeTypes
<1> QED
  BY <1>1 DEF RevokeTypes

\* Revoke, step by step: the state of the call and what it does to the map.
LEMMA revokeBeginStep ==
    ASSUME Types, IInv, TypeOK', NEW k \in Revoker, NEW v \in ViewerID, RevokeBegin(k, v)
    PROVE  /\ RevokeTypes' /\ revoke'[k].pc = "unmap" /\ revoke'[k].to = revoke[k].to
           /\ revoke'[k].rekeys =
                {[id |-> u, wrap |-> NewWrap(viewers[u])] : u \in Remaining(v)}
           /\ \A rk \in revoke'[k].rekeys : rk.wrap \in wraps'
           /\ \A j \in Revoker \ {k} : revoke'[j] = revoke[j]
<1> DEFINE ks == {[id |-> u, wrap |-> NewWrap(viewers[u])] : u \in Remaining(v)}
           n  == [revoke[k] EXCEPT !.pc = "unmap", !.id = v, !.rekeys = ks]
<1>0. RevokeTypes /\ revoke[k] \in RevokeState /\ RevokeViewer(v)
  BY DEF Types, RevokeTypes, RevokeBegin
<1>1. revoke' = [revoke EXCEPT ![k] = n]
  BY DEF RevokeBegin
<1>2. ks \in SUBSET Rekey /\ \A rk \in ks : rk.wrap \in wraps'
  <2> SUFFICES ASSUME NEW u \in Remaining(v)
               PROVE  /\ [id |-> u, wrap |-> NewWrap(viewers[u])] \in Rekey
                      /\ [id |-> u, wrap |-> NewWrap(viewers[u])].wrap \in wraps'
    BY Zenon
  <2>1. NewWrap(viewers[u]) \in wraps' /\ NewWrap(viewers[u]) \in Wrap
    BY <1>0, NewWrapIs
  <2>2. u \in ViewerID
    BY DEF Remaining, ListViewers
  <2> QED
    BY <2>1, <2>2 DEF Rekey
<1> HIDE DEF ks
<1>3. "unmap" \in RevokePC
  BY DEF RevokePC
<1>4. n \in RevokeState
  BY <1>0, <1>2, <1>3, Zenon DEF RevokeState
<1>5. n.pc = "unmap" /\ n.id = v /\ n.rekeys = ks /\ n.to = revoke[k].to
  BY <1>0 DEF RevokeState
<1> HIDE DEF n
<1>6. RevokeTypes' /\ revoke'[k] = n /\ \A j \in Revoker \ {k} : revoke'[j] = revoke[j]
  BY <1>0, <1>1, <1>4, <1>5, RevokeReplaced
<1> QED
  BY <1>2, <1>5, <1>6 DEF ks

RevokeGoes(k, n) ==
    /\ revoke' = [revoke EXCEPT ![k] = n]
    /\ n.rekeys \subseteq revoke[k].rekeys /\ n.pc # "unmap"
    /\ n.pc = "send" => n.rekey \in revoke[k].rekeys /\ n.to \in RelayID
    /\ n.to \in {None, revoke[k].to} \cup {viewerIDMap[v] : v \in ViewerID}

\* The later steps of Revoke send what RevokeViewer returned, to whom viewerIDMap names.
LEMMA revokeOnStep ==
    ASSUME Types, NEW k \in Revoker,
           \/ RevokeUnmap(k) \/ RevokeSend(k) \/ RevokeReturn(k)
           \/ \E rk \in revoke[k].rekeys : RevokeRekey(k, rk)
    PROVE  /\ RevokeTypes' /\ revoke'[k].rekeys \subseteq revoke[k].rekeys
           /\ revoke'[k].pc = "send" => revoke'[k].rekey \in revoke[k].rekeys
           /\ revoke'[k].to \in {None, revoke[k].to} \cup {viewerIDMap[v] : v \in ViewerID}
           /\ \A j \in Revoker \ {k} : revoke'[j] = revoke[j]
<1>0. RevokeTypes /\ revoke[k] \in RevokeState /\ viewerIDMap \in [ViewerID -> RelayID \cup {None}]
  BY DEF Types, RevokeTypes, SharerTypes
<1>1. IdleRevoke \in RevokeState
  BY DEF IdleRevoke, RevokeState, RevokePC
<1>2. {"idle", "unmap", "rekey", "send", "done"} = RevokePC /\ None \in Rekey \cup {None}
      /\ None \in RelayID \cup {None}
  BY DEF RevokePC
<1>3. SUFFICES \E n \in RevokeState : RevokeGoes(k, n)
  <2> PICK n \in RevokeState : RevokeGoes(k, n)
    BY <1>3
  <2>1. n.pc = "send" => n.rekey \in Rekey
    BY <1>0 DEF RevokeState, RevokeGoes
  <2>2. RevokeTypes' /\ revoke'[k] = n /\ \A j \in Revoker \ {k} : revoke'[j] = revoke[j]
    BY <1>0, <2>1, RevokeReplaced DEF RevokeGoes
  <2> QED
    BY <2>2 DEF RevokeGoes
<1>4. CASE RevokeUnmap(k)
  <2> DEFINE n == [revoke[k] EXCEPT !.pc = "rekey"]
  <2>1. n \in RevokeState
    BY <1>0, <1>2, Zenon DEF RevokeState
  <2>2. n.pc = "rekey" /\ n.rekeys = revoke[k].rekeys /\ n.to = revoke[k].to
    BY <1>0 DEF RevokeState
  <2>3. revoke' = [revoke EXCEPT ![k] = n]
    BY <1>4 DEF RevokeUnmap
  <2> HIDE DEF n
  <2> QED
    BY <2>1, <2>2, <2>3 DEF RevokeGoes
<1>5. CASE RevokeReturn(k) \/ (RevokeSend(k) /\ revoke' = [revoke EXCEPT ![k] =
                                                           [IdleRevoke EXCEPT !.pc = "done"]])
  <2> DEFINE n == [IdleRevoke EXCEPT !.pc = "done"]
  <2>1. n \in RevokeState
    BY <1>1, <1>2, Zenon DEF RevokeState
  <2>2. n.pc = "done" /\ n.rekeys = {} /\ n.to = None
    BY DEF IdleRevoke
  <2>3. revoke' = [revoke EXCEPT ![k] = n]
    BY <1>5 DEF RevokeReturn
  <2> HIDE DEF n
  <2> QED
    BY <2>1, <2>2, <2>3 DEF RevokeGoes
<1>6. CASE RevokeSend(k) /\ revoke' = [revoke EXCEPT ![k].pc = "rekey", ![k].rekey = None,
                                                      ![k].to = None]
  <2> DEFINE n == [revoke[k] EXCEPT !.pc = "rekey", !.rekey = None, !.to = None]
  <2>1. n \in RevokeState
    BY <1>0, <1>2, Zenon DEF RevokeState
  <2>2. n.pc = "rekey" /\ n.rekeys = revoke[k].rekeys /\ n.to = None
    BY <1>0 DEF RevokeState
  <2>3. revoke' = [revoke EXCEPT ![k] = n]
    BY <1>0, <1>6 DEF RevokeState, RevokeTypes
  <2> HIDE DEF n
  <2> QED
    BY <2>1, <2>2, <2>3 DEF RevokeGoes
<1>7. ASSUME NEW rk \in revoke[k].rekeys, RevokeRekey(k, rk), viewerIDMap[rk.id] # None
      PROVE  \E n \in RevokeState : RevokeGoes(k, n)
  <2> DEFINE ks == revoke[k].rekeys \ {rk}
             to == viewerIDMap[rk.id]
             n  == [revoke[k] EXCEPT !.pc = "send", !.rekeys = ks, !.rekey = rk, !.to = to]
  <2>1. rk \in Rekey /\ rk.id \in ViewerID
    BY <1>0 DEF RevokeState, Rekey
  <2>2. to \in RelayID /\ ks \in SUBSET Rekey
    BY <1>0, <1>7, <2>1 DEF RevokeState
  <2>3. revoke' = [revoke EXCEPT ![k] = n]
    BY <1>0, <1>7 DEF RevokeRekey, RevokeState, RevokeTypes
  <2>4. ks \subseteq revoke[k].rekeys /\ to \in {viewerIDMap[v] : v \in ViewerID}
    BY <2>1
  <2> HIDE DEF ks, to
  <2>5. n \in RevokeState
    BY <1>0, <1>2, <2>1, <2>2, Zenon DEF RevokeState
  <2>6. n.pc = "send" /\ n.rekeys = ks /\ n.rekey = rk /\ n.to = to
    BY <1>0 DEF RevokeState
  <2> HIDE DEF n
  <2> QED
    BY <2>2, <2>3, <2>4, <2>5, <2>6 DEF RevokeGoes
<1>8. ASSUME NEW rk \in revoke[k].rekeys, RevokeRekey(k, rk), viewerIDMap[rk.id] = None
      PROVE  \E n \in RevokeState : RevokeGoes(k, n)
  <2> DEFINE ks == revoke[k].rekeys \ {rk}
             n  == [revoke[k] EXCEPT !.rekeys = ks]
  <2>1. ks \in SUBSET Rekey /\ ks \subseteq revoke[k].rekeys
    BY <1>0 DEF RevokeState
  <2>2. revoke' = [revoke EXCEPT ![k] = n] /\ revoke[k].pc = "rekey"
    BY <1>8 DEF RevokeRekey
  <2> HIDE DEF ks
  <2>3. n \in RevokeState
    BY <1>0, <2>1, Zenon DEF RevokeState
  <2>4. n.pc = revoke[k].pc /\ n.rekeys = ks /\ n.to = revoke[k].to
    BY <1>0 DEF RevokeState
  <2> HIDE DEF n
  <2> QED
    BY <2>1, <2>2, <2>3, <2>4 DEF RevokeGoes
<1> QED
  BY <1>4, <1>5, <1>6, <1>7, <1>8 DEF RevokeSend, RevokeRekey

\* The state of the Revoke calls keeps its type.
LEMMA RevokesStep ==
    ASSUME Types, IInv, TypeOK', SharerStep
    PROVE  RevokeTypes'
<1>1. ASSUME NEW k \in Revoker, Revoke(k) PROVE RevokeTypes'
  BY <1>1, revokeBeginStep, revokeOnStep DEF Revoke
<1>2. CASE UNCHANGED revoke
  BY <1>2 DEF Types, RevokeTypes
<1>3. ASSUME NEW r \in RelayID,
             \/ handleInit(r) \/ handleMsgB(r) \/ handleRefused(r)
             \/ handleViewerDisconnect(r) \/ \E v \in ViewerID : handleConfirmB(r, v)
             \/ RelayReplays(r)
      PROVE  UNCHANGED revoke
  BY <1>3 DEF handleInit, handleMsgB, handleRefused, handleViewerDisconnect,
              handleConfirmB, RelayReplays, sharerVars
<1>4. ASSUME \/ deliverKey \/ mapViewer \/ viewerJoined \/ joinedSizeEncrypt \/ joinedSizeSend
             \/ removeLeftViewer
      PROVE  UNCHANGED revoke
  BY <1>4 DEF deliverKey, mapViewer, viewerJoined, joinedSizeEncrypt, joinedSizeSend,
              removeLeftViewer
<1>5. ASSUME StreamLoop \/ Resize \/ RelayLost \/ RunStart \/ RunEnd \/ Clock
      PROVE  UNCHANGED revoke
  BY <1>5 DEF StreamLoop, streamLoopRead, streamLoopSend, Resize, SetTermSize,
              SetTermSizeEncrypt, SetTermSizeSend, RelayLost, RunStart, RunEnd, Clock, sharerVars
<1>6. ASSUME NEW c \in Caller, EncryptFrameReturn(c) PROVE UNCHANGED revoke
  BY <1>6 DEF EncryptFrameReturn
<1> QED
  BY <1>1, <1>2, <1>3, <1>4, <1>5, <1>6 DEF SharerStep, RelayLoop

\* handshakes, viewerIDMap, the frames held and the history keep their types.
LEMMA SharersStep ==
    ASSUME Types, IInv, SharerStep
    PROVE  SharerTypes'
<1>0. SharerTypes /\ LoopTypes /\ RevokeTypes
  BY DEF Types
<1> USE <1>0 DEF SharerTypes
<1>1. ASSUME NEW r \in RelayID,
             handleInit(r) \/ handleMsgB(r) \/ handleRefused(r) \/ RelayReplays(r)
      PROVE  SharerTypes'
  BY <1>1 DEF handleInit, handleMsgB, handleRefused, RelayReplays, sharerVars
<1>2. ASSUME NEW r \in RelayID, NEW v \in ViewerID, handleConfirmB(r, v)
      PROVE  SharerTypes'
  BY <1>2 DEF handleConfirmB
<1>3. ASSUME NEW r \in RelayID, handleViewerDisconnect(r) PROVE SharerTypes'
  BY <1>3 DEF handleViewerDisconnect, Unmapped
<1>4. CASE deliverKey
  BY <1>4 DEF deliverKey, LoopTypes
<1>5. CASE mapViewer
  BY <1>5 DEF mapViewer, MapEntry, LoopTypes
<1>6. CASE viewerJoined \/ joinedSizeEncrypt \/ removeLeftViewer
  BY <1>6 DEF viewerJoined, joinedSizeEncrypt, removeLeftViewer
<1>7. CASE joinedSizeSend \/ streamLoopSend \/ SetTermSizeSend
  BY <1>7 DEF joinedSizeSend, streamLoopSend, SetTermSizeSend
<1>8. CASE streamLoopRead \/ SetTermSize \/ SetTermSizeEncrypt
  BY <1>8 DEF streamLoopRead, SetTermSize, SetTermSizeEncrypt
<1>9. ASSUME NEW c \in Caller, EncryptFrameReturn(c) PROVE SharerTypes'
  <2> DEFINE f == [text |-> pending[c].text, epoch |-> pending[c].epoch,
                   key |-> pending[c].key, nonce |-> nonce + 1]
  <2>1. pending[c] \in [text : Plaintext, epoch : Nat, key : Nat] /\ nonce \in Nat
    BY <1>9 DEF EncryptFrameReturn, EncryptFrameSeal, IInv, TypeOK
  <2>2. f \in Frame
    BY <2>1 DEF Frame
  <2>3. held' = [held EXCEPT ![c] = f] /\ UNCHANGED <<handshakes, viewerIDMap, missed>>
    BY <1>9 DEF EncryptFrameReturn
  <2> HIDE DEF f
  <2> QED
    BY <2>2, <2>3
<1>10. ASSUME NEW k \in Revoker, NEW rk \in revoke[k].rekeys, RevokeRekey(k, rk)
       PROVE  SharerTypes'
  <2>1. rk.wrap.auth \in RelayID
    BY <1>10 DEF RevokeTypes, RevokeState, Rekey, Wrap, RelayID
  <2> QED
    BY <1>10, <2>1 DEF RevokeRekey
<1>11. ASSUME NEW k \in Revoker, RevokeUnmap(k) PROVE SharerTypes'
  BY <1>11 DEF RevokeUnmap, RevokeTypes
<1>12. ASSUME NEW k \in Revoker, RevokeReturn(k) \/ \E v \in ViewerID : RevokeBegin(k, v)
       PROVE  SharerTypes'
  BY <1>12 DEF RevokeReturn, RevokeBegin
<1>14. ASSUME NEW k \in Revoker, RevokeSend(k) PROVE SharerTypes'
  <2>1. revoke[k].rekey.wrap.auth \in RelayID
    BY <1>14 DEF RevokeSend, RevokeTypes, Rekey, Wrap, RelayID
  <2> QED
    BY <1>14, <2>1 DEF RevokeSend
<1>13. CASE RelayLost \/ RunStart \/ RunEnd \/ Clock
  BY <1>13 DEF RelayLost, RunStart, RunEnd, Clock, sharerVars
<1> QED
  BY <1>1, <1>2, <1>3, <1>4, <1>5, <1>6, <1>7, <1>8, <1>9, <1>10, <1>11, <1>12, <1>13,
     <1>14 DEF SharerStep, RelayLoop, StreamLoop, Resize, Revoke

\* The session's invariant, at hand in every step of the system.
LEMMA SessionInvariant == SharingSpec => [](IInv /\ CallsAreTyped)
  BY SharingImplementsSession, Inductive, CallsTyped, PTL

\* Steps of the whole system.
LEMMA Steps ==
    ASSUME [SharingNext]_allVars
    PROVE  SharerStep \/ (\E r \in RelayID : RunViewer(r)) \/ UNCHANGED allVars
  BY DEF SharingNext, SharerStep

\* The types hold in the initial states.
LEMMA InitTypes == Init /\ CallsAreTyped => Types
<1> SUFFICES ASSUME Init, CallsAreTyped PROVE Types
  OBVIOUS
<1>1. LoopTypes
  BY DEF Init, LoopTypes, LoopPC, IdleLoop
<1>2. RevokeTypes
  <2>1. IdleRevoke \in RevokeState /\ IdleRevoke.pc = "idle"
    BY DEF IdleRevoke, RevokeState, RevokePC
  <2> QED
    BY <2>1 DEF Init, RevokeTypes
<1>3. SharerTypes
  BY DEF Init, SharerTypes
<1>4. NetTypes
  <2>1. conn \in [RelayID -> BOOLEAN]
    BY Zenon DEF Init
  <2>2. <<>> \in Seq(Letter) /\ <<>> \in Seq(Msg)
    OBVIOUS
  <2>3. toSharer \in Seq(Letter) /\ relayUp \in BOOLEAN
    BY <2>2, Zenon DEF Init
  <2>4. queue \in [RelayID -> Seq(Msg)]
    BY <2>2, Zenon DEF Init
  <2> QED
    BY <2>1, <2>3, <2>4 DEF NetTypes
<1>5. ViewTypes
  <2>1. <<>> \in Seq(1..MaxOutput)
    OBVIOUS
  <2>2. "dial" \in ViewPC /\ 0 \in 0..MaxSize
    BY DEF ViewPC
  <2>3. NewView \in View
    BY <2>1, <2>2 DEF NewView, View
  <2> QED
    BY <2>3 DEF Init, ViewTypes
<1> QED
  BY <1>1, <1>2, <1>3, <1>4, <1>5 DEF Types

\* Every step of the system preserves the types.
LEMMA NextTypes ==
    ASSUME Types, IInv, IInv', CallsAreTyped', [SharingNext]_allVars
    PROVE  Types'
<1>1. CASE SharerStep
  <2>1. TypeOK'
    BY DEF IInv
  <2>2. ViewTypes'
    BY <1>1, SharerKeepsViews DEF Types, ViewTypes
  <2> QED
    BY <1>1, <2>1, <2>2, SharerNet, LoopStep, RevokesStep, SharersStep DEF Types
<1>2. ASSUME NEW r \in RelayID, RunViewer(r) PROVE Types'
  <2>1. ViewerStep(r) /\ UNCHANGED <<vars, sharerVars>>
    BY <1>2, RunViewerStep
  <2>2. ViewTypes' /\ NetTypes'
    BY <2>1 DEF ViewerStep
  <2>3. LoopTypes' /\ RevokeTypes' /\ SharerTypes'
    BY <2>1 DEF Types, sharerVars, LoopTypes, RevokeTypes, SharerTypes
  <2> QED
    BY <2>2, <2>3 DEF Types
<1>3. CASE UNCHANGED allVars
  BY <1>3 DEF allVars, sharerVars, netVars, Types, LoopTypes, RevokeTypes, SharerTypes,
              NetTypes, ViewTypes
<1> QED
  BY <1>1, <1>2, <1>3, Steps

\* All of the state keeps its type: no message, no local of a goroutine and
\* no field of a viewer is ever used before it is set.
THEOREM TypesHold == SharingSpec => []Types
<1>1. Init /\ CallsAreTyped => Types
  BY InitTypes
<1>2. Types /\ IInv /\ IInv' /\ CallsAreTyped' /\ [SharingNext]_allVars => Types'
  BY NextTypes
<1> QED
  BY <1>1, <1>2, SessionInvariant, PTL DEF SharingSpec

\* In particular the variables have the types the model states.
THEOREM SharingTypeCorrect == SharingSpec => []SharingTypeOK
  BY TypesHold, TypesSuffice, PTL

-----------------------------------------------------------------------------
\* Whose keys are where.

OwnKey(r, m) == m.kind = "key" /\ m.wrap.auth = r

\* The sharer knows viewer r, or is about to: keys may be sent to it.
Answered(r) ==
    \/ \E v \in ViewerID : viewerIDMap[v] = r
    \/ \E k \in Revoker : revoke[k].to = r
    \/ loop.pc = "map" /\ loop.viewer = r

\* A viewer that has not dialled knows nothing; one in the handshake is connected.
Beginnings ==
    \A r \in RelayID : /\ view[r].pc = "dial" => ~view[r].knowsCode
                       /\ view[r].pc \in Handshake => conn[r]

\* The keys on their way were sealed by the session and are meant for viewers
\* that are registered.
KeysOnTheWay ==
    /\ \A r \in RelayID : \A i \in 1..Len(queue[r]) :
         queue[r][i].kind = "key" => status[r] # "fresh" /\ queue[r][i].wrap \in wraps
    /\ \A r \in RelayID : Answered(r) => status[r] # "fresh"
    /\ loop.pc = "deliver" => /\ status[loop.viewer] # "fresh"
                              /\ loop.wrap \in wraps /\ loop.wrap.auth = loop.viewer
    /\ \A k \in Revoker : /\ \A rk \in revoke[k].rekeys : rk.wrap \in wraps
                          /\ revoke[k].pc = "send" => revoke[k].rekey.wrap \in wraps

\* The first key that reaches a viewer in its handshake is its own, although
\* Revoke calls may already be sending it others.
FirstKeyIsOwn ==
    \A r \in RelayID : view[r].pc \in Handshake =>
        /\ \A i \in 1..Len(queue[r]) :
             queue[r][i].kind = "key" => \E j \in 1..i : OwnKey(r, queue[r][j])
        /\ Answered(r) => \E j \in 1..Len(queue[r]) : OwnKey(r, queue[r][j])

\* A viewer holds no key but one that the session sealed for it.
KeysHeldAreOwn ==
    \A r \in RelayID : view[r].key # 0 => \E w \in wraps : w.auth = r /\ w.key = view[r].key

KeyInv ==
    /\ Beginnings
    /\ KeyOnlyWithCode
    /\ KeysOnTheWay
    /\ FirstKeyIsOwn
    /\ KeysHeldAreOwn

\* Where the output is.
Out(f) == f.text[1] = "out"

\* The nonces number the chunks of output in the order in which they are read.
OutputNumbered ==
    /\ \A f, g \in frames : Out(f) /\ Out(g) /\ f.nonce < g.nonce => f.text[2] < g.text[2]
    /\ \A f \in frames : Out(f) => f.text[2] <= output
    /\ pending["stream"] # Idle => /\ pending["stream"].text = <<"out", output>>
                                   /\ \A f \in frames : Out(f) => f.text[2] < output
    /\ \A c \in {"relay", "resize"} : pending[c] # Idle => pending[c].text[1] # "out"

\* What is held, travels and is shown has been sealed.
FramesAreSealed ==
    /\ \A c \in Caller : held[c] # Idle => held[c] \in frames
    /\ \A r \in RelayID : \A i \in 1..Len(queue[r]) :
         queue[r][i].kind \in {"stream", "termsize"} => queue[r][i].frame \in frames

ShownIsSealed ==
    \A r \in RelayID : \A i \in 1..Len(view[r].shown) :
        \E f \in frames : Out(f) /\ f.text[2] = view[r].shown[i] /\ f.nonce <= view[r].lastNonce

OutputInv ==
    /\ OutputNumbered
    /\ FramesAreSealed
    /\ ShownIsSealed
    /\ ShownInOrder
    /\ RevokedSeesNothingNew

\* Who is in viewerIDMap, when IDs do not collide.
MapInv ==
    /\ MapLeadsToOwner
    /\ \A v \in ViewerID : viewerIDMap[v] # None =>
         /\ status[viewerIDMap[v]] # "fresh"
         /\ closed \/ v \in ListViewers \cup revokedIDs
    /\ loop.pc \in {"deliver", "map"} =>
         /\ status[loop.viewer] # "fresh"
         /\ closed \/ loop.id \in ListViewers \cup revokedIDs
         /\ loop.id \in ListViewers => viewers[loop.id] = loop.viewer
         /\ viewerIDMap[loop.id] = None
         /\ \A u \in ViewerID : viewerIDMap[u] # loop.viewer
    /\ loop.pc = "remove" => viewerIDMap[loop.id] = None

-----------------------------------------------------------------------------
\* What a step of the sharer does to the histories, its locals and the map.

\* Histories grow; a viewer is registered once it has shown that it knows the code.
HistoryGoes ==
    /\ wraps \subseteq wraps' /\ frames \subseteq frames'
    /\ \A a \in RelayID : status[a] # "fresh" => status'[a] # "fresh"
    /\ \A a \in RelayID : status[a] = "fresh" /\ status'[a] # "fresh" => view[a].knowsCode

\* relayLoop delivers a key the session has just sealed for the viewer, and
\* maps the viewer only when that key has been sent.
LoopGoes ==
    /\ loop'.pc = "deliver" =>
         \/ loop.pc = "deliver" /\ loop'.viewer = loop.viewer /\ loop'.wrap = loop.wrap
         \/ /\ loop'.viewer \in RelayID /\ status'[loop'.viewer] # "fresh"
            /\ loop'.wrap \in wraps' /\ loop'.wrap.auth = loop'.viewer
    /\ loop'.pc = "map" =>
         /\ loop'.viewer = loop.viewer /\ loop.viewer \in RelayID
         /\ \/ loop.pc = "map"
            \/ /\ loop.pc = "deliver"
               /\ conn[loop.viewer] =>
                    queue'[loop.viewer] = Append(queue[loop.viewer],
                                                 KeyMessage(loop.id, loop.wrap))

MapGoes ==
    \A v \in ViewerID : \/ viewerIDMap'[v] \in {None, viewerIDMap[v]}
                        \/ loop.pc = "map" /\ viewerIDMap'[v] = loop.viewer

RevokesGo ==
    \A k \in Revoker :
        /\ \A rk \in revoke'[k].rekeys : rk \in revoke[k].rekeys \/ rk.wrap \in wraps'
        /\ revoke'[k].pc = "send" =>
             \/ revoke'[k].rekey \in revoke[k].rekeys
             \/ revoke[k].pc = "send" /\ revoke'[k].rekey = revoke[k].rekey
        /\ revoke'[k].to \in {None, revoke[k].to} \cup {viewerIDMap[v] : v \in ViewerID}

\* The operations of the session, on the histories.
LEMMA SessionHistory ==
    ASSUME IInv, [Next]_vars
    PROVE  /\ wraps \subseteq wraps' /\ frames \subseteq frames'
           /\ \A a \in AuthKey : status[a] # "fresh" => status'[a] # "fresh"
           /\ \A a \in AuthKey : status[a] = "fresh" /\ status'[a] # "fresh" =>
                \E v \in ViewerID : RegisterViewer(v, a)
<1>0. status \in [AuthKey -> Fate] /\ viewers \in [ViewerID -> AuthKey \cup {NoAuth}]
      /\ \A v \in ListViewers : status[viewers[v]] = "member"
  BY DEF IInv, TypeOK, ViewersAreMembers
<1>1. ASSUME NEW v \in ViewerID, NEW b \in AuthKey, RegisterViewer(v, b)
      PROVE  /\ wraps \subseteq wraps' /\ frames \subseteq frames'
             /\ \A a \in AuthKey : status[a] # "fresh" => status'[a] # "fresh"
             /\ \A a \in AuthKey : status[a] = "fresh" /\ status'[a] # "fresh" => a = b
  BY <1>0, <1>1 DEF RegisterViewer, Fate
<1>2. ASSUME NEW v \in ViewerID, RevokeViewer(v) \/ RemoveViewer(v)
      PROVE  /\ wraps \subseteq wraps' /\ frames \subseteq frames'
             /\ \A a \in AuthKey : status[a] = "fresh" <=> status'[a] = "fresh"
  <2>1. v \in ListViewers /\ viewers[v] \in AuthKey /\ status[viewers[v]] = "member"
    BY <1>0, <1>2 DEF RevokeViewer, RemoveViewer, ListViewers
  <2>2. \/ status' = [status EXCEPT ![viewers[v]] = "revoked"]
        \/ status' = [status EXCEPT ![viewers[v]] = "left"]
    BY <1>2 DEF RevokeViewer, RemoveViewer
  <2>3. wraps \subseteq wraps' /\ frames' = frames
    BY <1>2 DEF RevokeViewer, RemoveViewer
  <2> QED
    BY <1>0, <2>1, <2>2, <2>3
<1>3. CASE \/ \E c \in Caller, p \in Plaintext : EncryptFrameBegin(c, p)
           \/ \E c \in Caller : EncryptFrameSeal(c)
           \/ Close \/ Tick \/ UNCHANGED vars
  BY <1>3 DEF EncryptFrameBegin, EncryptFrameSeal, Close, Tick, vars
<1> QED
  BY <1>1, <1>2, <1>3 DEF Next

\* Steps of the sharer and the relay that touch neither the members of the
\* session nor the map nor a Revoke call, and deliver nothing.
Quiet ==
    /\ UNCHANGED <<viewerIDMap, revoke, wraps, status>>
    /\ loop' = loop \/ loop'.pc \notin {"deliver", "map", "remove"}
    /\ \/ UNCHANGED <<viewers, revokedIDs, closed>>
       \/ closed' /\ viewers' = [v \in ViewerID |-> NoAuth] /\ UNCHANGED revokedIDs

\* The steps of the sharer that matter to keys and the map; the others are quiet.
LEMMA SharerCases ==
    ASSUME Types, SharerStep
    PROVE  \/ Quiet \/ deliverKey \/ mapViewer \/ removeLeftViewer
           \/ \E r \in RelayID : \/ handleViewerDisconnect(r)
                                 \/ \E v \in ViewerID : handleConfirmB(r, v)
           \/ \E k \in Revoker : Revoke(k)
<1>0. LoopTypes
  BY DEF Types
<1>1. ASSUME NEW r \in RelayID,
             handleInit(r) \/ handleMsgB(r) \/ handleRefused(r) \/ RelayReplays(r)
      PROVE  Quiet
  BY <1>1 DEF handleInit, handleMsgB, handleRefused, RelayReplays, sharerVars, vars,
              Quiet
<1>2. CASE viewerJoined \/ joinedSizeSend \/ RunStart
  <2>1. loop'.pc \in {"recv", "encrypt"}
    <3>1. loop' = IdleLoop \/ loop' = [IdleLoop EXCEPT !.pc = "encrypt", !.size = termSize]
      BY <1>2 DEF viewerJoined, joinedSizeSend, RunStart
    <3>2. IdleLoop.pc = "recv"
      BY DEF IdleLoop
    <3>3. [IdleLoop EXCEPT !.pc = "encrypt", !.size = termSize].pc = "encrypt"
      BY DEF IdleLoop
    <3> QED
      BY <3>1, <3>2, <3>3
  <2>2. UNCHANGED <<vars, viewerIDMap, revoke>>
    BY <1>2 DEF viewerJoined, joinedSizeSend, RunStart
  <2> QED
    BY <2>1, <2>2 DEF vars, Quiet
<1>3. CASE joinedSizeEncrypt
  <2>1. loop'.pc = "send"
    BY <1>0, <1>3 DEF joinedSizeEncrypt, LoopTypes
  <2> QED
    BY <1>3, <2>1 DEF joinedSizeEncrypt, EncryptFrameBegin, Quiet
<1>4. CASE streamLoopRead \/ SetTermSizeEncrypt
  BY <1>4 DEF streamLoopRead, SetTermSizeEncrypt, EncryptFrameBegin, vars, Quiet
<1>5. CASE streamLoopSend \/ SetTermSize \/ SetTermSizeSend
  BY <1>5 DEF streamLoopSend, SetTermSize, SetTermSizeSend, vars, Quiet
<1>6. ASSUME NEW c \in Caller, EncryptFrameReturn(c) PROVE Quiet
  BY <1>6 DEF EncryptFrameReturn, EncryptFrameSeal, Quiet
<1>7. CASE RelayLost
  BY <1>7 DEF RelayLost, sharerVars, vars, Quiet
<1>8. CASE RunEnd
  BY <1>8 DEF RunEnd, Close, Quiet
<1>9. CASE Clock
  BY <1>9 DEF Clock, Tick, sharerVars, Quiet
<1> QED
  BY <1>1, <1>2, <1>3, <1>4, <1>5, <1>6, <1>7, <1>8, <1>9
     DEF SharerStep, RelayLoop, StreamLoop, Resize

\* The histories grow, and what changes a viewer's status has seen its confirm_b.
LEMMA SharerHistory ==
    ASSUME Types, IInv, SharerStep
    PROVE  HistoryGoes
<1>1. [SharingNext]_allVars
  BY DEF SharerStep, SharingNext
<1>2. [Next]_vars
  BY <1>1, StepSimulation DEF Types
<1>3. /\ wraps \subseteq wraps' /\ frames \subseteq frames'
      /\ \A a \in RelayID : status[a] # "fresh" => status'[a] # "fresh"
  BY <1>2, SessionHistory DEF RelayID
<1>4. status \in [RelayID -> Fate]
  BY DEF IInv, TypeOK, RelayID
<1>5. ASSUME NEW a \in RelayID, status[a] = "fresh", status'[a] # "fresh"
      PROVE  view[a].knowsCode
  <2>1. ~UNCHANGED status
    BY <1>5
  <2>2. ASSUME NEW v \in ViewerID, RevokeViewer(v) \/ RemoveViewer(v) PROVE FALSE
    <3>1. v \in ListViewers /\ viewers[v] \in RelayID /\ status[viewers[v]] = "member"
      BY <2>2 DEF RevokeViewer, RemoveViewer, ListViewers, IInv, TypeOK, ViewersAreMembers,
                  RelayID
    <3>2. \/ status' = [status EXCEPT ![viewers[v]] = "revoked"]
          \/ status' = [status EXCEPT ![viewers[v]] = "left"]
      BY <2>2 DEF RevokeViewer, RemoveViewer
    <3> QED
      BY <1>4, <1>5, <3>1, <3>2
  <2>3. ASSUME NEW r \in RelayID, NEW v \in ViewerID, handleConfirmB(r, v)
        PROVE  view[a].knowsCode
    <3>1. status' = [status EXCEPT ![r] = "member"] /\ view[r].knowsCode
      BY <2>3 DEF handleConfirmB, RegisterViewer, Verifies
    <3>2. a = r
      BY <1>4, <1>5, <3>1
    <3> QED
      BY <3>1, <3>2
  <2>4. ~Quiet /\ ~deliverKey /\ ~mapViewer
    BY <2>1 DEF Quiet, deliverKey, mapViewer, vars
  <2>5. \A r \in RelayID : ~handleViewerDisconnect(r)
    BY <2>1 DEF handleViewerDisconnect, vars
  <2>6. ~removeLeftViewer
    BY <2>1, <2>2 DEF removeLeftViewer, RemoveViewer, ListViewers, vars
  <2>7. \A k \in Revoker : ~Revoke(k)
    BY <2>1, <2>2 DEF Revoke, RevokeBegin, RevokeUnmap, RevokeRekey, RevokeSend, RevokeReturn,
                      vars
  <2> QED
    BY <2>3, <2>4, <2>5, <2>6, <2>7, SharerCases
<1> QED
  BY <1>3, <1>5 DEF HistoryGoes

\* How relayLoop may go on in a step of the sharer.
LEMMA LoopGoesOn ==
    ASSUME Types, IInv, SharerStep
    PROVE  LoopGoes
<1>0. /\ LoopTypes /\ status \in [RelayID -> Fate]
      /\ queue \in [RelayID -> Seq(Msg)]
  BY DEF Types, NetTypes, IInv, TypeOK, RelayID
<1>1. CASE Quiet
  BY <1>0, <1>1 DEF Quiet, LoopGoes, LoopTypes
<1>2. CASE UNCHANGED loop
  BY <1>0, <1>2 DEF LoopGoes, LoopTypes
<1>3. CASE deliverKey
  <2>0. loop.pc = "deliver" /\ loop.viewer \in RelayID
    BY <1>0, <1>3 DEF deliverKey, LoopTypes
  <2>1. CASE loop' = IdleLoop
    BY <2>1 DEF LoopGoes, IdleLoop
  <2>2. CASE /\ Unicast(loop.viewer, KeyMessage(loop.id, loop.wrap))
             /\ loop' = [loop EXCEPT !.pc = "map", !.wrap = None]
    <3>1. loop'.pc = "map" /\ loop'.viewer = loop.viewer
      BY <1>0, <2>2 DEF LoopTypes
    <3>2. conn[loop.viewer] => queue'[loop.viewer] = Append(queue[loop.viewer],
                                                            KeyMessage(loop.id, loop.wrap))
      BY <1>0, <2>0, <2>2 DEF Unicast
    <3> QED
      BY <2>0, <3>1, <3>2 DEF LoopGoes
  <2> QED
    BY <1>3, <2>1, <2>2 DEF deliverKey, KeyMessage
<1>4. CASE mapViewer \/ removeLeftViewer
  <2>1. loop'.pc \in {"joined", "recv"}
    BY <1>0, <1>4 DEF mapViewer, removeLeftViewer, LoopTypes, IdleLoop
  <2> QED
    BY <2>1 DEF LoopGoes
<1>5. ASSUME NEW r \in RelayID, handleViewerDisconnect(r) PROVE LoopGoes
  <2>1. UNCHANGED loop \/ loop'.pc = "remove"
    BY <1>0, <1>5 DEF handleViewerDisconnect, LoopTypes
  <2> QED
    BY <1>2, <2>1 DEF LoopGoes
<1>6. ASSUME NEW r \in RelayID, NEW v \in ViewerID, handleConfirmB(r, v) PROVE LoopGoes
  <2> DEFINE w == [auth |-> r, key |-> streamKey, nonce |-> nonce + 1]
  <2>1. loop' = [loop EXCEPT !.pc = "deliver", !.viewer = r, !.id = v, !.wrap = w]
        /\ w \in wraps' /\ status' = [status EXCEPT ![r] = "member"] /\ w.auth = r
    BY <1>6 DEF handleConfirmB, RegisterViewer
  <2> HIDE DEF w
  <2>2. loop'.pc = "deliver" /\ loop'.viewer = r /\ loop'.wrap = w
    BY <1>0, <2>1 DEF LoopTypes
  <2>3. status'[r] = "member"
    BY <1>0, <2>1
  <2> QED
    BY <2>1, <2>2, <2>3 DEF LoopGoes
<1>7. ASSUME NEW k \in Revoker, Revoke(k) PROVE UNCHANGED loop
  BY <1>7 DEF Revoke, RevokeBegin, RevokeUnmap, RevokeRekey, RevokeSend, RevokeReturn
<1> QED
  BY <1>1, <1>2, <1>3, <1>4, <1>5, <1>6, <1>7, SharerCases

\* How viewerIDMap may change in a step of the sharer.
LEMMA MapGoesOn ==
    ASSUME Types, IInv, SharerStep
    PROVE  MapGoes
<1>0. viewerIDMap \in [ViewerID -> RelayID \cup {None}]
  BY DEF Types, SharerTypes
<1>1. CASE UNCHANGED viewerIDMap
  BY <1>1 DEF MapGoes
<1>2. CASE mapViewer
  BY <1>0, <1>2 DEF mapViewer, MapEntry, MapGoes
<1>3. ASSUME NEW r \in RelayID, handleViewerDisconnect(r) PROVE MapGoes
  BY <1>0, <1>3 DEF handleViewerDisconnect, Unmapped, MapGoes
<1>4. ASSUME NEW k \in Revoker, Revoke(k) PROVE MapGoes
  BY <1>0, <1>4 DEF Revoke, RevokeBegin, RevokeUnmap, RevokeRekey, RevokeSend, RevokeReturn,
                    MapGoes
<1>5. ASSUME NEW r \in RelayID, NEW v \in ViewerID, handleConfirmB(r, v)
      PROVE  UNCHANGED viewerIDMap
  BY <1>5 DEF handleConfirmB
<1>6. CASE Quiet \/ deliverKey \/ removeLeftViewer
  BY <1>1, <1>6 DEF Quiet, deliverKey, removeLeftViewer
<1> QED
  BY <1>1, <1>2, <1>3, <1>4, <1>5, <1>6, SharerCases

\* How the calls of Revoke may go on in a step of the sharer.
LEMMA RevokesGoOn ==
    ASSUME Types, IInv, TypeOK', SharerStep
    PROVE  RevokesGo
<1>1. CASE UNCHANGED revoke
  BY <1>1 DEF RevokesGo
<1>2. ASSUME NEW k \in Revoker, NEW v \in ViewerID, RevokeBegin(k, v) PROVE RevokesGo
  BY <1>2, revokeBeginStep DEF RevokesGo
<1>3. ASSUME NEW k \in Revoker,
             \/ RevokeUnmap(k) \/ RevokeSend(k) \/ RevokeReturn(k)
             \/ \E rk \in revoke[k].rekeys : RevokeRekey(k, rk)
      PROVE  RevokesGo
  BY <1>3, revokeOnStep DEF RevokesGo
<1>4. ASSUME NEW r \in RelayID,
             handleViewerDisconnect(r) \/ \E v \in ViewerID : handleConfirmB(r, v)
      PROVE  UNCHANGED revoke
  BY <1>4 DEF handleViewerDisconnect, handleConfirmB
<1>5. CASE Quiet \/ deliverKey \/ mapViewer \/ removeLeftViewer
  BY <1>1, <1>5 DEF Quiet, deliverKey, mapViewer, removeLeftViewer
<1> QED
  BY <1>1, <1>2, <1>3, <1>4, <1>5, SharerCases DEF Revoke

-----------------------------------------------------------------------------
\* The keys, step by step.

\* What a queue looks like after a message more or a message less.
LEMMA Appended ==
    ASSUME NEW q \in Seq(Msg), NEW m \in Msg
    PROVE  /\ Len(Append(q, m)) = Len(q) + 1 /\ Append(q, m)[Len(q) + 1] = m
           /\ \A i \in 1..Len(q) : Append(q, m)[i] = q[i]
           /\ Len(q) \in Nat
  OBVIOUS

\* A queue after its first message has been read.
LEMMA Popped ==
    ASSUME NEW q \in Seq(Msg), q # <<>>
    PROVE  /\ Len(q) \in Nat \ {0} /\ Len(Tail(q)) = Len(q) - 1 /\ Head(q) = q[1]
           /\ \A i \in 1..Len(Tail(q)) : Tail(q)[i] = q[i + 1]
  OBVIOUS

\* A sender of keys to viewer r had one before, or r has just been sent its own.
LEMMA AnsweredGoes ==
    ASSUME Types, LoopGoes, MapGoes, RevokesGo, NEW r \in RelayID, Answered(r)'
    PROVE  \/ Answered(r)
           \/ /\ loop.pc = "deliver" /\ loop.viewer = r
              /\ conn[r] => queue'[r] = Append(queue[r], KeyMessage(loop.id, loop.wrap))
<1>0. r # None
  OBVIOUS
<1>1. ASSUME NEW v \in ViewerID, viewerIDMap'[v] = r PROVE Answered(r)
  BY <1>0, <1>1 DEF MapGoes, Answered
<1>2. ASSUME NEW k \in Revoker, revoke'[k].to = r PROVE Answered(r)
  BY <1>0, <1>2 DEF RevokesGo, Answered
<1>3. CASE loop'.pc = "map" /\ loop'.viewer = r
  BY <1>3 DEF LoopGoes, Answered
<1> QED
  BY <1>1, <1>2, <1>3 DEF Answered

\* A key among the messages sent is one relayLoop delivers or Revoke sends.
LEMMA KeySent ==
    ASSUME Types, KeysOnTheWay, NEW r \in RelayID, NEW m, Sent(r, m), m.kind = "key"
    PROVE  /\ status[r] # "fresh" /\ m.wrap \in wraps
           /\ m.wrap.auth = r \/ Answered(r)
<1>1. m \notin BareMsg
  BY DEF BareMsg
<1>2. \A f : m # Message(f)
  BY DEF Message
<1>3. CASE loop.pc = "deliver" /\ r = loop.viewer /\ m = KeyMessage(loop.id, loop.wrap)
  BY <1>3 DEF KeysOnTheWay, KeyMessage
<1>4. ASSUME NEW k \in Revoker, revoke[k].pc = "send", r = revoke[k].to,
             m = KeyMessage(revoke[k].rekey.id, revoke[k].rekey.wrap)
      PROVE  status[r] # "fresh" /\ m.wrap \in wraps /\ Answered(r)
  <2>1. Answered(r)
    BY <1>4 DEF Answered
  <2>2. status[r] # "fresh" /\ revoke[k].rekey.wrap \in wraps
    BY <1>4, <2>1 DEF KeysOnTheWay
  <2>3. m.wrap = revoke[k].rekey.wrap
    BY <1>4 DEF KeyMessage
  <2> QED
    BY <2>1, <2>2, <2>3
<1> QED
  BY <1>1, <1>2, <1>3, <1>4 DEF Sent

\* Steps of the sharer and the relay keep the keys with their owners.
LEMMA SharerKeys ==
    ASSUME Types, IInv, TypeOK', KeyInv, SharerStep
    PROVE  KeyInv'
<1>0. /\ UNCHANGED <<view, conn>> /\ QueuesGrow /\ HistoryGoes /\ LoopGoes /\ MapGoes
      /\ RevokesGo /\ queue \in [RelayID -> Seq(Msg)]
  BY SharerKeepsViews, SharerNet, SharerHistory, LoopGoesOn, MapGoesOn, RevokesGoOn
     DEF Types, NetTypes
<1>1. Beginnings' /\ KeyOnlyWithCode' /\ KeysHeldAreOwn'
  BY <1>0 DEF KeyInv, Beginnings, KeyOnlyWithCode, KeysHeldAreOwn, HistoryGoes
<1>2. ASSUME NEW r \in RelayID, Answered(r)' PROVE status'[r] # "fresh"
  BY <1>0, <1>2, AnsweredGoes DEF KeyInv, KeysOnTheWay, HistoryGoes
<1>3. ASSUME NEW r \in RelayID, NEW i \in 1..Len(queue'[r]), queue'[r][i].kind = "key"
      PROVE  /\ status'[r] # "fresh" /\ queue'[r][i].wrap \in wraps'
             /\ view[r].pc \in Handshake => \E j \in 1..i : OwnKey(r, queue'[r][j])
  <2>1. CASE queue'[r] = queue[r]
    BY <1>0, <1>3, <2>1 DEF KeyInv, KeysOnTheWay, FirstKeyIsOwn, HistoryGoes
  <2>2. ASSUME NEW m \in Msg, Sent(r, m), conn[r], queue'[r] = Append(queue[r], m)
        PROVE  /\ status'[r] # "fresh" /\ queue'[r][i].wrap \in wraps'
               /\ view[r].pc \in Handshake => \E j \in 1..i : OwnKey(r, queue'[r][j])
    <3>0. queue[r] \in Seq(Msg)
      BY <1>0
    <3>1. /\ Len(queue[r]) \in Nat /\ Len(queue'[r]) = Len(queue[r]) + 1
          /\ queue'[r][Len(queue[r]) + 1] = m
          /\ \A j \in 1..Len(queue[r]) : queue'[r][j] = queue[r][j]
      BY <2>2, <3>0, Appended
    <3>2. CASE i \in 1..Len(queue[r])
      <4>1. queue[r][i].kind = "key" /\ queue'[r][i] = queue[r][i]
        BY <1>3, <3>1, <3>2
      <4>2. status[r] # "fresh" /\ queue[r][i].wrap \in wraps
        BY <3>2, <4>1 DEF KeyInv, KeysOnTheWay
      <4>3. view[r].pc \in Handshake => \E j \in 1..i : OwnKey(r, queue[r][j])
        BY <3>2, <4>1 DEF KeyInv, FirstKeyIsOwn
      <4>4. \A j \in 1..i : queue'[r][j] = queue[r][j]
        BY <3>1, <3>2
      <4> QED
        BY <1>0, <4>1, <4>2, <4>3, <4>4 DEF HistoryGoes
    <3>3. CASE i = Len(queue[r]) + 1
      <4>1. m.kind = "key" /\ queue'[r][i] = m
        BY <1>3, <3>1, <3>3
      <4>2. /\ status[r] # "fresh" /\ m.wrap \in wraps
            /\ m.wrap.auth = r \/ Answered(r)
        BY <2>2, <4>1, KeySent DEF KeyInv
      <4>3. CASE m.wrap.auth = r
        BY <1>0, <4>1, <4>2, <4>3, <3>1, <3>3 DEF HistoryGoes, OwnKey
      <4>4. CASE Answered(r)
        <5>1. view[r].pc \in Handshake => \E j \in 1..Len(queue[r]) : OwnKey(r, queue[r][j])
          BY <4>4 DEF KeyInv, FirstKeyIsOwn
        <5>2. \A j \in 1..Len(queue[r]) : j \in 1..i /\ queue'[r][j] = queue[r][j]
          BY <3>1, <3>3
        <5> QED
          BY <1>0, <4>1, <4>2, <5>1, <5>2 DEF HistoryGoes
      <4> QED
        BY <4>2, <4>3, <4>4
    <3> QED
      BY <1>3, <3>1, <3>2, <3>3
  <2> QED
    BY <1>0, <2>1, <2>2 DEF QueuesGrow
<1>4. ASSUME NEW r \in RelayID, view[r].pc \in Handshake, Answered(r)'
      PROVE  \E j \in 1..Len(queue'[r]) : OwnKey(r, queue'[r][j])
  <2>0. queue[r] \in Seq(Msg) /\ conn[r]
    BY <1>0, <1>4 DEF KeyInv, Beginnings
  <2>1. CASE Answered(r)
    <3>1. PICK j \in 1..Len(queue[r]) : OwnKey(r, queue[r][j])
      BY <1>4, <2>1 DEF KeyInv, FirstKeyIsOwn
    <3>2. queue'[r] = queue[r] \/ \E m \in Msg : queue'[r] = Append(queue[r], m)
      BY <1>0 DEF QueuesGrow
    <3>3. j \in 1..Len(queue'[r]) /\ queue'[r][j] = queue[r][j]
      BY <2>0, <3>2, Appended
    <3> QED
      BY <3>1, <3>3
  <2>2. CASE /\ loop.pc = "deliver" /\ loop.viewer = r
             /\ conn[r] => queue'[r] = Append(queue[r], KeyMessage(loop.id, loop.wrap))
    <3> DEFINE m == KeyMessage(loop.id, loop.wrap)
    <3>1. m \in Msg
      BY <2>2 DEF Types, LoopTypes, KeyMessage, Msg, KeyMsg
    <3>2. OwnKey(r, m)
      BY <2>2 DEF KeyInv, KeysOnTheWay, OwnKey, KeyMessage
    <3>3. queue'[r] = Append(queue[r], m)
      BY <2>0, <2>2
    <3> HIDE DEF m
    <3>4. Len(queue'[r]) = Len(queue[r]) + 1 /\ queue'[r][Len(queue[r]) + 1] = m
          /\ Len(queue[r]) \in Nat
      BY <2>0, <3>1, <3>3, Appended
    <3> QED
      BY <3>2, <3>4
  <2> QED
    BY <1>0, <1>4, <2>1, <2>2, AnsweredGoes
<1>5. KeysOnTheWay'
  <2>1. loop'.pc = "deliver" => /\ status'[loop'.viewer] # "fresh"
                                /\ loop'.wrap \in wraps' /\ loop'.wrap.auth = loop'.viewer
    BY <1>0 DEF KeyInv, KeysOnTheWay, LoopGoes, HistoryGoes, Types, LoopTypes
  <2>2. ASSUME NEW k \in Revoker
        PROVE  /\ \A rk \in revoke'[k].rekeys : rk.wrap \in wraps'
               /\ revoke'[k].pc = "send" => revoke'[k].rekey.wrap \in wraps'
    <3>1. /\ \A rk \in revoke[k].rekeys : rk.wrap \in wraps
          /\ revoke[k].pc = "send" => revoke[k].rekey.wrap \in wraps
      BY DEF KeyInv, KeysOnTheWay
    <3>2. /\ \A rk \in revoke'[k].rekeys : rk \in revoke[k].rekeys \/ rk.wrap \in wraps'
          /\ revoke'[k].pc = "send" =>
               \/ revoke'[k].rekey \in revoke[k].rekeys
               \/ revoke[k].pc = "send" /\ revoke'[k].rekey = revoke[k].rekey
      BY <1>0 DEF RevokesGo
    <3>3. wraps \subseteq wraps'
      BY <1>0 DEF HistoryGoes
    <3> QED
      BY <3>1, <3>2, <3>3
  <2> QED
    BY <1>2, <1>3, <2>1, <2>2 DEF KeysOnTheWay
<1>6. FirstKeyIsOwn'
  BY <1>0, <1>3, <1>4 DEF FirstKeyIsOwn, OwnKey
<1> QED
  BY <1>1, <1>5, <1>6 DEF KeyInv

\* Steps of the viewers do so too: a viewer takes the first key it is sent,
\* and of the later ones only those sealed for it.
LEMMA ViewerKeys ==
    ASSUME Types, KeyInv, NEW r \in RelayID, ViewerStep(r), UNCHANGED <<vars, sharerVars>>
    PROVE  KeyInv'
<1>0. /\ queue \in [RelayID -> Seq(Msg)] /\ queue[r] \in Seq(Msg) /\ Others(r)
      /\ view \in [RelayID -> View]
      /\ UNCHANGED <<wraps, status, viewerIDMap, loop, revoke>>
  BY DEF Types, NetTypes, ViewTypes, ViewerStep, vars, sharerVars
<1>1. \A s \in RelayID : Answered(s)' <=> Answered(s)
  BY <1>0 DEF Answered
<1>2. /\ Beginnings /\ KeyOnlyWithCode /\ KeysOnTheWay /\ FirstKeyIsOwn /\ KeysHeldAreOwn
  BY DEF KeyInv
\* It is enough to look at the viewer itself.
<1>3. SUFFICES /\ view'[r].pc = "dial" => ~view'[r].knowsCode
               /\ view'[r].pc \in Handshake => conn'[r]
               /\ view'[r].key # 0 \/ status[r] # "fresh" => view'[r].knowsCode
               /\ \A i \in 1..Len(queue'[r]) :
                    queue'[r][i].kind = "key" =>
                        status[r] # "fresh" /\ queue'[r][i].wrap \in wraps
               /\ view'[r].pc \in Handshake =>
                    /\ \A i \in 1..Len(queue'[r]) :
                         queue'[r][i].kind = "key" => \E j \in 1..i : OwnKey(r, queue'[r][j])
                    /\ Answered(r) => \E j \in 1..Len(queue'[r]) : OwnKey(r, queue'[r][j])
               /\ view'[r].key # 0 => \E w \in wraps : w.auth = r /\ w.key = view'[r].key
  <2>1. Beginnings'
    BY <1>0, <1>2, <1>3 DEF Beginnings, Others
  <2>2. KeyOnlyWithCode'
    BY <1>0, <1>2, <1>3 DEF KeyOnlyWithCode, Others
  <2>3. KeysOnTheWay'
    <3>1. \A s \in RelayID : \A i \in 1..Len(queue'[s]) :
            queue'[s][i].kind = "key" => status[s] # "fresh" /\ queue'[s][i].wrap \in wraps
      BY <1>0, <1>2, <1>3 DEF KeysOnTheWay, Others
    <3> QED
      BY <1>0, <1>1, <1>2, <3>1 DEF KeysOnTheWay
  <2>4. FirstKeyIsOwn'
    <3> SUFFICES ASSUME NEW s \in RelayID, view'[s].pc \in Handshake
                 PROVE  /\ \A i \in 1..Len(queue'[s]) :
                             queue'[s][i].kind = "key" =>
                                 \E j \in 1..i : OwnKey(s, queue'[s][j])
                        /\ Answered(s) =>
                             \E j \in 1..Len(queue'[s]) : OwnKey(s, queue'[s][j])
      BY <1>1 DEF FirstKeyIsOwn, OwnKey
    <3>1. CASE s = r
      BY <1>3, <3>1
    <3>2. CASE s # r
      <4>1. view'[s] = view[s] /\ queue'[s] = queue[s]
        BY <1>0, <3>2 DEF Others
      <4> QED
        BY <1>2, <4>1 DEF FirstKeyIsOwn
    <3> QED
      BY <3>1, <3>2
  <2>5. KeysHeldAreOwn'
    BY <1>0, <1>2, <1>3 DEF KeysHeldAreOwn, Others
  <2> QED
    BY <2>1, <2>2, <2>3, <2>4, <2>5 DEF KeyInv
\* What is known of it.
<1>4. /\ view[r].pc = "dial" => ~view[r].knowsCode
      /\ view[r].pc \in Handshake => conn[r]
      /\ view[r].key # 0 \/ status[r] # "fresh" => view[r].knowsCode
      /\ view[r].key # 0 => \E w \in wraps : w.auth = r /\ w.key = view[r].key
      /\ Answered(r) => status[r] # "fresh"
  BY <1>2 DEF Beginnings, KeyOnlyWithCode, KeysHeldAreOwn, KeysOnTheWay
<1>5. \A i \in 1..Len(queue[r]) :
        queue[r][i].kind = "key" => status[r] # "fresh" /\ queue[r][i].wrap \in wraps
  BY <1>2 DEF KeysOnTheWay
<1>6. view[r].pc \in Handshake =>
        /\ \A i \in 1..Len(queue[r]) :
             queue[r][i].kind = "key" => \E j \in 1..i : OwnKey(r, queue[r][j])
        /\ Answered(r) => \E j \in 1..Len(queue[r]) : OwnKey(r, queue[r][j])
  BY <1>2 DEF FirstKeyIsOwn
\* The keys still in the queue after a message has been read.
<1>7. ASSUME NEW kinds, Pops(r, kinds)
      PROVE  \A i \in 1..Len(queue'[r]) :
               queue'[r][i].kind = "key" => status[r] # "fresh" /\ queue'[r][i].wrap \in wraps
  <2>1. /\ Len(queue[r]) \in Nat \ {0} /\ Len(queue'[r]) = Len(queue[r]) - 1
        /\ \A i \in 1..Len(queue'[r]) : queue'[r][i] = queue[r][i + 1]
    BY <1>0, <1>7, Popped DEF Pops
  <2>2. \A i \in 1..Len(queue'[r]) : i + 1 \in 1..Len(queue[r])
    BY <2>1
  <2> QED
    BY <1>5, <2>1, <2>2
<1>a. CASE Connects(r)
  <2>1. view[r].pc = "dial" /\ view'[r].pc = "waitMsgA" /\ view'[r].key = view[r].key
        /\ conn'[r] /\ queue'[r] = queue[r]
    BY <1>a DEF Connects
  <2>2. view[r].key = 0 /\ status[r] = "fresh" /\ ~Answered(r)
    BY <1>4, <2>1
  <2>3. \A i \in 1..Len(queue'[r]) : queue'[r][i].kind # "key"
    BY <1>5, <2>1, <2>2
  <2> QED
    BY <2>1, <2>2, <2>3
<1>b. CASE GoesOn(r)
  <2>1. /\ view'[r].pc # "dial" /\ view'[r].key = view[r].key
        /\ view'[r].knowsCode = view[r].knowsCode
        /\ view'[r].pc \in Handshake => view[r].pc \in Handshake /\ conn'[r] = conn[r]
    BY <1>b DEF GoesOn
  <2>2. CASE queue'[r] = queue[r]
    BY <1>4, <1>5, <1>6, <2>1, <2>2
  <2>3. CASE queue'[r] = <<>> /\ view'[r].pc = "left"
    <3>1. view'[r].pc \notin Handshake /\ Len(queue'[r]) = 0
      BY <2>3 DEF Handshake
    <3> QED
      BY <1>4, <2>1, <3>1
  <2>4. CASE Pops(r, {"msg_a", "confirm_a", "session-ended", "stream", "termsize"})
    <3>1. /\ Len(queue[r]) \in Nat \ {0} /\ Len(queue'[r]) = Len(queue[r]) - 1
          /\ \A i \in 1..Len(queue'[r]) : queue'[r][i] = queue[r][i + 1]
          /\ queue[r][1].kind # "key"
      BY <1>0, <2>4, Popped DEF Pops
    <3>2. ~OwnKey(r, queue[r][1])
      BY <3>1 DEF OwnKey
    <3>3. \A j \in 1..Len(queue[r]) : OwnKey(r, queue[r][j]) =>
            j - 1 \in 1..Len(queue'[r]) /\ queue'[r][j - 1] = queue[r][j]
      BY <3>1, <3>2
    <3>4. ASSUME view'[r].pc \in Handshake, NEW i \in 1..Len(queue'[r]),
                 queue'[r][i].kind = "key"
          PROVE  \E j \in 1..i : OwnKey(r, queue'[r][j])
      <4>1. i + 1 \in 1..Len(queue[r]) /\ queue[r][i + 1].kind = "key"
        BY <3>1, <3>4
      <4>2. PICK j \in 1..(i + 1) : OwnKey(r, queue[r][j])
        BY <1>6, <2>1, <3>4, <4>1
      <4>3. j \in 1..Len(queue[r])
        BY <3>1, <4>1
      <4>4. j - 1 \in 1..i /\ queue'[r][j - 1] = queue[r][j]
        BY <3>1, <3>3, <4>2, <4>3
      <4> QED
        BY <4>2, <4>4
    <3>5. ASSUME view'[r].pc \in Handshake, Answered(r)
          PROVE  \E j \in 1..Len(queue'[r]) : OwnKey(r, queue'[r][j])
      BY <1>6, <2>1, <3>3, <3>5
    <3> QED
      BY <1>4, <1>7, <2>1, <2>4, <3>4, <3>5
  <2> QED
    BY <1>b, <2>2, <2>3, <2>4 DEF GoesOn
<1>c. CASE GetsKey(r)
  <2>1. /\ view'[r].pc = "active" /\ view'[r].knowsCode = view[r].knowsCode
        /\ Pops(r, {"key"}) /\ view'[r].pc \notin Handshake
    BY <1>c DEF GetsKey, Handshake
  <2>2. 1 \in 1..Len(queue[r]) /\ queue[r][1] = Head(queue[r]) /\ queue[r][1].kind = "key"
    BY <1>0, <2>1, Popped DEF Pops
  <2>3. status[r] # "fresh" /\ Head(queue[r]).wrap \in wraps /\ view[r].knowsCode
    BY <1>4, <1>5, <2>2
  <2>4. view[r].pc = "waitKey" => Head(queue[r]).wrap.auth = r
    <3>1. \A j \in 1..1 : j = 1
      OBVIOUS
    <3> QED
      BY <1>6, <2>2, <3>1 DEF Handshake, OwnKey
  <2>5. view'[r].key = view[r].key \/ /\ Head(queue[r]).wrap.auth = r
                                      /\ view'[r].key = Head(queue[r]).wrap.key
    BY <1>c, <2>4 DEF GetsKey
  <2> QED
    BY <1>4, <1>7, <2>1, <2>3, <2>5
<1>d. CASE GetsFrame(r)
  <2>1. /\ view'[r].pc # "dial" /\ view'[r].pc \notin Handshake
        /\ view'[r].key = view[r].key /\ view'[r].knowsCode = view[r].knowsCode
        /\ Pops(r, {"stream", "termsize"})
    BY <1>d DEF GetsFrame, Takes, Handshake
  <2> QED
    BY <1>4, <1>7, <2>1
<1> QED
  BY <1>a, <1>b, <1>c, <1>d DEF ViewerStep

\* Nobody has a key at the start.
LEMMA InitKeys == Init => KeyInv
<1> SUFFICES ASSUME Init PROVE KeyInv
  OBVIOUS
<1>1. /\ \A r \in RelayID : /\ view[r].pc = "dial" /\ ~view[r].knowsCode /\ view[r].key = 0
                            /\ status[r] = "fresh" /\ queue[r] = <<>>
      /\ \A v \in ViewerID : viewerIDMap[v] = None
      /\ \A k \in Revoker : revoke[k] = IdleRevoke
      /\ loop.pc \in {"recv", "start"}
  BY DEF Init, NewSession, NewView, IdleLoop, RelayID
<1>2. IdleRevoke.to = None /\ IdleRevoke.rekeys = {} /\ IdleRevoke.pc = "idle"
  BY DEF IdleRevoke
<1>3. \A r \in RelayID : ~Answered(r)
  BY <1>1, <1>2 DEF Answered
<1>4. \A r \in RelayID : view[r].pc \notin Handshake /\ Len(queue[r]) = 0
  BY <1>1 DEF Handshake
<1>5. Beginnings /\ KeyOnlyWithCode /\ KeysHeldAreOwn /\ FirstKeyIsOwn
  BY <1>1, <1>4 DEF Beginnings, KeyOnlyWithCode, KeysHeldAreOwn, FirstKeyIsOwn
<1>6. KeysOnTheWay
  BY <1>1, <1>2, <1>3, <1>4 DEF KeysOnTheWay
<1> QED
  BY <1>5, <1>6 DEF KeyInv

\* The keys stay with their owners in every reachable state: what a viewer
\* holds was sealed for it, although Revoke calls and relayLoop send keys
\* while its handshake is still under way.
THEOREM KeysStayWithOwners == SharingSpec => []KeyInv
<1>1. Init => KeyInv
  BY InitKeys
<1>2. Types /\ IInv /\ IInv' /\ KeyInv /\ [SharingNext]_allVars => KeyInv'
  <2> SUFFICES ASSUME Types, IInv, IInv', KeyInv, [SharingNext]_allVars PROVE KeyInv'
    OBVIOUS
  <2>1. TypeOK'
    BY DEF IInv
  <2>2. CASE SharerStep
    BY <2>1, <2>2, SharerKeys
  <2>3. ASSUME NEW r \in RelayID, RunViewer(r) PROVE KeyInv'
    BY <2>3, RunViewerStep, ViewerKeys
  <2>4. CASE UNCHANGED allVars
    BY <2>4 DEF allVars, vars, sharerVars, netVars, KeyInv, Beginnings, KeyOnlyWithCode,
                KeysOnTheWay, FirstKeyIsOwn, KeysHeldAreOwn, Answered, OwnKey
  <2> QED
    BY <2>2, <2>3, <2>4, Steps
<1> QED
  BY <1>1, <1>2, TypesHold, SessionInvariant, PTL DEF SharingSpec

\* Only a viewer that knows the code is registered or holds a stream key.
THEOREM CodeGuardsTheKey == SharingSpec => []KeyOnlyWithCode
  BY KeysStayWithOwners, PTL DEF KeyInv

-----------------------------------------------------------------------------
\* The output, step by step.

\* No frame is sealed, and none is under way that was not.
Still ==
    /\ UNCHANGED <<frames, pending, output>>
    /\ \A c \in Caller : held'[c] \in {Idle, held[c]}

\* streamLoop has read the next chunk.
ReadsChunk ==
    /\ UNCHANGED <<frames, held>> /\ output' = output + 1
    /\ \E p : /\ p.text = <<"out", output + 1>>
              /\ pending' = [pending EXCEPT !["stream"] = p]

\* One of the two others begins to encrypt a size.
BeginsSize(c) ==
    /\ UNCHANGED <<frames, held, output>> /\ c # "stream"
    /\ \E p : p.text[1] # "out" /\ pending' = [pending EXCEPT ![c] = p]

\* Every step of the sharer and the relay is one of these, or seals a frame.
LEMMA OutputCases ==
    ASSUME Types, SharerStep
    PROVE  \/ Still \/ ReadsChunk
           \/ \E c \in Caller : BeginsSize(c) \/ EncryptFrameReturn(c)
<1>0. held \in [Caller -> Frame \cup {Idle}]
  BY DEF Types, SharerTypes
<1>1. ASSUME NEW r \in RelayID,
             \/ handleInit(r) \/ handleMsgB(r) \/ handleRefused(r) \/ RelayReplays(r)
             \/ handleViewerDisconnect(r)
      PROVE  Still
  BY <1>1 DEF handleInit, handleMsgB, handleRefused, RelayReplays, sharerVars, vars,
              handleViewerDisconnect, Still
<1>2. ASSUME NEW r \in RelayID, NEW v \in ViewerID, handleConfirmB(r, v) PROVE Still
  BY <1>2 DEF handleConfirmB, RegisterViewer, Still
<1>3. CASE deliverKey \/ mapViewer \/ viewerJoined \/ RunStart \/ SetTermSize \/ RelayLost
  BY <1>3 DEF deliverKey, mapViewer, viewerJoined, RunStart, SetTermSize, RelayLost,
              sharerVars, vars, Still
<1>4. CASE removeLeftViewer \/ RunEnd \/ Clock
  BY <1>4 DEF removeLeftViewer, RemoveViewer, RunEnd, Close, Clock, Tick, sharerVars, vars,
              Still
<1>5. CASE joinedSizeSend \/ streamLoopSend \/ SetTermSizeSend
  <2>1. PICK c \in Caller : held' = [held EXCEPT ![c] = Idle]
    BY <1>5 DEF joinedSizeSend, streamLoopSend, SetTermSizeSend
  <2>2. UNCHANGED <<frames, pending, output>>
    BY <1>5 DEF joinedSizeSend, streamLoopSend, SetTermSizeSend, vars
  <2> QED
    BY <1>0, <2>1, <2>2 DEF Still
<1>6. CASE streamLoopRead
  <2> DEFINE p == [text |-> <<"out", output + 1>>, epoch |-> CurrentEpoch, key |-> streamKey]
  <2>1. /\ p.text = <<"out", output + 1>> /\ pending' = [pending EXCEPT !["stream"] = p]
        /\ UNCHANGED <<frames, held>> /\ output' = output + 1
    BY <1>6 DEF streamLoopRead, EncryptFrameBegin
  <2> HIDE DEF p
  <2> QED
    BY <2>1 DEF ReadsChunk
<1>7. ASSUME NEW c \in Caller \ {"stream"}, NEW n, EncryptFrameBegin(c, <<"size", n>>),
             UNCHANGED <<held, output>>
      PROVE  BeginsSize(c)
  <2> DEFINE p == [text |-> <<"size", n>>, epoch |-> CurrentEpoch, key |-> streamKey]
  <2>1. p.text[1] # "out" /\ pending' = [pending EXCEPT ![c] = p] /\ UNCHANGED frames
    BY <1>7 DEF EncryptFrameBegin
  <2> HIDE DEF p
  <2> QED
    BY <1>7, <2>1 DEF BeginsSize
<1>8. CASE joinedSizeEncrypt
  BY <1>7, <1>8 DEF joinedSizeEncrypt
<1>9. CASE SetTermSizeEncrypt
  <2>1. CASE UNCHANGED vars
    BY <1>9, <2>1 DEF SetTermSizeEncrypt, vars, Still
  <2> QED
    BY <1>7, <1>9, <2>1 DEF SetTermSizeEncrypt
<1>10. ASSUME NEW k \in Revoker, Revoke(k) PROVE Still
  BY <1>10 DEF Revoke, RevokeBegin, RevokeViewer, RevokeUnmap, RevokeRekey, RevokeSend,
               RevokeReturn, vars, Still
<1> QED
  BY <1>1, <1>2, <1>3, <1>4, <1>5, <1>6, <1>7, <1>8, <1>9, <1>10
     DEF SharerStep, RelayLoop, StreamLoop, Resize

\* A viewer that has just been revoked was revoked after every frame so far.
LEMMA RevocationGoes ==
    ASSUME IInv, IInv', [Next]_vars, NEW a \in AuthKey, status'[a] = "revoked"
    PROVE  \/ status[a] = "revoked" /\ revokedAt'[a] = revokedAt[a]
           \/ \A f \in frames' : f.nonce <= revokedAt'[a]
<1>0. /\ status \in [AuthKey -> Fate] /\ revokedAt \in [AuthKey -> Nat]
      /\ viewers \in [ViewerID -> AuthKey \cup {NoAuth}]
      /\ \A f \in frames' : f.nonce <= nonce'
  BY DEF IInv, TypeOK, HistoryBounded
<1>1. ASSUME NEW v \in ViewerID, NEW b \in AuthKey, RegisterViewer(v, b)
      PROVE  status[a] = "revoked" /\ revokedAt'[a] = revokedAt[a]
  BY <1>0, <1>1 DEF RegisterViewer
<1>2. ASSUME NEW v \in ViewerID, RemoveViewer(v)
      PROVE  status[a] = "revoked" /\ revokedAt'[a] = revokedAt[a]
  <2>1. viewers[v] \in AuthKey /\ UNCHANGED revokedAt
        /\ status' = [status EXCEPT ![viewers[v]] = "left"]
    BY <1>0, <1>2 DEF RemoveViewer, ListViewers
  <2> QED
    BY <1>0, <2>1
<1>3. ASSUME NEW v \in ViewerID, RevokeViewer(v)
      PROVE  \/ status[a] = "revoked" /\ revokedAt'[a] = revokedAt[a]
             \/ \A f \in frames' : f.nonce <= revokedAt'[a]
  <2>1. /\ viewers[v] \in AuthKey /\ revokedAt' = [revokedAt EXCEPT ![viewers[v]] = nonce']
        /\ status' = [status EXCEPT ![viewers[v]] = "revoked"]
    BY <1>0, <1>3 DEF RevokeViewer, ListViewers
  <2> QED
    BY <1>0, <2>1
<1>4. CASE \/ \E c \in Caller, p \in Plaintext : EncryptFrameBegin(c, p)
           \/ \E c \in Caller : EncryptFrameSeal(c)
           \/ Close \/ Tick \/ UNCHANGED vars
  BY <1>4 DEF EncryptFrameBegin, EncryptFrameSeal, Close, Tick, vars
<1> QED
  BY <1>1, <1>2, <1>3, <1>4 DEF Next

\* The frame that EncryptFrame seals carries the next chunk or no output, and
\* the highest nonce so far.
LEMMA SealEffect ==
    ASSUME Types, IInv, OutputNumbered, NEW c \in Caller, EncryptFrameReturn(c)
    PROVE  \E f \in Frame :
             /\ frames' = frames \cup {f} /\ held' = [held EXCEPT ![c] = f]
             /\ pending' = [pending EXCEPT ![c] = Idle] /\ output' = output
             /\ \A g \in frames : g.nonce < f.nonce
             /\ Out(f) => /\ c = "stream" /\ f.text[2] = output
                          /\ \A g \in frames : Out(g) => g.text[2] < output
<1> DEFINE f == [text |-> pending[c].text, epoch |-> pending[c].epoch,
                 key |-> pending[c].key, nonce |-> nonce + 1]
<1>1. /\ pending[c] # Idle /\ frames' = frames \cup {f} /\ held' = [held EXCEPT ![c] = f]
      /\ pending' = [pending EXCEPT ![c] = Idle] /\ output' = output
  BY DEF EncryptFrameReturn, EncryptFrameSeal
<1>2. /\ pending[c] \in [text : Plaintext, epoch : Nat, key : Nat] /\ nonce \in Nat
      /\ frames \in SUBSET Frame /\ \A g \in frames : g.nonce <= nonce
  BY <1>1 DEF IInv, TypeOK, HistoryBounded
<1>3. f \in Frame /\ f.nonce = nonce + 1 /\ f.text = pending[c].text
  BY <1>2 DEF Frame
<1> HIDE DEF f
<1>4. \A g \in frames : g.nonce < f.nonce
  BY <1>2, <1>3 DEF Frame
<1>5. c = "stream" \/ c \in {"relay", "resize"}
  OBVIOUS
<1>6. c = "stream" => /\ f.text = <<"out", output>>
                      /\ \A g \in frames : Out(g) => g.text[2] < output
  BY <1>1, <1>3 DEF OutputNumbered
<1>7. c # "stream" => ~Out(f)
  BY <1>1, <1>3, <1>5 DEF OutputNumbered, Out
<1>8. c = "stream" => f.text[2] = output
  BY <1>6
<1> QED
  BY <1>1, <1>3, <1>4, <1>6, <1>7, <1>8

\* Nonces of output frames grow with the chunks they carry, whoever seals in between.
LEMMA SharerNumbers ==
    ASSUME Types, IInv, OutputNumbered, SharerStep
    PROVE  OutputNumbered'
<1>0. /\ pending \in [Caller -> [text : Plaintext, epoch : Nat, key : Nat] \cup {Idle}]
      /\ frames \in SUBSET Frame /\ output \in Nat
  BY DEF IInv, TypeOK, Types, CallsAreTyped
<1>t. \A g \in Frame : Out(g) => g.text[2] \in Nat
  <2> SUFFICES ASSUME NEW g \in Frame, Out(g) PROVE g.text[2] \in Nat
    OBVIOUS
  <2>1. g.text \in Plaintext
    BY DEF Frame
  <2> QED
    BY <2>1, TextParts DEF Out
<1>1. CASE Still
  BY <1>1 DEF Still, OutputNumbered, Out
<1>2. CASE ReadsChunk
  <2>1. PICK p : p.text = <<"out", output + 1>> /\ pending' = [pending EXCEPT !["stream"] = p]
    BY <1>2 DEF ReadsChunk
  <2>2. frames' = frames /\ output' = output + 1
    BY <1>2 DEF ReadsChunk
  <2>3. /\ pending'["stream"] = p
        /\ \A c \in {"relay", "resize"} : pending'[c] = pending[c]
    BY <1>0, <2>1
  <2>4. \A f \in frames : Out(f) => f.text[2] < output + 1 /\ f.text[2] <= output + 1
    BY <1>0, <1>t DEF OutputNumbered
  <2> QED
    BY <2>1, <2>2, <2>3, <2>4 DEF OutputNumbered, Out
<1>3. ASSUME NEW c \in Caller, BeginsSize(c) PROVE OutputNumbered'
  <2>1. PICK p : p.text[1] # "out" /\ pending' = [pending EXCEPT ![c] = p]
    BY <1>3 DEF BeginsSize
  <2>2. frames' = frames /\ output' = output /\ c # "stream"
    BY <1>3 DEF BeginsSize
  <2>3. /\ pending'["stream"] = pending["stream"] /\ pending'[c] = p
        /\ \A d \in Caller \ {c} : pending'[d] = pending[d]
    BY <1>0, <2>1, <2>2
  <2> QED
    BY <2>1, <2>2, <2>3 DEF OutputNumbered, Out
<1>4. ASSUME NEW c \in Caller, EncryptFrameReturn(c) PROVE OutputNumbered'
  <2>1. PICK f \in Frame :
             /\ frames' = frames \cup {f}
             /\ pending' = [pending EXCEPT ![c] = Idle] /\ output' = output
             /\ \A g \in frames : g.nonce < f.nonce
             /\ Out(f) => /\ c = "stream" /\ f.text[2] = output
                          /\ \A g \in frames : Out(g) => g.text[2] < output
    BY <1>4, SealEffect
  <2>2. pending'[c] = Idle /\ \A d \in Caller \ {c} : pending'[d] = pending[d]
    BY <1>0, <2>1
  <2>3. /\ \A g, h \in frames : Out(g) /\ Out(h) /\ g.nonce < h.nonce => g.text[2] < h.text[2]
        /\ \A g \in frames : Out(g) => g.text[2] <= output
        /\ pending["stream"] # Idle => /\ pending["stream"].text = <<"out", output>>
                                       /\ \A g \in frames : Out(g) => g.text[2] < output
        /\ \A d \in {"relay", "resize"} : pending[d] # Idle => pending[d].text[1] # "out"
    BY DEF OutputNumbered
  <2>4. ASSUME NEW g \in frames', NEW h \in frames', Out(g), Out(h), g.nonce < h.nonce
        PROVE  g.text[2] < h.text[2]
    <3>1. \A x \in frames : ~(f.nonce < x.nonce)
      BY <1>0, <2>1 DEF Frame
    <3>2. ~(f.nonce < f.nonce)
      BY DEF Frame
    <3>3. g \in frames
      BY <2>1, <2>4, <3>1, <3>2
    <3> QED
      BY <2>1, <2>3, <2>4, <3>3
  <2>5. \A g \in frames' : Out(g) => g.text[2] <= output'
    BY <1>0, <2>1, <2>3
  <2>6. pending'["stream"] # Idle => /\ pending'["stream"].text = <<"out", output'>>
                                     /\ \A g \in frames' : Out(g) => g.text[2] < output'
    BY <2>1, <2>2, <2>3
  <2>7. \A d \in {"relay", "resize"} : pending'[d] # Idle => pending'[d].text[1] # "out"
    BY <2>2, <2>3
  <2> QED
    BY <2>4, <2>5, <2>6, <2>7 DEF OutputNumbered, Out
<1> QED
  BY <1>1, <1>2, <1>3, <1>4, OutputCases

\* What the sharer and the relay send has been sealed.
LEMMA SharerSeals ==
    ASSUME Types, IInv, OutputInv, SharerStep
    PROVE  FramesAreSealed'
<1>0. /\ QueuesGrow /\ queue \in [RelayID -> Seq(Msg)] /\ frames \subseteq frames'
      /\ held \in [Caller -> Frame \cup {Idle}] /\ FramesAreSealed /\ OutputNumbered
  BY SharerNet, SharerHistory DEF Types, NetTypes, SharerTypes, HistoryGoes, OutputInv
<1>1. \A c \in Caller : held'[c] # Idle => held'[c] \in frames'
  <2>1. CASE Still
    BY <1>0, <2>1 DEF Still, FramesAreSealed
  <2>2. CASE ReadsChunk
    BY <1>0, <2>2 DEF ReadsChunk, FramesAreSealed
  <2>3. ASSUME NEW c \in Caller, BeginsSize(c)
        PROVE  \A d \in Caller : held'[d] # Idle => held'[d] \in frames'
    BY <1>0, <2>3 DEF BeginsSize, FramesAreSealed
  <2>4. ASSUME NEW c \in Caller, EncryptFrameReturn(c)
        PROVE  \A d \in Caller : held'[d] # Idle => held'[d] \in frames'
    <3>1. PICK f \in Frame : frames' = frames \cup {f} /\ held' = [held EXCEPT ![c] = f]
      BY <1>0, <2>4, SealEffect
    <3>2. held'[c] = f /\ \A d \in Caller \ {c} : held'[d] = held[d]
      BY <1>0, <3>1
    <3> QED
      BY <1>0, <3>1, <3>2 DEF FramesAreSealed
  <2> QED
    BY <2>1, <2>2, <2>3, <2>4, OutputCases
<1>2. ASSUME NEW r \in RelayID, NEW m \in Msg, Sent(r, m), m.kind \in {"stream", "termsize"}
      PROVE  m.frame \in frames
  <2>1. m \notin BareMsg
    BY <1>2 DEF BareMsg
  <2>2. \A id, w : m # KeyMessage(id, w)
    BY <1>2 DEF KeyMessage
  <2>3. \A f : Message(f).frame = f
    BY DEF Message
  <2> QED
    BY <1>0, <1>2, <2>1, <2>2, <2>3 DEF Sent, FramesAreSealed
<1>3. ASSUME NEW r \in RelayID, NEW i \in 1..Len(queue'[r]),
             queue'[r][i].kind \in {"stream", "termsize"}
      PROVE  queue'[r][i].frame \in frames'
  <2>1. CASE queue'[r] = queue[r]
    BY <1>0, <1>3, <2>1 DEF FramesAreSealed
  <2>2. ASSUME NEW m \in Msg, Sent(r, m), queue'[r] = Append(queue[r], m)
        PROVE  queue'[r][i].frame \in frames'
    <3>1. /\ Len(queue[r]) \in Nat /\ Len(queue'[r]) = Len(queue[r]) + 1
          /\ queue'[r][Len(queue[r]) + 1] = m
          /\ \A j \in 1..Len(queue[r]) : queue'[r][j] = queue[r][j]
      BY <1>0, <2>2, Appended
    <3>2. CASE i \in 1..Len(queue[r])
      BY <1>0, <1>3, <3>1, <3>2 DEF FramesAreSealed
    <3>3. CASE i = Len(queue[r]) + 1
      BY <1>0, <1>2, <1>3, <2>2, <3>1, <3>3
    <3> QED
      BY <1>3, <3>1, <3>2, <3>3
  <2> QED
    BY <1>0, <2>1, <2>2 DEF QueuesGrow
<1> QED
  BY <1>1, <1>3 DEF FramesAreSealed

\* Frames sealed later, or before a revocation, are none that a revoked
\* viewer shows.
LEMMA SharerOutput ==
    ASSUME Types, IInv, IInv', OutputInv, SharerStep
    PROVE  OutputInv'
<1>0. /\ UNCHANGED view /\ frames \subseteq frames' /\ frames \in SUBSET Frame
      /\ OutputNumbered /\ ShownIsSealed /\ ShownInOrder /\ RevokedSeesNothingNew
      /\ frames' \in SUBSET Frame /\ revokedAt' \in [RelayID -> Nat]
  BY SharerKeepsViews, SharerHistory DEF HistoryGoes, OutputInv, IInv, TypeOK, RelayID
<1>1. [Next]_vars
  <2>1. [SharingNext]_allVars
    BY DEF SharerStep, SharingNext
  <2> QED
    BY <2>1, StepSimulation DEF Types
<1>2. OutputNumbered' /\ FramesAreSealed'
  BY <1>0, SharerNumbers, SharerSeals
<1>3. ShownIsSealed' /\ ShownInOrder'
  BY <1>0 DEF ShownIsSealed, ShownInOrder, Out
<1>4. ASSUME NEW r \in RelayID, status'[r] = "revoked", NEW f \in frames', Out(f),
             f.nonce > revokedAt'[r], NEW i \in DOMAIN view[r].shown
      PROVE  view[r].shown[i] # f.text[2]
  <2>0. view[r].shown \in Seq(1..MaxOutput)
    BY DEF Types, ViewTypes, View
  <2>1. status[r] = "revoked" /\ revokedAt'[r] = revokedAt[r]
    <3>1. ~(\A g \in frames' : g.nonce <= revokedAt'[r])
      BY <1>0, <1>4 DEF Frame
    <3> QED
      BY <1>1, <1>4, <3>1, RevocationGoes DEF RelayID
  <2>2. CASE f \in frames
    BY <1>0, <1>4, <2>1, <2>2 DEF RevokedSeesNothingNew, Out
  <2>3. CASE f \notin frames
    <3>1. PICK c \in Caller : EncryptFrameReturn(c)
      BY <1>4, <2>3, OutputCases DEF Still, ReadsChunk, BeginsSize
    <3>2. PICK g \in Frame :
            /\ frames' = frames \cup {g}
            /\ Out(g) => /\ g.text[2] = output
                         /\ \A h \in frames : Out(h) => h.text[2] < output
      BY <1>0, <3>1, SealEffect
    <3>3. f = g
      BY <1>4, <2>3, <3>2
    <3>4. PICK h \in frames : Out(h) /\ h.text[2] = view[r].shown[i]
      <4>1. i \in 1..Len(view[r].shown)
        BY <2>0
      <4> QED
        BY <1>0, <4>1 DEF ShownIsSealed
    <3>5. output \in Nat /\ h.text[2] < output
      BY <1>4, <3>2, <3>3, <3>4 DEF Types, CallsAreTyped
    <3> QED
      BY <1>4, <3>2, <3>3, <3>4, <3>5
  <2> QED
    BY <2>2, <2>3
<1>5. RevokedSeesNothingNew'
  BY <1>0, <1>4 DEF RevokedSeesNothingNew, Out
<1> QED
  BY <1>2, <1>3, <1>5 DEF OutputInv

\* A viewer shows a frame sealed under a key of its own, above all the nonces
\* it has seen.
LEMMA ViewerOutput ==
    ASSUME Types, IInv, KeyInv, OutputInv, NEW r \in RelayID, ViewerStep(r),
           UNCHANGED <<vars, sharerVars>>
    PROVE  OutputInv'
<1>0. /\ queue \in [RelayID -> Seq(Msg)] /\ queue[r] \in Seq(Msg) /\ Others(r)
      /\ view \in [RelayID -> View] /\ view[r] \in View /\ view' \in [RelayID -> View]
      /\ view'[r] \in View
      /\ UNCHANGED <<frames, pending, held, output, status, revokedAt>>
      /\ frames \in SUBSET Frame /\ revokedAt \in [RelayID -> Nat] /\ wraps \in SUBSET Wrap
  BY DEF Types, NetTypes, ViewTypes, ViewerStep, vars, sharerVars, IInv, TypeOK, RelayID
<1>1. OutputNumbered /\ FramesAreSealed /\ ShownIsSealed /\ ShownInOrder
      /\ RevokedSeesNothingNew
  BY DEF OutputInv
<1>2. OutputNumbered'
  BY <1>0, <1>1 DEF OutputNumbered, Out
<1>3. FramesAreSealed'
  <2>1. \/ queue'[r] = queue[r] \/ queue'[r] = <<>>
        \/ queue[r] # <<>> /\ queue'[r] = Tail(queue[r])
    BY DEF ViewerStep, Connects, GoesOn, GetsKey, GetsFrame, Pops
  <2>2. ASSUME NEW i \in 1..Len(queue'[r]), queue'[r][i].kind \in {"stream", "termsize"}
        PROVE  queue'[r][i].frame \in frames
    <3>1. CASE queue'[r] = queue[r]
      BY <1>1, <2>2, <3>1 DEF FramesAreSealed
    <3>2. CASE queue'[r] = <<>>
      BY <2>2, <3>2
    <3>3. CASE queue[r] # <<>> /\ queue'[r] = Tail(queue[r])
      <4>1. i + 1 \in 1..Len(queue[r]) /\ queue'[r][i] = queue[r][i + 1]
        BY <1>0, <2>2, <3>3, Popped
      <4> QED
        BY <1>1, <2>2, <4>1 DEF FramesAreSealed
    <3> QED
      BY <2>1, <3>1, <3>2, <3>3
  <2>3. \A s \in RelayID : \A i \in 1..Len(queue'[s]) :
          queue'[s][i].kind \in {"stream", "termsize"} => queue'[s][i].frame \in frames
    BY <1>0, <1>1, <2>2 DEF FramesAreSealed, Others
  <2> QED
    BY <1>0, <1>1, <2>3 DEF FramesAreSealed
<1>4. CASE view'[r].shown = view[r].shown /\ view'[r].lastNonce >= view[r].lastNonce
  <2>1. \A s \in RelayID : view'[s].shown = view[s].shown
    BY <1>0, <1>4 DEF Others
  <2>2. ShownInOrder' /\ RevokedSeesNothingNew'
    <3>1. ShownInOrder'
      BY <1>1, <2>1, Zenon DEF ShownInOrder
    <3>2. RevokedSeesNothingNew'
      <4> SUFFICES ASSUME NEW s \in RelayID, status'[s] = "revoked", NEW f \in frames',
                          f.text[1] = "out", f.nonce > revokedAt'[s],
                          NEW i \in DOMAIN view'[s].shown
                   PROVE  view'[s].shown[i] # f.text[2]
        BY DEF RevokedSeesNothingNew
      <4>1. view'[s].shown = view[s].shown
        BY <2>1
      <4>2. frames' = frames /\ status' = status /\ revokedAt' = revokedAt
        BY <1>0
      <4> QED
        BY <1>1, <4>1, <4>2 DEF RevokedSeesNothingNew
    <3> QED
      BY <3>1, <3>2
  <2>3. ASSUME NEW s \in RelayID
        PROVE  /\ view[s].lastNonce \in Nat /\ view'[s].lastNonce \in Nat
               /\ view'[s].lastNonce >= view[s].lastNonce
    <3>1. view[s].lastNonce \in Nat /\ view'[s].lastNonce \in Nat
      BY <1>0 DEF View
    <3>2. s = r \/ view'[s].lastNonce = view[s].lastNonce
      BY <1>0 DEF Others
    <3> QED
      BY <1>4, <3>1, <3>2
  <2>4. ShownIsSealed'
    <3> SUFFICES ASSUME NEW s \in RelayID, NEW i \in 1..Len(view'[s].shown)
                 PROVE  \E f \in frames : /\ Out(f) /\ f.text[2] = view'[s].shown[i]
                                          /\ f.nonce <= view'[s].lastNonce
      BY <1>0 DEF ShownIsSealed, Out
    <3>0. view'[s].shown = view[s].shown /\ i \in 1..Len(view[s].shown)
      BY <2>1
    <3>1. PICK f \in frames : /\ Out(f) /\ f.text[2] = view[s].shown[i]
                              /\ f.nonce <= view[s].lastNonce
      BY <1>1, <3>0 DEF ShownIsSealed
    <3>2. f.nonce <= view'[s].lastNonce
      BY <1>0, <2>3, <3>1 DEF Frame
    <3> QED
      BY <3>0, <3>1, <3>2
  <2> QED
    BY <1>2, <1>3, <2>2, <2>4 DEF OutputInv
<1>5. ASSUME GetsFrame(r), view'[r].shown # view[r].shown
      PROVE  OutputInv'
  <2> DEFINE f == Head(queue[r]).frame
             old == view[r].shown
  <2>1. f \in frames
    <3>1. 1 \in 1..Len(queue[r]) /\ queue[r][1] = Head(queue[r])
          /\ queue[r][1].kind \in {"stream", "termsize"}
      BY <1>0, <1>5, Popped DEF GetsFrame, Pops
    <3> QED
      BY <1>1, <3>1 DEF FramesAreSealed
  <2>2. /\ Out(f) /\ view[r].key = f.key /\ f.nonce > view[r].lastNonce
        /\ view'[r].lastNonce = f.nonce /\ view'[r].shown = Append(old, f.text[2])
    BY <1>5 DEF GetsFrame, Takes, Out
  <2> HIDE DEF f, old
  <2>3. /\ f \in Frame /\ f.nonce \in Nat /\ f.text[2] \in Nat /\ view[r].lastNonce \in Nat
        /\ f.text[2] \in 1..MaxOutput
    <3>1. f \in Frame /\ f.text \in Plaintext /\ f.nonce \in Nat /\ view[r].lastNonce \in Nat
      BY <1>0, <2>1 DEF Frame, View
    <3> QED
      BY <2>2, <3>1, TextParts DEF Out
  <2>4. old \in Seq(1..MaxOutput)
    BY <1>0 DEF View, old
  <2>5. /\ Len(old) \in Nat /\ Len(view'[r].shown) = Len(old) + 1
        /\ view'[r].shown[Len(old) + 1] = f.text[2]
        /\ \A i \in 1..Len(old) : view'[r].shown[i] = old[i]
        /\ DOMAIN view'[r].shown = 1..(Len(old) + 1) /\ DOMAIN old = 1..Len(old)
    BY <2>2, <2>3, <2>4
  <2>6. \A i \in 1..Len(old) :
          \E g \in frames : Out(g) /\ g.text[2] = old[i] /\ g.nonce <= view[r].lastNonce
    BY <1>1 DEF ShownIsSealed, old
  <2>7. \A i \in 1..Len(old) : old[i] < f.text[2]
    <3> SUFFICES ASSUME NEW i \in 1..Len(old) PROVE old[i] < f.text[2]
      OBVIOUS
    <3>1. PICK g \in frames : Out(g) /\ g.text[2] = old[i] /\ g.nonce <= view[r].lastNonce
      BY <2>6
    <3>2. g.nonce < f.nonce
      BY <1>0, <2>2, <2>3, <3>1 DEF Frame
    <3> QED
      BY <1>1, <2>1, <2>2, <3>1, <3>2 DEF OutputNumbered
  <2>8. ShownInOrder'
    <3> SUFFICES ASSUME NEW s \in RelayID, NEW i \in DOMAIN view'[s].shown,
                        NEW j \in DOMAIN view'[s].shown, i < j
                 PROVE  view'[s].shown[i] < view'[s].shown[j]
      BY DEF ShownInOrder
    <3>1. CASE s # r
      <4>1. view'[s] = view[s]
        BY <1>0, <3>1 DEF Others
      <4> QED
        BY <1>1, <4>1, Zenon DEF ShownInOrder
    <3>2. CASE s = r /\ j \in 1..Len(old)
      <4>1. \A a, b \in DOMAIN old : a < b => old[a] < old[b]
        BY <1>1 DEF ShownInOrder, old
      <4>2. i \in DOMAIN old /\ j \in DOMAIN old
        BY <2>5, <3>2
      <4> QED
        BY <2>5, <3>2, <4>1, <4>2
    <3>3. CASE s = r /\ j = Len(old) + 1
      BY <2>5, <2>7, <3>3
    <3> QED
      BY <2>5, <3>1, <3>2, <3>3
  <2>9. ShownIsSealed'
    <3> SUFFICES ASSUME NEW s \in RelayID, NEW i \in 1..Len(view'[s].shown)
                 PROVE  \E g \in frames : /\ Out(g) /\ g.text[2] = view'[s].shown[i]
                                          /\ g.nonce <= view'[s].lastNonce
      BY <1>0 DEF ShownIsSealed, Out
    <3>1. CASE s # r
      <4>1. view'[s] = view[s]
        BY <1>0, <3>1 DEF Others
      <4>2. i \in 1..Len(view[s].shown)
        BY <4>1
      <4>3. \E g \in frames : /\ Out(g) /\ g.text[2] = view[s].shown[i]
                              /\ g.nonce <= view[s].lastNonce
        BY <1>1, <4>2 DEF ShownIsSealed
      <4> QED
        BY <4>1, <4>3
    <3>2. CASE s = r /\ i \in 1..Len(old)
      <4>1. PICK g \in frames : Out(g) /\ g.text[2] = old[i] /\ g.nonce <= view[r].lastNonce
        BY <2>6, <3>2
      <4>2. g.nonce <= view'[r].lastNonce
        BY <1>0, <2>2, <2>3, <4>1 DEF Frame
      <4> QED
        BY <2>5, <3>2, <4>1, <4>2
    <3>3. CASE s = r /\ i = Len(old) + 1
      <4>1. f.nonce <= view'[r].lastNonce
        BY <2>2, <2>3
      <4> QED
        BY <2>1, <2>2, <2>5, <3>3, <4>1
    <3> QED
      BY <2>5, <3>1, <3>2, <3>3
  <2>10. RevokedSeesNothingNew'
    <3> SUFFICES ASSUME NEW s \in RelayID, status[s] = "revoked", NEW g \in frames, Out(g),
                        g.nonce > revokedAt[s], NEW i \in DOMAIN view'[s].shown
                 PROVE  view'[s].shown[i] # g.text[2]
      BY <1>0 DEF RevokedSeesNothingNew, Out
    <3>1. CASE s # r
      BY <1>0, <1>1, <3>1 DEF RevokedSeesNothingNew, Others, Out
    <3>2. CASE s = r /\ i \in 1..Len(old)
      BY <1>1, <2>5, <3>2 DEF RevokedSeesNothingNew, Out, old
    <3>3. CASE s = r /\ i = Len(old) + 1
      \* The frame was sealed before the revocation: the viewer has its key.
      <4>1. f.key # 0
        BY <2>1 DEF IInv, ZeroedKeyNeverUsed
      <4>2. PICK w \in wraps : w.auth = r /\ w.key = f.key
        BY <2>2, <4>1 DEF KeyInv, KeysHeldAreOwn
      <4>3. ~(f.nonce > revokedAt[r])
        <5> SUFFICES ASSUME f.nonce > revokedAt[r] PROVE FALSE
          OBVIOUS
        <5>1. w.key < f.key
          BY <2>1, <3>3, <4>2 DEF IInv, RevokedKeysAreOld, RelayID
        <5> QED
          BY <2>3, <4>2, <5>1 DEF Frame
      \* So the later frame is another one and carries another chunk.
      <4>4. f.nonce < g.nonce
        BY <1>0, <2>3, <3>3, <4>3 DEF Frame
      <4>5. f.text[2] < g.text[2]
        BY <1>1, <2>1, <2>2, <4>4 DEF OutputNumbered
      <4> QED
        BY <2>3, <2>5, <3>3, <4>5
    <3> QED
      BY <2>5, <3>1, <3>2, <3>3
  <2> QED
    BY <1>2, <1>3, <2>8, <2>9, <2>10 DEF OutputInv
<1> QED
  <2>1. Connects(r) \/ GoesOn(r) \/ GetsKey(r) =>
          view'[r].shown = view[r].shown /\ view'[r].lastNonce >= view[r].lastNonce
    BY <1>0 DEF Connects, GoesOn, GetsKey, View
  <2>2. GetsFrame(r) => view'[r].lastNonce >= view[r].lastNonce
    BY DEF GetsFrame, Takes
  <2> QED
    BY <1>4, <1>5, <2>1, <2>2 DEF ViewerStep

\* OutputInv holds in the initial states.
LEMMA InitOutput == Init => OutputInv
<1> SUFFICES ASSUME Init PROVE OutputInv
  OBVIOUS
<1>1. /\ frames = {} /\ \A c \in Caller : pending[c] = Idle /\ held[c] = Idle
      /\ \A r \in RelayID : queue[r] = <<>> /\ view[r].shown = <<>> /\ status[r] = "fresh"
  BY DEF Init, NewSession, NewView, RelayID
<1>2. \A r \in RelayID : Len(queue[r]) = 0 /\ Len(view[r].shown) = 0
                         /\ DOMAIN view[r].shown = {}
  BY <1>1
<1> QED
  BY <1>1, <1>2 DEF OutputInv, OutputNumbered, FramesAreSealed, ShownIsSealed, ShownInOrder,
                    RevokedSeesNothingNew

\* In every reachable state the output on its way and on the screens is what
\* was read and sealed, in its order.
THEOREM OutputIsFaithful == SharingSpec => []OutputInv
<1>1. Init => OutputInv
  BY InitOutput
<1>2. Types /\ IInv /\ IInv' /\ KeyInv /\ OutputInv /\ [SharingNext]_allVars => OutputInv'
  <2> SUFFICES ASSUME Types, IInv, IInv', KeyInv, OutputInv, [SharingNext]_allVars
               PROVE  OutputInv'
    OBVIOUS
  <2>1. CASE SharerStep
    BY <2>1, SharerOutput
  <2>2. ASSUME NEW r \in RelayID, RunViewer(r) PROVE OutputInv'
    BY <2>2, RunViewerStep, ViewerOutput
  <2>3. CASE UNCHANGED allVars
    BY <2>3 DEF allVars, vars, sharerVars, netVars, OutputInv, OutputNumbered,
                FramesAreSealed, ShownIsSealed, ShownInOrder, RevokedSeesNothingNew, Out
  <2> QED
    BY <2>1, <2>2, <2>3, Steps
<1> QED
  BY <1>1, <1>2, TypesHold, SessionInvariant, KeysStayWithOwners, PTL DEF SharingSpec

\* A viewer shows the output in order and nothing twice, although the relay
\* may replay frames and drop others.
THEOREM OutputInOrder == SharingSpec => []ShownInOrder
  BY OutputIsFaithful, PTL DEF OutputInv

\* A revoked viewer, still connected and sent every message, never shows what
\* was sealed after its revocation.
THEOREM RevocationHolds == SharingSpec => []RevokedSeesNothingNew
  BY OutputIsFaithful, PTL DEF OutputInv

-----------------------------------------------------------------------------
\* viewerIDMap, step by step, when IDs do not collide.

\* What the induction needs to know of the map's entry for v and of relayLoop.
EntryOK(v) ==
    viewerIDMap[v] # None =>
        /\ v \in ListViewers => viewers[v] = viewerIDMap[v]
        /\ status[viewerIDMap[v]] # "fresh"
        /\ closed \/ v \in ListViewers \cup revokedIDs

OneEntryEach ==
    \A u, v \in ViewerID : viewerIDMap[u] = viewerIDMap[v] /\ viewerIDMap[v] # None => u = v

NewEntryOK ==
    loop.pc \in {"deliver", "map"} =>
        /\ status[loop.viewer] # "fresh"
        /\ closed \/ loop.id \in ListViewers \cup revokedIDs
        /\ loop.id \in ListViewers => viewers[loop.id] = loop.viewer
        /\ viewerIDMap[loop.id] = None
        /\ \A u \in ViewerID : viewerIDMap[u] # loop.viewer

\* MapInv, part by part.
LEMMA MapInvParts ==
    MapInv <=> /\ \A v \in ViewerID : EntryOK(v)
               /\ OneEntryEach /\ NewEntryOK
               /\ loop.pc = "remove" => viewerIDMap[loop.id] = None
  BY DEF MapInv, MapLeadsToOwner, EntryOK, OneEntryEach, NewEntryOK

\* MapInv of the next state, part by part.
LEMMA NextMapInvParts ==
    MapInv' <=> /\ \A v \in ViewerID : EntryOK(v)'
                /\ OneEntryEach' /\ NewEntryOK'
                /\ loop'.pc = "remove" => viewerIDMap'[loop'.id] = None
  BY DEF MapInv, MapLeadsToOwner, EntryOK, OneEntryEach, NewEntryOK

\* Nothing is entered; members leave, are revoked or lose their entries.
Shrinks ==
    /\ \A v \in ViewerID : viewerIDMap'[v] \in {None, viewerIDMap[v]}
    /\ \A v \in ListViewers' : v \in ListViewers /\ viewers'[v] = viewers[v]
    /\ \A v \in ViewerID : v \in ListViewers \cup revokedIDs /\ viewerIDMap'[v] # None =>
         closed' \/ v \in ListViewers' \cup revokedIDs'
    /\ closed => closed'

\* Entries that stay lead to the same viewers.
LEMMA ShrinkingKeepsMap ==
    ASSUME Types, HistoryGoes, MapInv, Shrinks
    PROVE  /\ \A v \in ViewerID : EntryOK(v)'
           /\ OneEntryEach'
<1>0. /\ viewerIDMap \in [ViewerID -> RelayID \cup {None}]
      /\ \A v \in ViewerID : EntryOK(v)
      /\ OneEntryEach
  BY MapInvParts DEF Types, SharerTypes
<1>1. OneEntryEach'
  BY <1>0 DEF Shrinks, OneEntryEach
<1>2. ASSUME NEW v \in ViewerID, viewerIDMap'[v] # None
      PROVE  /\ v \in ListViewers' => viewers'[v] = viewerIDMap'[v]
             /\ status'[viewerIDMap'[v]] # "fresh"
             /\ closed' \/ v \in ListViewers' \cup revokedIDs'
  <2>1. viewerIDMap'[v] = viewerIDMap[v] /\ viewerIDMap[v] \in RelayID
    BY <1>0, <1>2 DEF Shrinks
  <2>2. /\ v \in ListViewers => viewers[v] = viewerIDMap[v]
        /\ status[viewerIDMap[v]] # "fresh"
        /\ closed \/ v \in ListViewers \cup revokedIDs
    BY <1>0, <1>2, <2>1 DEF EntryOK
  <2> QED
    BY <1>2, <2>1, <2>2 DEF Shrinks, HistoryGoes
<1>3. \A v \in ViewerID : EntryOK(v)'
  BY <1>2 DEF EntryOK
<1> QED
  BY <1>1, <1>3

\* The entry relayLoop is about to make stays right while others leave or are revoked.
LEMMA ShrinkingKeepsNewEntry ==
    ASSUME Types, HistoryGoes, MapInv, Shrinks, loop.pc \in {"deliver", "map"},
           loop'.viewer = loop.viewer, loop'.id = loop.id,
           loop.id \in ListViewers \cup revokedIDs =>
               closed' \/ loop.id \in ListViewers' \cup revokedIDs'
    PROVE  NewEntryOK'
<1>0. /\ loop.viewer \in RelayID /\ loop.id \in ViewerID
      /\ viewerIDMap \in [ViewerID -> RelayID \cup {None}]
  BY DEF Types, LoopTypes, SharerTypes
<1>1. /\ status[loop.viewer] # "fresh"
      /\ closed \/ loop.id \in ListViewers \cup revokedIDs
      /\ loop.id \in ListViewers => viewers[loop.id] = loop.viewer
      /\ viewerIDMap[loop.id] = None
      /\ \A u \in ViewerID : viewerIDMap[u] # loop.viewer
  BY MapInvParts DEF NewEntryOK
<1>2. \A u \in ViewerID : viewerIDMap'[u] # loop.viewer
  BY <1>0, <1>1 DEF Shrinks
<1>3. viewerIDMap'[loop.id] = None
  BY <1>0, <1>1 DEF Shrinks
<1>4. loop.id \in ListViewers' => viewers'[loop.id] = loop.viewer
  BY <1>1 DEF Shrinks
<1>5. status'[loop.viewer] # "fresh"
  BY <1>0, <1>1 DEF HistoryGoes
<1>6. closed' \/ loop.id \in ListViewers' \cup revokedIDs'
  BY <1>1 DEF Shrinks
<1> QED
  BY <1>2, <1>3, <1>4, <1>5, <1>6 DEF NewEntryOK

\* Registration: the ID is new, so nothing leads to it or to the new viewer.
LEMMA confirmKeepsMap ==
    ASSUME Types, IInv, MapInv, HistoryGoes, UniqueIDs, NEW r \in RelayID, NEW v \in ViewerID,
           handleConfirmB(r, v)
    PROVE  MapInv'
<1>0. /\ viewerIDMap \in [ViewerID -> RelayID \cup {None}] /\ LoopTypes
      /\ viewers \in [ViewerID -> AuthKey \cup {NoAuth}] /\ status \in [RelayID -> Fate]
      /\ \A u \in ViewerID : EntryOK(u)
      /\ OneEntryEach
  BY MapInvParts DEF Types, SharerTypes, IInv, TypeOK, RelayID
<1>1. /\ ~closed /\ closed' = closed /\ status[r] = "fresh"
      /\ v \notin ListViewers \cup revokedIDs
      /\ viewers' = [viewers EXCEPT ![v] = r] /\ status' = [status EXCEPT ![r] = "member"]
      /\ revokedIDs' = revokedIDs /\ viewerIDMap' = viewerIDMap
  BY DEF handleConfirmB, RegisterViewer, IsOpen, DrawnID
<1>2. loop'.pc = "deliver" /\ loop'.viewer = r /\ loop'.id = v
  <2> DEFINE w == [auth |-> r, key |-> streamKey, nonce |-> nonce + 1]
  <2>1. loop' = [loop EXCEPT !.pc = "deliver", !.viewer = r, !.id = v, !.wrap = w]
    BY DEF handleConfirmB
  <2> HIDE DEF w
  <2> QED
    BY <1>0, <2>1 DEF LoopTypes
<1>3. /\ viewers'[v] = r /\ \A u \in ViewerID \ {v} : viewers'[u] = viewers[u]
      /\ ListViewers' = ListViewers \cup {v}
  <2>1. viewers'[v] = r /\ \A u \in ViewerID \ {v} : viewers'[u] = viewers[u]
    BY <1>0, <1>1
  <2>2. r # NoAuth
    BY DEF RelayID
  <2> QED
    BY <2>1, <2>2 DEF ListViewers
<1>4. viewerIDMap[v] = None
  BY <1>0, <1>1 DEF EntryOK
<1>5. \A u \in ViewerID : viewerIDMap[u] # r
  BY <1>0, <1>1 DEF EntryOK
<1>6. \A u \in ViewerID : EntryOK(u)'
  <2> SUFFICES ASSUME NEW u \in ViewerID, viewerIDMap[u] # None
               PROVE  /\ u \in ListViewers' => viewers'[u] = viewerIDMap[u]
                      /\ status'[viewerIDMap[u]] # "fresh"
                      /\ closed' \/ u \in ListViewers' \cup revokedIDs'
    BY <1>1 DEF EntryOK
  <2>1. u # v /\ viewerIDMap[u] \in RelayID /\ EntryOK(u)
    BY <1>0, <1>4
  <2> QED
    BY <1>1, <1>3, <2>1 DEF EntryOK, HistoryGoes
<1>7. OneEntryEach'
  BY <1>0, <1>1 DEF OneEntryEach
<1>8. NewEntryOK'
  <2>1. status'[r] # "fresh"
    BY <1>0, <1>1
  <2> QED
    BY <1>1, <1>2, <1>3, <1>4, <1>5, <2>1 DEF NewEntryOK
<1> QED
  BY <1>2, <1>6, <1>7, <1>8, NextMapInvParts

\* relayLoop enters the viewer it has registered.
LEMMA mapViewerKeepsMap ==
    ASSUME Types, MapInv, mapViewer
    PROVE  MapInv'
<1>0. /\ viewerIDMap \in [ViewerID -> RelayID \cup {None}] /\ loop.pc = "map"
      /\ loop.viewer \in RelayID /\ loop.id \in ViewerID
      /\ \A u \in ViewerID : EntryOK(u)
      /\ OneEntryEach /\ NewEntryOK
  BY MapInvParts DEF Types, SharerTypes, LoopTypes, mapViewer
<1>1. /\ viewerIDMap' = [viewerIDMap EXCEPT ![loop.id] = loop.viewer]
      /\ UNCHANGED <<viewers, status, closed, revokedIDs>> /\ loop'.pc = "joined"
  BY DEF mapViewer, MapEntry, vars, Types, LoopTypes
<1>2. /\ viewerIDMap'[loop.id] = loop.viewer
      /\ \A u \in ViewerID \ {loop.id} : viewerIDMap'[u] = viewerIDMap[u]
  BY <1>0, <1>1
<1>3. ListViewers' = ListViewers
  BY <1>1 DEF ListViewers
<1>4. \A u \in ViewerID : EntryOK(u)'
  <2> SUFFICES ASSUME NEW u \in ViewerID PROVE EntryOK(u)'
    OBVIOUS
  <2>1. CASE u = loop.id
    BY <1>0, <1>1, <1>2, <1>3, <2>1 DEF EntryOK, NewEntryOK
  <2>2. CASE u # loop.id
    BY <1>0, <1>1, <1>2, <1>3, <2>2 DEF EntryOK
  <2> QED
    BY <2>1, <2>2
<1>5. OneEntryEach'
  BY <1>0, <1>2 DEF OneEntryEach, NewEntryOK
<1> QED
  BY <1>1, <1>4, <1>5, NextMapInvParts DEF NewEntryOK

\* Steps of the sharer and the relay preserve MapInv, if IDs are not drawn twice.
LEMMA SharerMap ==
    ASSUME Types, IInv, MapInv, UniqueIDs, SharerStep
    PROVE  MapInv'
<1>0. /\ HistoryGoes /\ LoopTypes
      /\ viewerIDMap \in [ViewerID -> RelayID \cup {None}]
      /\ viewers \in [ViewerID -> AuthKey \cup {NoAuth}]
  BY SharerHistory DEF Types, SharerTypes, IInv, TypeOK
<1>1. CASE Quiet
  <2>1. Shrinks
    BY <1>1 DEF Quiet, Shrinks, ListViewers
  <2>2. loop.id \in ListViewers \cup revokedIDs =>
          closed' \/ loop.id \in ListViewers' \cup revokedIDs'
    BY <1>1 DEF Quiet, ListViewers
  <2>3. NewEntryOK'
    <3>1. CASE loop' = loop /\ loop.pc \in {"deliver", "map"}
      BY <1>0, <2>1, <2>2, <3>1, ShrinkingKeepsNewEntry
    <3>2. CASE loop'.pc \notin {"deliver", "map"}
      BY <3>2 DEF NewEntryOK
    <3> QED
      BY <1>1, <3>1, <3>2 DEF Quiet
  <2>4. loop'.pc = "remove" => viewerIDMap'[loop'.id] = None
    BY <1>1, MapInvParts DEF Quiet
  <2> QED
    BY <1>0, <2>1, <2>3, <2>4, ShrinkingKeepsMap, NextMapInvParts
<1>2. CASE deliverKey
  <2>0. UNCHANGED <<viewers, status, closed, revokedIDs, viewerIDMap>> /\ loop.pc = "deliver"
    BY <1>2 DEF deliverKey, vars
  <2>1. Shrinks
    BY <2>0 DEF Shrinks, ListViewers
  <2>2. loop' = IdleLoop \/ loop' = [loop EXCEPT !.pc = "map", !.wrap = None]
    BY <1>2 DEF deliverKey
  <2>3. CASE loop' = IdleLoop
    <3>1. loop'.pc = "recv"
      BY <2>3 DEF IdleLoop
    <3> QED
      BY <1>0, <2>1, <3>1, ShrinkingKeepsMap, NextMapInvParts DEF NewEntryOK
  <2>4. CASE loop' = [loop EXCEPT !.pc = "map", !.wrap = None]
    <3>1. loop'.pc = "map" /\ loop'.viewer = loop.viewer /\ loop'.id = loop.id
      BY <1>0, <2>4 DEF LoopTypes
    <3>2. NewEntryOK'
      BY <1>0, <2>0, <2>1, <3>1, ShrinkingKeepsNewEntry DEF ListViewers
    <3> QED
      BY <1>0, <2>1, <3>1, <3>2, ShrinkingKeepsMap, NextMapInvParts
  <2> QED
    BY <2>2, <2>3, <2>4
<1>3. CASE mapViewer
  BY <1>3, mapViewerKeepsMap
<1>4. CASE removeLeftViewer
  <2>0. /\ viewerIDMap[loop.id] = None /\ viewerIDMap' = viewerIDMap /\ loop'.pc = "recv"
        /\ loop.id \in ViewerID
    BY <1>0, <1>4, MapInvParts DEF removeLeftViewer, IdleLoop, LoopTypes
  <2>1. /\ UNCHANGED <<closed, revokedIDs>>
        /\ UNCHANGED viewers \/ viewers' = [viewers EXCEPT ![loop.id] = NoAuth]
    BY <1>4 DEF removeLeftViewer, RemoveViewer, vars
  <2>2. Shrinks
    BY <1>0, <2>0, <2>1 DEF Shrinks, ListViewers
  <2> QED
    BY <1>0, <2>0, <2>2, ShrinkingKeepsMap, NextMapInvParts DEF NewEntryOK
<1>5. ASSUME NEW r \in RelayID, handleViewerDisconnect(r) PROVE MapInv'
  <2>0. /\ UNCHANGED <<viewers, status, closed, revokedIDs>> /\ loop.pc = "recv"
    BY <1>5 DEF handleViewerDisconnect, Received, vars
  <2>1. CASE UNCHANGED <<viewerIDMap, loop>>
    BY <1>1, <2>0, <2>1 DEF Quiet, MapInv, MapLeadsToOwner, ListViewers
  <2>2. ASSUME NEW v \in ViewerID, viewerIDMap' = [viewerIDMap EXCEPT ![v] = None],
               loop' = [loop EXCEPT !.pc = "remove", !.id = v]
        PROVE  MapInv'
    <3>1. loop'.pc = "remove" /\ loop'.id = v
      BY <1>0, <2>2 DEF LoopTypes
    <3>2. viewerIDMap'[v] = None /\ Shrinks
      BY <1>0, <2>0, <2>2 DEF Shrinks, ListViewers
    <3> QED
      BY <1>0, <3>1, <3>2, ShrinkingKeepsMap, NextMapInvParts DEF NewEntryOK
  <2> QED
    BY <1>5, <2>1, <2>2 DEF handleViewerDisconnect, Unmapped
<1>6. ASSUME NEW r \in RelayID, NEW v \in ViewerID, handleConfirmB(r, v) PROVE MapInv'
  BY <1>0, <1>6, confirmKeepsMap
<1>7. ASSUME NEW k \in Revoker, Revoke(k) PROVE MapInv'
  <2>0. loop' = loop
    BY <1>7 DEF Revoke, RevokeBegin, RevokeUnmap, RevokeRekey, RevokeSend, RevokeReturn
  <2>1. /\ \A v \in ViewerID : viewerIDMap'[v] \in {None, viewerIDMap[v]}
        /\ closed' = closed
        /\ \/ UNCHANGED <<viewers, revokedIDs>>
           \/ \E v \in ViewerID : /\ viewers' = [viewers EXCEPT ![v] = NoAuth]
                                  /\ revokedIDs' = revokedIDs \cup {v}
    <3>1. ASSUME NEW v \in ViewerID, RevokeBegin(k, v)
          PROVE  /\ viewerIDMap' = viewerIDMap /\ closed' = closed
                 /\ viewers' = [viewers EXCEPT ![v] = NoAuth]
                 /\ revokedIDs' = revokedIDs \cup {v}
      BY <3>1 DEF RevokeBegin, RevokeViewer
    <3>2. CASE RevokeUnmap(k)
      BY <1>0, <3>2 DEF RevokeUnmap, vars
    <3>3. CASE RevokeSend(k) \/ RevokeReturn(k) \/ \E rk \in revoke[k].rekeys : RevokeRekey(k, rk)
      BY <3>3 DEF RevokeSend, RevokeReturn, RevokeRekey, vars
    <3> QED
      BY <1>7, <3>1, <3>2, <3>3 DEF Revoke
  <2>2. \A v \in ViewerID : v \in ListViewers \cup revokedIDs =>
                              v \in ListViewers' \cup revokedIDs'
    BY <1>0, <2>1 DEF ListViewers
  <2>3. Shrinks
    BY <1>0, <2>1, <2>2 DEF Shrinks, ListViewers
  <2>4. NewEntryOK'
    <3>1. CASE loop.pc \in {"deliver", "map"}
      <4>1. loop.id \in ViewerID
        BY <1>0, <3>1 DEF LoopTypes
      <4> QED
        BY <1>0, <2>0, <2>2, <2>3, <3>1, <4>1, ShrinkingKeepsNewEntry
    <3>2. CASE loop.pc \notin {"deliver", "map"}
      BY <2>0, <3>2 DEF NewEntryOK
    <3> QED
      BY <3>1, <3>2
  <2>5. loop'.pc = "remove" => viewerIDMap'[loop'.id] = None
    BY <1>0, <2>0, <2>1, MapInvParts DEF LoopTypes
  <2> QED
    BY <1>0, <2>3, <2>4, <2>5, ShrinkingKeepsMap, NextMapInvParts
<1> QED
  BY <1>1, <1>2, <1>3, <1>4, <1>5, <1>6, <1>7, SharerCases

\* MapInv holds in the initial states.
LEMMA InitMap == Init => MapInv
<1> SUFFICES ASSUME Init PROVE MapInv
  OBVIOUS
<1>1. \A v \in ViewerID : viewerIDMap[v] = None
  BY DEF Init
<1>2. loop.pc \in {"recv", "start"}
  BY DEF Init, IdleLoop
<1> QED
  BY <1>1, <1>2 DEF MapInv, MapLeadsToOwner

\* viewerIDMap, its new entries and the session agree in every reachable state.
LEMMA MapInvHolds ==
    ASSUME UniqueIDs
    PROVE  SharingSpec => []MapInv
<1>1. Init => MapInv
  BY InitMap
<1>2. Types /\ IInv /\ MapInv /\ [SharingNext]_allVars => MapInv'
  <2> SUFFICES ASSUME Types, IInv, MapInv, [SharingNext]_allVars
               PROVE  MapInv'
    OBVIOUS
  <2>1. CASE SharerStep
    BY <2>1, SharerMap
  <2>2. CASE UNCHANGED <<vars, sharerVars>>
    BY <2>2 DEF vars, sharerVars, MapInv, MapLeadsToOwner, ListViewers
  <2>3. ASSUME NEW r \in RelayID, RunViewer(r) PROVE MapInv'
    BY <2>2, <2>3, RunViewerStep
  <2> QED
    BY <2>1, <2>2, <2>3, Steps DEF allVars
<1> QED
  BY <1>1, <1>2, TypesHold, SessionInvariant, PTL DEF SharingSpec

\* If the random IDs do not collide, viewerIDMap leads every key to the viewer
\* whose auth key it is sealed under, however departures, revocations and
\* registrations interleave.
THEOREM MapIsRight ==
    ASSUME UniqueIDs
    PROVE  SharingSpec => []MapLeadsToOwner
  BY MapInvHolds, PTL DEF MapInv

-----------------------------------------------------------------------------
\* The current key, when IDs do not collide.

\* v is the ID of viewer r, for as long as r is a member.
OwnID(r, v) == status[r] = "member" => viewers[v] = r

\* Keys carry the ID of the viewer they are for, and a watching viewer has it.
IDsAreOwn ==
    /\ \A r \in RelayID : view[r].pc = "active" =>
         conn[r] /\ status[r] # "fresh" /\ view[r].id \in ViewerID /\ OwnID(r, view[r].id)
    /\ \A r \in RelayID : \A i \in 1..Len(queue[r]) :
         OwnKey(r, queue[r][i]) => OwnID(r, queue[r][i].id)
    /\ loop.pc = "deliver" => OwnID(loop.viewer, loop.id)

\* A rekey that is being sent, or is still to be.
IsDue(k, rk) == rk \in revoke[k].rekeys \/ (revoke[k].pc = "send" /\ rk = revoke[k].rekey)

\* The rekeys that are due carry their viewers' IDs and go to them.
RekeysAreOwn ==
    \A k \in Revoker :
        /\ revoke[k].pc \in {"idle", "done"} => revoke[k].rekeys = {}
        /\ \A rk \in Rekey : IsDue(k, rk) =>
             status[rk.wrap.auth] # "fresh" /\ OwnID(rk.wrap.auth, rk.id)
        /\ revoke[k].pc = "send" /\ status[revoke[k].rekey.wrap.auth] = "member" =>
             revoke[k].to = revoke[k].rekey.wrap.auth

\* While a viewer waits for its key delivery no key has been sent to it.
DeliveryIsFirst ==
    loop.pc = "deliver" =>
        /\ view[loop.viewer].pc # "active" /\ ~Answered(loop.viewer)
        /\ \A i \in 1..Len(queue[loop.viewer]) : queue[loop.viewer][i].kind # "key"

\* Viewer r has key s, or will when it has read q: the last key for it in q is s.
Reaches(r, q, w, s) ==
    \/ \E i \in 1..Len(q) : /\ OwnKey(r, q[i]) /\ q[i].wrap.key = s
                            /\ \A j \in (i + 1)..Len(q) : ~OwnKey(r, q[j])
    \/ /\ \A i \in 1..Len(q) : ~OwnKey(r, q[i])
       /\ w.pc = "active" /\ w.key = s

\* A Revoke is still to send viewer r the key in use.
Owed(r) ==
    \E k \in Revoker : \E rk \in Rekey :
        IsDue(k, rk) /\ rk.wrap.auth = r /\ rk.wrap.key = streamKey

\* The key in use is due, being delivered, under way or in the hands of every
\* connected member that did not miss it.
Follows(r) ==
    conn[r] /\ status[r] = "member" /\ r \notin missed =>
        \/ Owed(r)
        \/ loop.pc = "deliver" /\ loop.viewer = r /\ loop.wrap.key = streamKey
        \/ Reaches(r, queue[r], view[r], streamKey)

InTouch ==
    /\ ~closed
    /\ IDsAreOwn
    /\ RekeysAreOwn
    /\ DeliveryIsFirst
    /\ \A r \in RelayID : Follows(r)

FollowInv == relayUp => InTouch

\* An ID that is a viewer's own stays it.
LEMMA OwnIDStays ==
    ASSUME IInv, UniqueIDs, [Next]_vars, ~closed',
           NEW r \in RelayID, NEW v \in ViewerID, status[r] # "fresh", OwnID(r, v)
    PROVE  OwnID(r, v)'
<1> SUFFICES ASSUME status'[r] = "member"
             PROVE  viewers'[v] = r
  BY DEF OwnID
<1>0. /\ status \in [AuthKey -> Fate] /\ viewers \in [ViewerID -> AuthKey \cup {NoAuth}]
      /\ r \in AuthKey /\ r # NoAuth
  BY DEF IInv, TypeOK, RelayID
<1>1. ASSUME NEW u \in ViewerID, NEW a \in AuthKey, RegisterViewer(u, a)
      PROVE  viewers'[v] = r
  <2>1. /\ status[a] = "fresh" /\ u \notin ListViewers
        /\ viewers' = [viewers EXCEPT ![u] = a] /\ status' = [status EXCEPT ![a] = "member"]
    BY <1>1 DEF RegisterViewer, DrawnID
  <2>2. viewers[v] = r
    BY <1>0, <2>1 DEF OwnID
  <2> QED
    BY <1>0, <2>1, <2>2 DEF ListViewers
<1>2. ASSUME NEW u \in ViewerID, RevokeViewer(u) \/ RemoveViewer(u)
      PROVE  viewers'[v] = r
  <2>1. /\ viewers[u] \in AuthKey /\ viewers' = [viewers EXCEPT ![u] = NoAuth]
        /\ \/ status' = [status EXCEPT ![viewers[u]] = "revoked"]
           \/ status' = [status EXCEPT ![viewers[u]] = "left"]
    BY <1>0, <1>2 DEF RevokeViewer, RemoveViewer, ListViewers
  <2>2. status[r] = "member" /\ r # viewers[u]
    BY <1>0, <2>1
  <2> QED
    BY <1>0, <2>1, <2>2 DEF OwnID
<1>3. CASE \/ \E c \in Caller, p \in Plaintext : EncryptFrameBegin(c, p)
           \/ \E c \in Caller : EncryptFrameSeal(c)
           \/ Tick \/ UNCHANGED vars
  BY <1>3 DEF EncryptFrameBegin, EncryptFrameSeal, Tick, vars, OwnID
<1>4. CASE Close
  BY <1>4 DEF Close
<1> QED
  BY <1>1, <1>2, <1>3, <1>4 DEF Next

\* A member has one ID.
LEMMA OwnIDIsOne ==
    ASSUME IInv, NEW r \in RelayID, NEW u \in ViewerID, NEW v \in ViewerID,
           status[r] = "member", OwnID(r, u), OwnID(r, v)
    PROVE  u = v /\ u \in ListViewers
  BY DEF OwnID, IInv, ViewersAreMembers, ListViewers, RelayID

\* What reading and sending does to the key that a viewer will have.
LEMMA ReachesAppend ==
    ASSUME NEW r, NEW q \in Seq(Msg), NEW m \in Msg, NEW w, NEW s,
           \/ ~OwnKey(r, m) /\ Reaches(r, q, w, s)
           \/ OwnKey(r, m) /\ m.wrap.key = s
    PROVE  Reaches(r, Append(q, m), w, s)
<1> DEFINE p == Append(q, m)
<1>0. /\ Len(p) = Len(q) + 1 /\ p[Len(q) + 1] = m /\ Len(q) \in Nat
      /\ \A i \in 1..Len(q) : p[i] = q[i]
  BY Appended
<1> HIDE DEF p
<1>1. CASE OwnKey(r, m) /\ m.wrap.key = s
  <2>1. Len(q) + 1 \in 1..Len(p) /\ \A j \in (Len(q) + 2)..Len(p) : FALSE
    BY <1>0
  <2> QED
    BY <1>0, <1>1, <2>1 DEF Reaches, p
<1>2. ASSUME ~OwnKey(r, m), NEW i \in 1..Len(q), OwnKey(r, q[i]), q[i].wrap.key = s,
             \A j \in (i + 1)..Len(q) : ~OwnKey(r, q[j])
      PROVE  Reaches(r, p, w, s)
  <2>1. i \in 1..Len(p) /\ p[i] = q[i]
    BY <1>0
  <2>2. \A j \in (i + 1)..Len(p) : ~OwnKey(r, p[j])
    <3> TAKE j \in (i + 1)..Len(p)
    <3>1. CASE j = Len(q) + 1
      BY <1>0, <1>2, <3>1
    <3>2. CASE j # Len(q) + 1
      <4>1. j \in (i + 1)..Len(q) /\ j \in 1..Len(q)
        BY <1>0, <3>2
      <4> QED
        BY <1>0, <1>2, <4>1
    <3> QED
      BY <3>1, <3>2
  <2> QED
    BY <1>2, <2>1, <2>2 DEF Reaches
<1>3. CASE /\ ~OwnKey(r, m) /\ \A i \in 1..Len(q) : ~OwnKey(r, q[i])
           /\ w.pc = "active" /\ w.key = s
  <2>1. \A i \in 1..Len(p) : i \in 1..Len(q) \/ i = Len(q) + 1
    BY <1>0
  <2>2. \A i \in 1..Len(p) : ~OwnKey(r, p[i])
    BY <1>0, <1>3, <2>1
  <2> QED
    BY <1>3, <2>2 DEF Reaches
<1> QED
  BY <1>1, <1>2, <1>3 DEF Reaches, p

\* The viewer reads a message; if it is a key for it, it takes it.
LEMMA ReachesTail ==
    ASSUME NEW r, NEW q \in Seq(Msg), q # <<>>, NEW w, NEW x, NEW s, Reaches(r, q, w, s),
           OwnKey(r, Head(q)) => x.pc = "active" /\ x.key = Head(q).wrap.key,
           ~OwnKey(r, Head(q)) /\ w.pc = "active" => x.pc = "active" /\ x.key = w.key
    PROVE  Reaches(r, Tail(q), x, s)
<1> DEFINE p == Tail(q)
<1>0. /\ Len(q) \in Nat \ {0} /\ Len(p) = Len(q) - 1 /\ Head(q) = q[1]
      /\ \A i \in 1..Len(p) : p[i] = q[i + 1]
  BY Popped
<1> HIDE DEF p
<1>1. \A i \in 1..Len(p) : i + 1 \in 1..Len(q)
  BY <1>0
<1>2. ASSUME NEW i \in 1..Len(q), OwnKey(r, q[i]), q[i].wrap.key = s,
             \A j \in (i + 1)..Len(q) : ~OwnKey(r, q[j])
      PROVE  Reaches(r, p, x, s)
  <2>1. CASE i = 1
    <3>1. x.pc = "active" /\ x.key = s
      BY <1>0, <1>2, <2>1
    <3>2. \A j \in 1..Len(p) : j + 1 \in (i + 1)..Len(q)
      BY <1>0, <2>1
    <3>3. \A j \in 1..Len(p) : ~OwnKey(r, p[j])
      BY <1>0, <1>2, <3>2
    <3> QED
      BY <3>1, <3>3 DEF Reaches
  <2>2. CASE i # 1
    <3>1. i - 1 \in 1..Len(p) /\ p[i - 1] = q[i]
      BY <1>0, <2>2
    <3>2. \A j \in ((i - 1) + 1)..Len(p) : j \in 1..Len(p) /\ j + 1 \in (i + 1)..Len(q)
      BY <1>0, <2>2
    <3>3. \A j \in ((i - 1) + 1)..Len(p) : ~OwnKey(r, p[j])
      BY <1>0, <1>2, <3>2
    <3> QED
      BY <1>2, <3>1, <3>3 DEF Reaches
  <2> QED
    BY <2>1, <2>2
<1>3. CASE /\ \A i \in 1..Len(q) : ~OwnKey(r, q[i])
           /\ w.pc = "active" /\ w.key = s
  <2>1. \A i \in 1..Len(p) : ~OwnKey(r, p[i])
    BY <1>0, <1>1, <1>3
  <2>2. ~OwnKey(r, Head(q))
    BY <1>0, <1>3
  <2> QED
    BY <1>3, <2>1, <2>2 DEF Reaches
<1> QED
  BY <1>2, <1>3 DEF Reaches, p

\* Steps of the sharer and the relay that leave members, keys and Revoke calls
\* alone and send no key.
NoKeySent ==
    \A r \in RelayID : \/ queue'[r] = queue[r]
                       \/ \E m \in Msg : m.kind # "key" /\ queue'[r] = Append(queue[r], m)

Calm ==
    /\ UNCHANGED <<streamKey, viewers, status, closed, revoke, missed>>
    /\ loop' = loop \/ (loop.pc # "deliver" /\ loop'.pc # "deliver")
    /\ NoKeySent

\* A broadcast of a frame is no key.
LEMMA FramesAreNoKeys ==
    ASSUME Types, NEW f \in Frame, Broadcast(Message(f))
    PROVE  NoKeySent
<1>1. Message(f) \in Msg /\ Message(f).kind # "key" /\ queue \in [RelayID -> Seq(Msg)]
  BY MessageTyped DEF Message, Types, NetTypes
<1> QED
  BY <1>1 DEF Broadcast, NoKeySent

\* The steps of the sharer that matter to the current key, while it is connected.
LEMMA CalmCases ==
    ASSUME Types, IInv, SharerStep, relayUp'
    PROVE  \/ Calm \/ deliverKey \/ removeLeftViewer
           \/ \E r \in RelayID : \E v \in ViewerID : handleConfirmB(r, v)
           \/ \E k \in Revoker : Revoke(k)
<1> USE DEF netVars
<1>0. queue \in [RelayID -> Seq(Msg)] /\ LoopTypes /\ held \in [Caller -> Frame \cup {Idle}]
  BY DEF Types, NetTypes, SharerTypes
<1>1. ASSUME NEW r \in RelayID, handleInit(r) \/ handleMsgB(r) PROVE Calm
  <2>1. PICK m \in BareMsg : Unicast(r, m)
    BY <1>1 DEF handleInit, handleMsgB, BareMsg
  <2>2. m \in Msg /\ m.kind # "key"
    BY DEF Msg, BareMsg
  <2>3. NoKeySent
    BY <1>0, <2>1, <2>2 DEF Unicast, NoKeySent
  <2>4. UNCHANGED <<vars, revoke, missed, loop>>
    BY <1>1 DEF handleInit, handleMsgB
  <2> QED
    BY <2>3, <2>4 DEF Calm, vars
<1>2. ASSUME NEW r \in RelayID, handleRefused(r) \/ handleViewerDisconnect(r)
      PROVE  Calm
  <2>1. UNCHANGED <<vars, revoke, missed, queue>>
    BY <1>2 DEF handleRefused, handleViewerDisconnect
  <2>2. loop' = loop \/ \E v \in ViewerID : loop' = [loop EXCEPT !.pc = "remove", !.id = v]
    BY <1>2 DEF handleRefused, handleViewerDisconnect
  <2>3. loop' = loop \/ (loop.pc # "deliver" /\ loop'.pc # "deliver")
    BY <1>0, <1>2, <2>2 DEF LoopTypes, handleRefused, handleViewerDisconnect, Received
  <2> QED
    BY <2>1, <2>3 DEF Calm, NoKeySent, vars
<1>3. CASE mapViewer \/ viewerJoined \/ RunStart
  <2>1. UNCHANGED <<vars, revoke, missed, queue>>
    BY <1>3 DEF mapViewer, viewerJoined, RunStart
  <2>2. loop'.pc # "deliver" /\ loop.pc # "deliver"
    <3>0. loop.pc # "deliver"
      BY <1>3 DEF mapViewer, viewerJoined, RunStart
    <3>1. CASE mapViewer
      BY <1>0, <3>1 DEF mapViewer, LoopTypes
    <3>2. CASE viewerJoined \/ RunStart
      <4>1. loop' = IdleLoop \/ loop' = [IdleLoop EXCEPT !.pc = "encrypt", !.size = termSize]
        BY <3>2 DEF viewerJoined, RunStart
      <4>2. IdleLoop.pc = "recv"
        BY DEF IdleLoop
      <4>3. [IdleLoop EXCEPT !.pc = "encrypt", !.size = termSize].pc = "encrypt"
        BY DEF IdleLoop
      <4> QED
        BY <3>0, <4>1, <4>2, <4>3
    <3> QED
      BY <1>3, <3>0, <3>1, <3>2
  <2> QED
    BY <2>1, <2>2 DEF Calm, NoKeySent, vars
<1>4. CASE joinedSizeEncrypt
  BY <1>0, <1>4 DEF joinedSizeEncrypt, EncryptFrameBegin, Calm, NoKeySent, LoopTypes
<1>5. CASE streamLoopRead \/ SetTermSizeEncrypt
  BY <1>5 DEF streamLoopRead, SetTermSizeEncrypt, EncryptFrameBegin, Calm, NoKeySent, vars
<1>6. CASE streamLoopSend \/ SetTermSizeSend \/ joinedSizeSend
  <2>1. \/ \E c \in Caller : held[c] # Idle /\ Broadcast(Message(held[c]))
        \/ UNCHANGED queue
    BY <1>6 DEF streamLoopSend, SetTermSizeSend, joinedSizeSend
  <2>2. NoKeySent
    BY <1>0, <2>1, FramesAreNoKeys DEF NoKeySent
  <2>3. /\ UNCHANGED <<vars, revoke, missed>>
        /\ loop' = loop \/ (loop.pc = "send" /\ loop' = IdleLoop)
    BY <1>6 DEF streamLoopSend, SetTermSizeSend, joinedSizeSend
  <2> QED
    BY <2>2, <2>3 DEF Calm, vars, IdleLoop
<1>7. CASE SetTermSize
  BY <1>7 DEF SetTermSize, Calm, NoKeySent, vars
<1>8. ASSUME NEW c \in Caller, EncryptFrameReturn(c) PROVE Calm
  BY <1>8 DEF EncryptFrameReturn, EncryptFrameSeal, Calm, NoKeySent
<1>9. ASSUME NEW r \in RelayID, RelayReplays(r) PROVE Calm
  <2>1. PICK f \in frames : queue' = [queue EXCEPT ![r] = Append(queue[r], Message(f))]
    BY <1>9 DEF RelayReplays
  <2>2. Message(f) \in Msg /\ Message(f).kind # "key"
    BY MessageTyped DEF IInv, TypeOK, Message
  <2>3. NoKeySent
    BY <1>0, <2>1, <2>2 DEF NoKeySent
  <2>4. UNCHANGED <<vars, sharerVars>>
    BY <1>9 DEF RelayReplays
  <2> QED
    BY <2>3, <2>4 DEF Calm, vars, sharerVars
<1>10. CASE RelayLost \/ RunEnd
  BY <1>10 DEF RelayLost, RunEnd
<1>11. CASE Clock
  BY <1>11 DEF Clock, Tick, sharerVars, Calm, NoKeySent
<1> QED
  BY <1>1, <1>2, <1>3, <1>4, <1>5, <1>6, <1>7, <1>8, <1>9, <1>10, <1>11
     DEF SharerStep, RelayLoop, StreamLoop, Resize

\* A lost connection stays lost.
LEMMA RelayStaysLost ==
    ASSUME [SharingNext]_allVars, relayUp'
    PROVE  relayUp
<1> USE DEF netVars
<1>1. ASSUME NEW r \in RelayID, RunViewer(r) \/ RelayReplays(r) PROVE UNCHANGED relayUp
  BY <1>1 DEF RunViewer, RelayReplays, viewerConnect, handshakeSkips, viewerExchange,
       viewerConfirm, processKeyDelivery, processRekey, GraceEnds, viewerFrame, viewerEnded,
       viewerLeaves
<1>2. ASSUME NEW k \in Revoker, Revoke(k) PROVE UNCHANGED relayUp
  BY <1>2 DEF Revoke, RevokeBegin, RevokeUnmap, RevokeRekey, RevokeSend, RevokeReturn
<1>3. CASE RelayLoop
  BY <1>3 DEF RelayLoop, handleInit, handleMsgB, handleRefused, handleViewerDisconnect,
       handleConfirmB, deliverKey, mapViewer, viewerJoined, joinedSizeEncrypt, joinedSizeSend,
       removeLeftViewer
<1>4. CASE StreamLoop \/ Resize \/ \E c \in Caller : EncryptFrameReturn(c)
  BY <1>4 DEF StreamLoop, streamLoopRead, streamLoopSend, Resize, SetTermSize,
       SetTermSizeEncrypt, SetTermSizeSend, EncryptFrameReturn
<1>5. CASE RelayLost \/ RunStart \/ RunEnd \/ Clock
  BY <1>5 DEF RelayLost, RunStart, RunEnd, Clock
<1> QED
  BY <1>1, <1>2, <1>3, <1>4, <1>5 DEF SharingNext, allVars

\* Without a key sent, the keys in the queues and what they lead to stay.
LEMMA NoKeySentKeeps ==
    ASSUME Types, NoKeySent, NEW r \in RelayID
    PROVE  /\ \A i \in 1..Len(queue'[r]) : queue'[r][i].kind = "key" =>
                \E j \in 1..Len(queue[r]) : queue'[r][i] = queue[r][j]
           /\ \A w, s : Reaches(r, queue[r], w, s) => Reaches(r, queue'[r], w, s)
<1>0. queue[r] \in Seq(Msg)
  BY DEF Types, NetTypes
<1>1. CASE queue'[r] = queue[r]
  BY <1>1
<1>2. ASSUME NEW m \in Msg, m.kind # "key", queue'[r] = Append(queue[r], m)
      PROVE  /\ \A i \in 1..Len(queue'[r]) : queue'[r][i].kind = "key" =>
                  \E j \in 1..Len(queue[r]) : queue'[r][i] = queue[r][j]
             /\ \A w, s : Reaches(r, queue[r], w, s) => Reaches(r, queue'[r], w, s)
  <2>1. /\ Len(queue'[r]) = Len(queue[r]) + 1 /\ queue'[r][Len(queue[r]) + 1] = m
        /\ \A i \in 1..Len(queue[r]) : queue'[r][i] = queue[r][i]
        /\ Len(queue[r]) \in Nat
    BY <1>0, <1>2, Appended
  <2>2. \A i \in 1..Len(queue'[r]) : i \in 1..Len(queue[r]) \/ i = Len(queue[r]) + 1
    BY <2>1
  <2>3. \A i \in 1..Len(queue'[r]) : queue'[r][i].kind = "key" =>
          \E j \in 1..Len(queue[r]) : queue'[r][i] = queue[r][j]
    BY <1>2, <2>1, <2>2
  <2>4. ~OwnKey(r, m)
    BY <1>2 DEF OwnKey
  <2>5. \A w, s : Reaches(r, queue[r], w, s) => Reaches(r, queue'[r], w, s)
    BY <1>0, <1>2, <2>4, ReachesAppend
  <2> QED
    BY <2>3, <2>5
<1> QED
  BY <1>1, <1>2 DEF NoKeySent

\* Calm steps preserve it all.
LEMMA CalmFollows ==
    ASSUME Types, IInv, InTouch, SharerStep, Calm
    PROVE  InTouch'
<1>0. /\ UNCHANGED <<view, conn>> /\ MapGoes /\ LoopTypes
      /\ UNCHANGED <<streamKey, viewers, status, closed, revoke, missed>>
      /\ loop' = loop \/ (loop.pc # "deliver" /\ loop'.pc # "deliver")
      /\ NoKeySent
  BY SharerKeepsViews, MapGoesOn DEF Calm, Types
<1>1. \A r \in RelayID : \A i \in 1..Len(queue'[r]) : queue'[r][i].kind = "key" =>
        \E j \in 1..Len(queue[r]) : queue'[r][i] = queue[r][j]
  BY <1>0, NoKeySentKeeps
<1>2. \A r \in RelayID : \A w, s : Reaches(r, queue[r], w, s) => Reaches(r, queue'[r], w, s)
  BY <1>0, NoKeySentKeeps
<1>3. IDsAreOwn'
  <2>1. \A r \in RelayID : view'[r].pc = "active" =>
          /\ conn'[r] /\ status'[r] # "fresh"
          /\ view'[r].id \in ViewerID /\ OwnID(r, view[r].id)'
    BY <1>0 DEF InTouch, IDsAreOwn, OwnID
  <2>2. \A r \in RelayID : \A i \in 1..Len(queue'[r]) :
          OwnKey(r, queue'[r][i]) => OwnID(r, queue[r][i].id)'
    <3> SUFFICES ASSUME NEW r \in RelayID, NEW i \in 1..Len(queue'[r]), OwnKey(r, queue'[r][i])
                 PROVE  status'[r] = "member" => viewers'[queue'[r][i].id] = r
      BY DEF OwnID
    <3>1. PICK j \in 1..Len(queue[r]) : queue'[r][i] = queue[r][j]
      BY <1>1 DEF OwnKey
    <3> QED
      BY <1>0, <3>1 DEF InTouch, IDsAreOwn, OwnID
  <2>3. loop'.pc = "deliver" => OwnID(loop.viewer, loop.id)'
    BY <1>0 DEF InTouch, IDsAreOwn, OwnID
  <2> QED
    BY <2>1, <2>2, <2>3 DEF IDsAreOwn, OwnKey
<1>4. RekeysAreOwn'
  BY <1>0 DEF InTouch, RekeysAreOwn, IsDue, OwnID
<1>5. DeliveryIsFirst'
  <2> SUFFICES ASSUME loop'.pc = "deliver"
               PROVE  /\ view'[loop'.viewer].pc # "active" /\ ~Answered(loop.viewer)'
                      /\ \A i \in 1..Len(queue'[loop'.viewer]) :
                           queue'[loop'.viewer][i].kind # "key"
    BY DEF DeliveryIsFirst
  <2>1. loop' = loop /\ loop.pc = "deliver" /\ loop.viewer \in RelayID
    BY <1>0 DEF LoopTypes
  <2>2. ~Answered(loop.viewer)'
    BY <1>0, <2>1 DEF InTouch, DeliveryIsFirst, Answered, MapGoes
  <2> QED
    BY <1>0, <1>1, <2>1, <2>2 DEF InTouch, DeliveryIsFirst
<1>6. ASSUME NEW r \in RelayID PROVE Follows(r)'
  BY <1>0, <1>2 DEF InTouch, Follows, Owed, IsDue
<1> QED
  BY <1>0, <1>3, <1>4, <1>5, <1>6 DEF InTouch

\* A viewer becomes a member once.
LEMMA MembersWere ==
    ASSUME IInv, [Next]_vars, NEW r \in RelayID, status'[r] = "member", status[r] # "fresh"
    PROVE  status[r] = "member"
<1>0. status \in [AuthKey -> Fate] /\ r \in AuthKey
      /\ viewers \in [ViewerID -> AuthKey \cup {NoAuth}]
  BY DEF IInv, TypeOK, RelayID
<1>1. ASSUME NEW v \in ViewerID, NEW a \in AuthKey, RegisterViewer(v, a)
      PROVE  status[r] = "member"
  BY <1>0, <1>1 DEF RegisterViewer
<1>2. ASSUME NEW v \in ViewerID, RevokeViewer(v) \/ RemoveViewer(v)
      PROVE  status[r] = "member"
  <2>1. /\ viewers[v] \in AuthKey
        /\ \/ status' = [status EXCEPT ![viewers[v]] = "revoked"]
           \/ status' = [status EXCEPT ![viewers[v]] = "left"]
    BY <1>0, <1>2 DEF RevokeViewer, RemoveViewer, ListViewers
  <2> QED
    BY <1>0, <2>1
<1>3. CASE \/ \E c \in Caller, p \in Plaintext : EncryptFrameBegin(c, p)
           \/ \E c \in Caller : EncryptFrameSeal(c)
           \/ Close \/ Tick \/ UNCHANGED vars
  BY <1>3 DEF EncryptFrameBegin, EncryptFrameSeal, Close, Tick, vars
<1> QED
  BY <1>1, <1>2, <1>3 DEF Next

\* The IDs stay the viewers' own whatever the session does.
LEMMA IDsStay ==
    ASSUME Types, IInv, UniqueIDs, KeyInv, MapInv, InTouch, [Next]_vars, ~closed'
    PROVE  /\ \A r \in RelayID : view[r].pc = "active" =>
                /\ conn[r] /\ status'[r] # "fresh"
                /\ status'[r] = "member" => viewers'[view[r].id] = r
           /\ \A r \in RelayID : \A i \in 1..Len(queue[r]) : OwnKey(r, queue[r][i]) =>
                (status'[r] = "member" => viewers'[queue[r][i].id] = r)
           /\ loop.pc = "deliver" =>
                (status'[loop.viewer] = "member" => viewers'[loop.id] = loop.viewer)
           /\ \A k \in Revoker : \A rk \in Rekey : IsDue(k, rk) =>
                /\ status'[rk.wrap.auth] # "fresh"
                /\ status'[rk.wrap.auth] = "member" => viewers'[rk.id] = rk.wrap.auth
           /\ \A r \in RelayID : status'[r] = "member" /\ status[r] # "fresh" =>
                status[r] = "member"
<1>0. /\ \A r \in RelayID : status[r] # "fresh" => status'[r] # "fresh"
      /\ status \in [AuthKey -> Fate] /\ viewers \in [ViewerID -> AuthKey \cup {NoAuth}]
  BY SessionHistory DEF RelayID, IInv, TypeOK
<1>1. ASSUME NEW r \in RelayID, NEW v \in ViewerID, status[r] # "fresh", OwnID(r, v)
      PROVE  status'[r] # "fresh" /\ (status'[r] = "member" => viewers'[v] = r)
  <2>1. OwnID(r, v)'
    BY <1>1, OwnIDStays
  <2> QED
    BY <1>0, <1>1, <2>1 DEF OwnID
<1>2. ASSUME NEW r \in RelayID, view[r].pc = "active"
      PROVE  /\ conn[r] /\ status'[r] # "fresh"
             /\ status'[r] = "member" => viewers'[view[r].id] = r
  <2>1. conn[r] /\ status[r] # "fresh" /\ view[r].id \in ViewerID /\ OwnID(r, view[r].id)
    BY <1>2 DEF InTouch, IDsAreOwn
  <2> QED
    BY <1>1, <2>1
<1>3. ASSUME NEW r \in RelayID, NEW i \in 1..Len(queue[r]), OwnKey(r, queue[r][i])
      PROVE  status'[r] = "member" => viewers'[queue[r][i].id] = r
  <2>1. status[r] # "fresh" /\ OwnID(r, queue[r][i].id)
    BY <1>3 DEF InTouch, IDsAreOwn, KeyInv, KeysOnTheWay, OwnKey
  <2>2. queue[r][i] \in Msg /\ queue[r][i].kind = "key"
    BY <1>3 DEF Types, NetTypes, OwnKey
  <2>3. queue[r][i].id \in ViewerID
    BY <2>2 DEF Msg, BareMsg, KeyMsg, FrameMsg
  <2> QED
    BY <1>1, <2>1, <2>3
<1>4. ASSUME loop.pc = "deliver"
      PROVE  status'[loop.viewer] = "member" => viewers'[loop.id] = loop.viewer
  <2>1. /\ loop.viewer \in RelayID /\ loop.id \in ViewerID
        /\ status[loop.viewer] # "fresh" /\ OwnID(loop.viewer, loop.id)
    BY <1>4 DEF Types, LoopTypes, KeyInv, KeysOnTheWay, InTouch, IDsAreOwn
  <2> QED
    BY <1>1, <2>1
<1>5. ASSUME NEW k \in Revoker, NEW rk \in Rekey, IsDue(k, rk)
      PROVE  /\ status'[rk.wrap.auth] # "fresh"
             /\ status'[rk.wrap.auth] = "member" => viewers'[rk.id] = rk.wrap.auth
  <2>1. rk.wrap.auth \in RelayID /\ rk.id \in ViewerID
    BY DEF Rekey, Wrap, RelayID
  <2>2. status[rk.wrap.auth] # "fresh" /\ OwnID(rk.wrap.auth, rk.id)
    BY <1>5 DEF InTouch, RekeysAreOwn
  <2> QED
    BY <1>1, <2>1, <2>2
<1>6. ASSUME NEW r \in RelayID, status'[r] = "member", status[r] # "fresh"
      PROVE  status[r] = "member"
  BY <1>6, MembersWere
<1> QED
  BY <1>2, <1>3, <1>4, <1>5, <1>6

\* Rekeys that are due stay right when the session does something else.
LEMMA RekeysStay ==
    ASSUME Types, IInv, UniqueIDs, KeyInv, MapInv, InTouch, [Next]_vars, ~closed',
           UNCHANGED revoke
    PROVE  RekeysAreOwn'
<1> SUFFICES ASSUME NEW k \in Revoker
             PROVE  /\ revoke[k].pc \in {"idle", "done"} => revoke[k].rekeys = {}
                    /\ \A rk \in Rekey : IsDue(k, rk) =>
                         /\ status'[rk.wrap.auth] # "fresh" /\ OwnID(rk.wrap.auth, rk.id)'
                    /\ revoke[k].pc = "send" /\ status'[revoke[k].rekey.wrap.auth] = "member"
                         => revoke[k].to = revoke[k].rekey.wrap.auth
  BY DEF RekeysAreOwn, IsDue
<1>1. \A rk \in Rekey : IsDue(k, rk) =>
        /\ status'[rk.wrap.auth] # "fresh" /\ OwnID(rk.wrap.auth, rk.id)'
  BY IDsStay DEF OwnID, InTouch, RekeysAreOwn
<1>2. ASSUME revoke[k].pc = "send", status'[revoke[k].rekey.wrap.auth] = "member"
      PROVE  revoke[k].to = revoke[k].rekey.wrap.auth
  <2>1. revoke[k].rekey \in Rekey /\ IsDue(k, revoke[k].rekey)
    BY <1>2 DEF Types, RevokeTypes, IsDue
  <2>2. revoke[k].rekey.wrap.auth \in RelayID
    BY <2>1 DEF Rekey, Wrap, RelayID
  <2>3. status[revoke[k].rekey.wrap.auth] # "fresh"
    BY <2>1 DEF InTouch, RekeysAreOwn
  <2>4. status[revoke[k].rekey.wrap.auth] = "member"
    BY <1>2, <2>2, <2>3, MembersWere
  <2> QED
    BY <1>2, <2>4 DEF InTouch, RekeysAreOwn
<1> QED
  BY <1>1, <1>2 DEF InTouch, RekeysAreOwn

\* relayLoop removes a viewer that has left.
LEMMA removeFollows ==
    ASSUME Types, IInv, UniqueIDs, KeyInv, MapInv, InTouch, SharerStep, [Next]_vars,
           removeLeftViewer
    PROVE  InTouch'
<1>0. /\ UNCHANGED <<view, conn, queue, revoke, missed, streamKey, closed>>
      /\ loop.pc = "remove" /\ loop' = IdleLoop /\ ~closed'
  BY SharerKeepsViews DEF removeLeftViewer, RemoveViewer, vars, netVars, InTouch
<1>1. loop'.pc = "recv"
  BY <1>0 DEF IdleLoop
<1>2. IDsAreOwn'
  BY <1>0, <1>1, IDsStay DEF IDsAreOwn, OwnID, InTouch, OwnKey
<1>3. RekeysAreOwn'
  BY <1>0, RekeysStay
<1>4. DeliveryIsFirst'
  BY <1>1 DEF DeliveryIsFirst
<1>5. ASSUME NEW r \in RelayID PROVE Follows(r)'
  <2> SUFFICES ASSUME conn[r], status'[r] = "member", r \notin missed
               PROVE  Owed(r) \/ Reaches(r, queue[r], view[r], streamKey)
    BY <1>0 DEF Follows, Owed, IsDue
  <2>1. status[r] = "member"
    <3>1. \A a \in RelayID : status[a] = "fresh" => status'[a] = "fresh"
      BY DEF removeLeftViewer, RemoveViewer, vars, IInv, TypeOK, ViewersAreMembers, ListViewers,
             RelayID
    <3> QED
      BY <3>1, MembersWere
  <2> QED
    BY <1>0, <2>1 DEF InTouch, Follows
<1> QED
  BY <1>0, <1>2, <1>3, <1>4, <1>5 DEF InTouch

\* relayLoop registers a viewer.
LEMMA confirmFollows ==
    ASSUME Types, IInv, UniqueIDs, KeyInv, MapInv, InTouch, SharerStep, [Next]_vars,
           NEW a \in RelayID, NEW v \in ViewerID, handleConfirmB(a, v)
    PROVE  InTouch'
<1>0. /\ UNCHANGED <<view, conn, queue, revoke, missed, streamKey, closed, viewerIDMap>>
      /\ loop.pc = "recv" /\ ~closed' /\ status[a] = "fresh"
      /\ status' = [status EXCEPT ![a] = "member"] /\ viewers' = [viewers EXCEPT ![v] = a]
      /\ loop' = [loop EXCEPT !.pc = "deliver", !.viewer = a, !.id = v,
                              !.wrap = [auth |-> a, key |-> streamKey, nonce |-> nonce + 1]]
      /\ status \in [RelayID -> Fate] /\ viewers \in [ViewerID -> AuthKey \cup {NoAuth}]
  BY SharerKeepsViews DEF handleConfirmB, RegisterViewer, Received, InTouch, IInv, TypeOK, RelayID
<1>1. /\ loop'.pc = "deliver" /\ loop'.viewer = a /\ loop'.id = v
      /\ loop'.wrap = [auth |-> a, key |-> streamKey, nonce |-> nonce + 1]
  BY <1>0 DEF Types, LoopTypes
<1>2. loop'.wrap.key = streamKey
  BY <1>1
<1>3. IDsAreOwn'
  <2>1. status'[a] = "member" => viewers'[v] = a
    BY <1>0
  <2> QED
    BY <1>0, <1>1, <2>1, IDsStay DEF IDsAreOwn, OwnID, InTouch, OwnKey
<1>4. RekeysAreOwn'
  BY <1>0, RekeysStay
<1>5. DeliveryIsFirst'
  <2>1. ~Answered(a)
    BY <1>0 DEF KeyInv, KeysOnTheWay
  <2>2. ~Answered(a)'
    BY <1>0, <1>1, <2>1 DEF Answered
  <2>3. view[a].pc # "active" /\ \A i \in 1..Len(queue[a]) : queue[a][i].kind # "key"
    BY <1>0 DEF InTouch, IDsAreOwn, KeyInv, KeysOnTheWay
  <2> QED
    BY <1>0, <1>1, <2>2, <2>3 DEF DeliveryIsFirst, Answered
<1>6. ASSUME NEW r \in RelayID PROVE Follows(r)'
  <2>1. CASE r = a
    BY <1>0, <1>1, <1>2, <2>1 DEF Follows
  <2>2. CASE r # a
    <3>1. status'[r] = status[r] /\ ~(loop.pc = "deliver")
      BY <1>0, <2>2
    <3> QED
      BY <1>0, <3>1 DEF InTouch, Follows, Owed, IsDue
  <2> QED
    BY <2>1, <2>2
<1> QED
  BY <1>0, <1>3, <1>4, <1>5, <1>6 DEF InTouch

\* What a unicast of a key does to the queues.
LEMMA KeyUnicast ==
    ASSUME Types, NEW a \in RelayID, NEW v \in ViewerID, NEW w \in Wrap,
           Unicast(a, KeyMessage(v, w))
    PROVE  /\ KeyMessage(v, w) \in Msg /\ KeyMessage(v, w).kind = "key"
           /\ KeyMessage(v, w).id = v /\ KeyMessage(v, w).wrap = w
           /\ \A r \in RelayID : r # a => queue'[r] = queue[r]
           /\ queue'[a] = IF conn[a] THEN Append(queue[a], KeyMessage(v, w)) ELSE queue[a]
           /\ \A r \in RelayID : \A i \in 1..Len(queue'[r]) :
                \/ \E j \in 1..Len(queue[r]) : queue'[r][i] = queue[r][j]
                \/ r = a /\ queue'[r][i] = KeyMessage(v, w)
<1> DEFINE m == KeyMessage(v, w)
<1>0. m \in Msg /\ m.kind = "key" /\ m.id = v /\ m.wrap = w
  BY DEF KeyMessage, Msg, KeyMsg
<1>1. queue \in [RelayID -> Seq(Msg)]
  BY DEF Types, NetTypes
<1> HIDE DEF m
<1>2. /\ \A r \in RelayID : r # a => queue'[r] = queue[r]
      /\ queue'[a] = IF conn[a] THEN Append(queue[a], m) ELSE queue[a]
  BY <1>1 DEF Unicast, m
<1>3. ASSUME NEW i \in 1..Len(queue'[a])
      PROVE  (\E j \in 1..Len(queue[a]) : queue'[a][i] = queue[a][j]) \/ queue'[a][i] = m
  <2>1. CASE conn[a]
    <3>1. /\ Len(queue'[a]) = Len(queue[a]) + 1 /\ queue'[a][Len(queue[a]) + 1] = m
          /\ \A j \in 1..Len(queue[a]) : queue'[a][j] = queue[a][j]
          /\ Len(queue[a]) \in Nat
      BY <1>0, <1>1, <1>2, <2>1, Appended
    <3>2. i \in 1..Len(queue[a]) \/ i = Len(queue[a]) + 1
      BY <3>1
    <3> QED
      BY <3>1, <3>2
  <2>2. CASE ~conn[a]
    BY <1>2, <2>2
  <2> QED
    BY <2>1, <2>2
<1>4. ASSUME NEW r \in RelayID, NEW i \in 1..Len(queue'[r])
      PROVE  \/ \E j \in 1..Len(queue[r]) : queue'[r][i] = queue[r][j]
             \/ r = a /\ queue'[r][i] = m
  BY <1>2, <1>3, <1>4
<1> QED
  BY <1>0, <1>2, <1>4 DEF m

\* The IDs after a key has been sent to its owner, or to another viewer.
LEMMA SentIDs ==
    ASSUME Types, InTouch, NEW a \in RelayID, NEW v \in ViewerID, NEW w \in Wrap,
           Unicast(a, KeyMessage(v, w)), w.auth = a => OwnID(a, v),
           UNCHANGED <<view, conn, status, viewers>>, loop'.pc = "deliver" => loop' = loop
    PROVE  IDsAreOwn'
<1>1. \A r \in RelayID : view'[r].pc = "active" =>
        /\ conn'[r] /\ status'[r] # "fresh"
        /\ view'[r].id \in ViewerID /\ OwnID(r, view[r].id)'
  BY DEF InTouch, IDsAreOwn, OwnID
<1>2. ASSUME NEW r \in RelayID, NEW i \in 1..Len(queue'[r]), OwnKey(r, queue'[r][i])
      PROVE  status'[r] = "member" => viewers'[queue'[r][i].id] = r
  <2>1. CASE \E j \in 1..Len(queue[r]) : queue'[r][i] = queue[r][j]
    BY <1>2, <2>1 DEF InTouch, IDsAreOwn, OwnID
  <2>2. CASE r = a /\ queue'[r][i] = KeyMessage(v, w)
    <3>1. KeyMessage(v, w).id = v /\ KeyMessage(v, w).wrap = w
      BY KeyUnicast
    <3> QED
      BY <1>2, <2>2, <3>1 DEF OwnID, OwnKey
  <2> QED
    BY <2>1, <2>2, KeyUnicast
<1>3. loop'.pc = "deliver" => OwnID(loop.viewer, loop.id)'
  BY DEF InTouch, IDsAreOwn, OwnID
<1> QED
  BY <1>1, <1>2, <1>3 DEF IDsAreOwn, OwnKey, OwnID

\* relayLoop delivers the key.
LEMMA deliverFollows ==
    ASSUME Types, IInv, KeyInv, InTouch, SharerStep, deliverKey, relayUp
    PROVE  InTouch'
<1> DEFINE a == loop.viewer
           m == KeyMessage(loop.id, loop.wrap)
<1>0. /\ UNCHANGED <<view, conn, revoke, missed, streamKey, closed, viewers, status>>
      /\ loop.pc = "deliver" /\ ~closed /\ Unicast(a, m)
      /\ loop' = [loop EXCEPT !.pc = "map", !.wrap = None]
  BY SharerKeepsViews DEF deliverKey, InTouch, vars, KeyMessage
<1>1. loop'.pc = "map" /\ a \in RelayID /\ loop.id \in ViewerID /\ loop.wrap \in Wrap
  BY <1>0 DEF Types, LoopTypes
<1>2. loop.wrap.auth = a /\ OwnID(a, loop.id)
  BY <1>0 DEF KeyInv, KeysOnTheWay, InTouch, IDsAreOwn
<1>3. /\ m \in Msg /\ m.kind = "key" /\ m.id = loop.id /\ m.wrap = loop.wrap
      /\ \A r \in RelayID : r # a => queue'[r] = queue[r]
      /\ queue'[a] = IF conn[a] THEN Append(queue[a], m) ELSE queue[a]
  BY <1>0, <1>1, KeyUnicast
<1>4. IDsAreOwn'
  BY <1>0, <1>1, <1>2, SentIDs
<1> HIDE DEF m, a
<1>5. RekeysAreOwn'
  BY <1>0 DEF InTouch, RekeysAreOwn, IsDue, OwnID
<1>6. DeliveryIsFirst'
  BY <1>1 DEF DeliveryIsFirst
<1>7. ASSUME NEW r \in RelayID PROVE Follows(r)'
  <2>1. CASE r # a
    BY <1>0, <1>3, <2>1 DEF InTouch, Follows, Owed, IsDue, a
  <2>2. CASE r = a
    <3> SUFFICES ASSUME conn[r], status[r] = "member", r \notin missed,
                        ~Owed(r)
                 PROVE  Reaches(r, queue'[r], view[r], streamKey)
      BY <1>0 DEF Follows, Owed, IsDue
    <3>1. \/ loop.pc = "deliver" /\ loop.viewer = r /\ loop.wrap.key = streamKey
          \/ Reaches(r, queue[r], view[r], streamKey)
      BY DEF InTouch, Follows
    <3>2. ~Reaches(r, queue[r], view[r], streamKey)
      BY <1>0, <2>2 DEF InTouch, DeliveryIsFirst, Reaches, OwnKey, a
    <3>3. OwnKey(r, m) /\ m.wrap.key = streamKey
      BY <1>2, <1>3, <2>2, <3>1, <3>2 DEF OwnKey
    <3>4. queue[r] \in Seq(Msg) /\ queue'[r] = Append(queue[r], m)
      BY <1>3, <2>2 DEF Types, NetTypes
    <3> QED
      BY <1>3, <3>3, <3>4, ReachesAppend
  <2> QED
    BY <2>1, <2>2
<1> QED
  BY <1>0, <1>4, <1>5, <1>6, <1>7 DEF InTouch

\* A Revoke call goes on without the session: the rekeys that are due stay due,
\* but for one that is passed over.
LEMMA DueKept ==
    ASSUME Types, IInv, InTouch, SharerStep, MapGoes, RevokesGo,
           UNCHANGED <<streamKey, viewers, status, closed, loop, queue>>,
           missed \subseteq missed',
           \A j \in Revoker : \A x \in Rekey : IsDue(j, x)' => IsDue(j, x),
           \A j \in Revoker : \A x \in Rekey :
               IsDue(j, x) => IsDue(j, x)' \/ x.wrap.auth \in missed',
           \A j \in Revoker :
               /\ revoke'[j].pc \in {"idle", "done"} => revoke'[j].rekeys = {}
               /\ revoke'[j].pc = "send" /\ status[revoke'[j].rekey.wrap.auth] = "member" =>
                    revoke'[j].to = revoke'[j].rekey.wrap.auth
    PROVE  InTouch'
<1>0. UNCHANGED <<view, conn>> /\ LoopTypes
  BY SharerKeepsViews DEF Types
<1>1. IDsAreOwn'
  BY <1>0 DEF InTouch, IDsAreOwn, OwnID, OwnKey
<1>2. RekeysAreOwn'
  <2>1. \A j \in Revoker : \A x \in Rekey : IsDue(j, x)' =>
          status[x.wrap.auth] # "fresh" /\ OwnID(x.wrap.auth, x.id)
    BY DEF InTouch, RekeysAreOwn
  <2> QED
    BY <2>1 DEF RekeysAreOwn, OwnID
<1>3. DeliveryIsFirst'
  <2> SUFFICES ASSUME loop.pc = "deliver"
               PROVE  /\ view'[loop.viewer].pc # "active" /\ ~Answered(loop.viewer)'
                      /\ \A i \in 1..Len(queue[loop.viewer]) : queue[loop.viewer][i].kind # "key"
    BY DEF DeliveryIsFirst
  <2>1. loop.viewer \in RelayID /\ loop.viewer # None
    BY <1>0 DEF LoopTypes
  <2>2. ~Answered(loop.viewer)
    BY DEF InTouch, DeliveryIsFirst
  <2>3. ~Answered(loop.viewer)'
    BY <2>1, <2>2 DEF Answered, MapGoes, RevokesGo
  <2> QED
    BY <1>0, <2>3 DEF InTouch, DeliveryIsFirst
<1>4. ASSUME NEW r \in RelayID PROVE Follows(r)'
  <2> SUFFICES ASSUME conn[r], status[r] = "member", r \notin missed'
               PROVE  \/ Owed(r)'
                      \/ loop.pc = "deliver" /\ loop.viewer = r /\ loop.wrap.key = streamKey
                      \/ Reaches(r, queue[r], view[r], streamKey)
    BY <1>0 DEF Follows
  <2>1. Owed(r) => Owed(r)'
    BY DEF Owed
  <2> QED
    BY <2>1 DEF InTouch, Follows
<1> QED
  BY <1>1, <1>2, <1>3, <1>4 DEF InTouch

\* The same when call k is in state n next.
LEMMA DueReplaced ==
    ASSUME Types, IInv, TypeOK', InTouch, SharerStep, NEW k \in Revoker, NEW n,
           UNCHANGED <<streamKey, viewers, status, closed, loop, queue>>,
           missed \subseteq missed',
           revoke' = [revoke EXCEPT ![k] = n],
           n.pc \in {"idle", "done"} => n.rekeys = {},
           n.pc = "send" /\ status[n.rekey.wrap.auth] = "member" => n.to = n.rekey.wrap.auth,
           \A x \in Rekey : x \in n.rekeys \/ (n.pc = "send" /\ x = n.rekey) => IsDue(k, x),
           \A x \in Rekey : IsDue(k, x) => \/ x \in n.rekeys \/ (n.pc = "send" /\ x = n.rekey)
                                           \/ x.wrap.auth \in missed'
    PROVE  InTouch'
<1>0. MapGoes /\ RevokesGo /\ revoke \in [Revoker -> RevokeState]
  BY MapGoesOn, RevokesGoOn DEF Types, RevokeTypes
<1>1. revoke'[k] = n /\ \A j \in Revoker : j # k => revoke'[j] = revoke[j]
  BY <1>0
<1>2. \A j \in Revoker : \A x \in Rekey : IsDue(j, x)' => IsDue(j, x)
  BY <1>1 DEF IsDue
<1>3. \A j \in Revoker : \A x \in Rekey :
        IsDue(j, x) => IsDue(j, x)' \/ x.wrap.auth \in missed'
  BY <1>1 DEF IsDue
<1>4. \A j \in Revoker :
        /\ revoke'[j].pc \in {"idle", "done"} => revoke'[j].rekeys = {}
        /\ revoke'[j].pc = "send" /\ status[revoke'[j].rekey.wrap.auth] = "member" =>
             revoke'[j].to = revoke'[j].rekey.wrap.auth
  BY <1>1 DEF InTouch, RekeysAreOwn
<1> QED
  BY <1>0, <1>2, <1>3, <1>4, DueKept

\* Revoke from the removal of the map's entry to its return, but for sending.
LEMMA revokeOnFollows ==
    ASSUME Types, IInv, TypeOK', MapInv, InTouch, SharerStep, NEW k \in Revoker,
           \/ RevokeUnmap(k) \/ RevokeReturn(k)
           \/ \E rk \in revoke[k].rekeys : RevokeRekey(k, rk)
    PROVE  InTouch'
<1>0. /\ UNCHANGED <<streamKey, viewers, status, closed, loop, queue>>
      /\ revoke[k] \in RevokeState /\ revoke \in [Revoker -> RevokeState]
  BY DEF RevokeUnmap, RevokeReturn, RevokeRekey, vars, netVars, Types, RevokeTypes
<1>1. CASE RevokeUnmap(k)
  <2> DEFINE n == [revoke[k] EXCEPT !.pc = "rekey"]
  <2>1. n.pc = "rekey" /\ n.rekeys = revoke[k].rekeys
    BY <1>0 DEF RevokeState
  <2>2. revoke' = [revoke EXCEPT ![k] = n] /\ revoke[k].pc = "unmap" /\ UNCHANGED missed
    BY <1>1 DEF RevokeUnmap
  <2> HIDE DEF n
  <2>3. \A x \in Rekey : x \in n.rekeys <=> IsDue(k, x)
    BY <2>1, <2>2 DEF IsDue
  <2> QED
    BY <1>0, <2>1, <2>2, <2>3, DueReplaced
<1>2. CASE RevokeReturn(k)
  <2> DEFINE n == [IdleRevoke EXCEPT !.pc = "done"]
  <2>1. n.pc = "done" /\ n.rekeys = {}
    BY DEF IdleRevoke
  <2>2. /\ revoke' = [revoke EXCEPT ![k] = n] /\ revoke[k].pc = "rekey"
        /\ revoke[k].rekeys = {} /\ UNCHANGED missed
    BY <1>2 DEF RevokeReturn
  <2> HIDE DEF n
  <2>3. \A x \in Rekey : x \in n.rekeys <=> IsDue(k, x)
    BY <2>1, <2>2 DEF IsDue
  <2> QED
    BY <1>0, <2>1, <2>2, <2>3, DueReplaced
<1>3. ASSUME NEW rk \in revoke[k].rekeys, RevokeRekey(k, rk), viewerIDMap[rk.id] # None
      PROVE  InTouch'
  <2> DEFINE n == [revoke[k] EXCEPT !.pc = "send", !.rekeys = revoke[k].rekeys \ {rk},
                                    !.rekey = rk, !.to = viewerIDMap[rk.id]]
  <2>1. /\ n.pc = "send" /\ n.rekeys = revoke[k].rekeys \ {rk} /\ n.rekey = rk
        /\ n.to = viewerIDMap[rk.id]
    BY <1>0 DEF RevokeState
  <2>2. /\ revoke' = [revoke EXCEPT ![k] = n] /\ revoke[k].pc = "rekey" /\ UNCHANGED missed
        /\ rk \in Rekey
    BY <1>0, <1>3 DEF RevokeRekey, RevokeState, RevokeTypes
  <2> HIDE DEF n
  <2>3. \A x \in Rekey : IsDue(k, x) <=> x \in n.rekeys \/ (n.pc = "send" /\ x = n.rekey)
    BY <2>1, <2>2 DEF IsDue
  <2>4. ASSUME status[rk.wrap.auth] = "member" PROVE viewerIDMap[rk.id] = rk.wrap.auth
    <3>1. rk.id \in ViewerID /\ rk.wrap.auth \in RelayID
      BY <2>2 DEF Rekey, Wrap, RelayID
    <3>2. viewers[rk.id] = rk.wrap.auth
      BY <2>1, <2>2, <2>3, <2>4 DEF InTouch, RekeysAreOwn, OwnID
    <3>3. rk.id \in ListViewers
      BY <3>1, <3>2 DEF ListViewers, RelayID
    <3> QED
      BY <1>3, <3>1, <3>2, <3>3 DEF MapInv, MapLeadsToOwner
  <2> QED
    BY <1>0, <2>1, <2>2, <2>3, <2>4, DueReplaced
<1>4. ASSUME NEW rk \in revoke[k].rekeys, RevokeRekey(k, rk), viewerIDMap[rk.id] = None
      PROVE  InTouch'
  <2> DEFINE n == [revoke[k] EXCEPT !.rekeys = revoke[k].rekeys \ {rk}]
  <2>1. n.pc = revoke[k].pc /\ n.rekeys = revoke[k].rekeys \ {rk}
    BY <1>0 DEF RevokeState
  <2>2. /\ revoke' = [revoke EXCEPT ![k] = n] /\ revoke[k].pc = "rekey"
        /\ missed' = missed \cup {rk.wrap.auth}
    BY <1>4 DEF RevokeRekey
  <2> HIDE DEF n
  <2>3. \A x \in Rekey : x \in n.rekeys => IsDue(k, x)
    BY <2>1, <2>2 DEF IsDue
  <2>4. \A x \in Rekey : IsDue(k, x) => x \in n.rekeys \/ x.wrap.auth \in missed'
    BY <2>1, <2>2 DEF IsDue
  <2> QED
    BY <1>0, <2>1, <2>2, <2>3, <2>4, DueReplaced
<1> QED
  BY <1>1, <1>2, <1>3, <1>4

\* Revoke sends a rekey.
LEMMA revokeSendFollows ==
    ASSUME Types, IInv, TypeOK', UniqueIDs, InTouch, SharerStep, relayUp,
           NEW k \in Revoker, RevokeSend(k)
    PROVE  InTouch'
<1> DEFINE a == revoke[k].to
           rk == revoke[k].rekey
           m == KeyMessage(rk.id, rk.wrap)
           n == [revoke[k] EXCEPT !.pc = "rekey", !.rekey = None, !.to = None]
<1>0. /\ UNCHANGED <<view, conn, streamKey, closed, viewers, status, loop, viewerIDMap>>
      /\ revoke[k].pc = "send" /\ ~closed /\ Unicast(a, m)
      /\ revoke' = [revoke EXCEPT ![k].pc = "rekey", ![k].rekey = None, ![k].to = None]
      /\ missed' = IF Overtaken(rk) THEN missed \cup {rk.wrap.auth} ELSE missed
  BY SharerKeepsViews DEF RevokeSend, InTouch, vars, KeyMessage
<1>1. /\ revoke \in [Revoker -> RevokeState] /\ a \in RelayID /\ rk \in Rekey /\ IsDue(k, rk)
      /\ revoke[k] \in RevokeState
  BY <1>0 DEF Types, RevokeTypes, IsDue
<1>2. rk.id \in ViewerID /\ rk.wrap \in Wrap /\ rk.wrap.auth \in RelayID
  BY <1>1 DEF Rekey, Wrap, RelayID
<1>3. /\ OwnID(rk.wrap.auth, rk.id)
      /\ status[rk.wrap.auth] = "member" => a = rk.wrap.auth
  BY <1>0, <1>1 DEF InTouch, RekeysAreOwn
<1>4. /\ m \in Msg /\ m.kind = "key" /\ m.id = rk.id /\ m.wrap = rk.wrap
      /\ \A r \in RelayID : r # a => queue'[r] = queue[r]
      /\ queue'[a] = IF conn[a] THEN Append(queue[a], m) ELSE queue[a]
  BY <1>0, <1>1, <1>2, KeyUnicast
<1>5. IDsAreOwn'
  BY <1>0, <1>1, <1>2, <1>3, SentIDs
<1>6. revoke' = [revoke EXCEPT ![k] = n]
  BY <1>0, <1>1 DEF RevokeState
<1>7. n.pc = "rekey" /\ n.rekeys = revoke[k].rekeys /\ n.to = None
  BY <1>1 DEF RevokeState
<1> HIDE DEF n, m, a, rk
<1>8. revoke'[k] = n /\ \A j \in Revoker : j # k => revoke'[j] = revoke[j]
  BY <1>1, <1>6
<1>9. /\ \A j \in Revoker : \A x \in Rekey : IsDue(j, x)' => IsDue(j, x)
      /\ \A j \in Revoker : \A x \in Rekey : IsDue(j, x) => IsDue(j, x)' \/ x = rk
  BY <1>7, <1>8 DEF IsDue, rk
<1>10. RekeysAreOwn'
  <2>1. \A j \in Revoker : \A x \in Rekey : IsDue(j, x)' =>
          status[x.wrap.auth] # "fresh" /\ OwnID(x.wrap.auth, x.id)
    BY <1>9 DEF InTouch, RekeysAreOwn
  <2>2. \A j \in Revoker :
          /\ revoke'[j].pc \in {"idle", "done"} => revoke'[j].rekeys = {}
          /\ revoke'[j].pc = "send" /\ status[revoke'[j].rekey.wrap.auth] = "member" =>
               revoke'[j].to = revoke'[j].rekey.wrap.auth
    BY <1>7, <1>8 DEF InTouch, RekeysAreOwn
  <2> QED
    BY <1>0, <2>1, <2>2 DEF RekeysAreOwn, OwnID
<1>11. DeliveryIsFirst'
  <2> SUFFICES ASSUME loop.pc = "deliver"
               PROVE  /\ view[loop.viewer].pc # "active" /\ ~Answered(loop.viewer)'
                      /\ \A i \in 1..Len(queue'[loop.viewer]) :
                           queue'[loop.viewer][i].kind # "key"
    BY <1>0 DEF DeliveryIsFirst
  <2>1. loop.viewer \in RelayID /\ loop.viewer # None
    BY DEF Types, LoopTypes
  <2>2. ~Answered(loop.viewer)
    BY DEF InTouch, DeliveryIsFirst
  <2>3. loop.viewer # a
    BY <2>2 DEF Answered, a
  <2>4. ~Answered(loop.viewer)'
    BY <1>0, <1>7, <1>8, <2>1, <2>2 DEF Answered
  <2> QED
    BY <1>4, <2>1, <2>3, <2>4 DEF InTouch, DeliveryIsFirst
<1>12. ASSUME NEW r \in RelayID PROVE Follows(r)'
  <2> SUFFICES ASSUME conn[r], status[r] = "member", r \notin missed', ~Owed(r)',
                      ~ (loop.pc = "deliver" /\ loop.viewer = r /\ loop.wrap.key = streamKey)
               PROVE  Reaches(r, queue'[r], view[r], streamKey)
    BY <1>0 DEF Follows
  <2>0. queue[r] \in Seq(Msg)
    BY DEF Types, NetTypes
  <2>1. CASE rk.wrap.auth = r
    <3>0. rk.wrap.key = streamKey
      <4> SUFFICES ASSUME rk.wrap.key # streamKey PROVE FALSE
        OBVIOUS
      <4>1. ~Overtaken(rk)
        BY <1>0, <2>1
      <4>0. \E w \in wraps : w.auth = r /\ w.key = streamKey
        <5>1. PICK u \in ViewerID : viewers[u] = r
          BY <1>0 DEF IInv, MembersAreListed, RelayID
        <5> QED
          BY <5>1 DEF IInv, MembersCanRead, ListViewers, RelayID
      <4>2. PICK j \in Revoker : \E x \in Due(j) :
              x.wrap.auth = rk.wrap.auth /\ x.wrap.key = streamKey
        BY <2>1, <4>0, <4>1 DEF Overtaken
      <4>3. PICK x \in Due(j) : x.wrap.auth = rk.wrap.auth /\ x.wrap.key = streamKey
        BY <4>2
      <4>4. IsDue(j, x) /\ x \in Rekey
        BY <1>1 DEF Due, IsDue, Types, RevokeTypes, RevokeState
      <4>5. IsDue(j, x)'
        BY <1>9, <4>3, <4>4
      <4> QED
        BY <1>0, <2>1, <4>3, <4>4, <4>5 DEF Owed
    <3>1. a = r /\ OwnKey(r, m) /\ m.wrap.key = streamKey
      BY <1>3, <1>4, <2>1, <3>0 DEF OwnKey
    <3>2. queue'[r] = Append(queue[r], m)
      BY <1>4, <3>1
    <3> QED
      BY <1>4, <2>0, <3>1, <3>2, ReachesAppend
  <2>2. CASE rk.wrap.auth # r
    <3>0. ~Owed(r) /\ r \notin missed
      BY <1>0, <1>9, <2>2 DEF Owed
    <3>1. Reaches(r, queue[r], view[r], streamKey)
      BY <3>0 DEF InTouch, Follows
    <3>2. ~OwnKey(r, m)
      BY <1>4, <2>2 DEF OwnKey
    <3>3. queue'[r] = queue[r] \/ queue'[r] = Append(queue[r], m)
      BY <1>4
    <3> QED
      BY <1>4, <2>0, <3>1, <3>2, <3>3, ReachesAppend
  <2> QED
    BY <2>1, <2>2
<1> QED
  BY <1>0, <1>5, <1>10, <1>11, <1>12 DEF InTouch

\* Revoke begins: the new key is due to every member that remains.
LEMMA revokeBeginFollows ==
    ASSUME Types, IInv, TypeOK', UniqueIDs, KeyInv, MapInv, InTouch, SharerStep, [Next]_vars,
           NEW k \in Revoker, NEW v \in ViewerID, RevokeBegin(k, v)
    PROVE  InTouch'
<1>0. /\ UNCHANGED <<view, conn, queue, missed, closed, loop, viewerIDMap>>
      /\ ~closed' /\ RevokeViewer(v) /\ streamKey' = streamKey + 1
      /\ viewers' = [viewers EXCEPT ![v] = NoAuth] /\ v \in ListViewers
      /\ status' = [status EXCEPT ![viewers[v]] = "revoked"]
      /\ status \in [AuthKey -> Fate] /\ viewers \in [ViewerID -> AuthKey \cup {NoAuth}]
  BY SharerKeepsViews DEF RevokeBegin, RevokeViewer, netVars, InTouch, IInv, TypeOK
<1>1. /\ revoke'[k].pc = "unmap" /\ revoke'[k].to = revoke[k].to
      /\ revoke'[k].rekeys = {[id |-> u, wrap |-> NewWrap(viewers[u])] : u \in Remaining(v)}
      /\ \A j \in Revoker : j # k => revoke'[j] = revoke[j]
  BY revokeBeginStep
<1>2. \A j \in Revoker : j # k => \A x \in Rekey : IsDue(j, x)' <=> IsDue(j, x)
  BY <1>1 DEF IsDue
<1>3. \A x \in Rekey : IsDue(k, x)' =>
        \E u \in Remaining(v) : x = [id |-> u, wrap |-> NewWrap(viewers[u])]
  BY <1>1 DEF IsDue
<1>4. ASSUME NEW u \in Remaining(v)
      PROVE  /\ [id |-> u, wrap |-> NewWrap(viewers[u])] \in Rekey
             /\ NewWrap(viewers[u]).key = streamKey' /\ NewWrap(viewers[u]).auth = viewers[u]
             /\ status'[viewers[u]] = "member" /\ viewers'[u] = viewers[u]
  <2>1. NewWrap(viewers[u]) \in Wrap /\ u \in ViewerID /\ u \in ListViewers /\ u # v
    BY <1>0, NewWrapIs DEF Remaining, ListViewers
  <2>2. /\ status[viewers[u]] = "member" /\ viewers[u] # viewers[v]
        /\ viewers[u] \in AuthKey /\ viewers[v] \in AuthKey
    BY <1>0, <2>1 DEF IInv, ViewersAreMembers, ListViewers
  <2>3. status'[viewers[u]] = "member" /\ viewers'[u] = viewers[u]
    BY <1>0, <2>1, <2>2
  <2> QED
    BY <1>0, <2>1, <2>3, NewWrapIs DEF Rekey
<1>5. IDsAreOwn'
  BY <1>0, IDsStay DEF IDsAreOwn, OwnID, InTouch, OwnKey
<1>6. RekeysAreOwn'
  <2>1. ASSUME NEW x \in Rekey, IsDue(k, x)'
        PROVE  /\ status'[x.wrap.auth] # "fresh"
               /\ status'[x.wrap.auth] = "member" => viewers'[x.id] = x.wrap.auth
    <3>1. PICK u \in Remaining(v) : x = [id |-> u, wrap |-> NewWrap(viewers[u])]
      BY <1>3, <2>1
    <3>2. x.id = u /\ x.wrap = NewWrap(viewers[u])
      BY <3>1
    <3> QED
      BY <1>4, <3>2
  <2>2. ASSUME NEW j \in Revoker, j # k, NEW x \in Rekey, IsDue(j, x)'
        PROVE  /\ status'[x.wrap.auth] # "fresh"
               /\ status'[x.wrap.auth] = "member" => viewers'[x.id] = x.wrap.auth
    BY <1>0, <1>2, <2>2, IDsStay
  <2>3. ASSUME NEW j \in Revoker, j # k
        PROVE  /\ revoke'[j].pc \in {"idle", "done"} => revoke'[j].rekeys = {}
               /\ revoke'[j].pc = "send" /\ status'[revoke'[j].rekey.wrap.auth] = "member"
                    => revoke'[j].to = revoke'[j].rekey.wrap.auth
    <3>1. revoke'[j] = revoke[j]
      BY <1>1, <2>3
    <3>2. ASSUME revoke[j].pc = "send", status'[revoke[j].rekey.wrap.auth] = "member"
          PROVE  revoke[j].to = revoke[j].rekey.wrap.auth
      <4>1. revoke[j].rekey \in Rekey /\ IsDue(j, revoke[j].rekey)
        BY <3>2 DEF Types, RevokeTypes, IsDue
      <4>2. revoke[j].rekey.wrap.auth \in RelayID
        BY <4>1 DEF Rekey, Wrap, RelayID
      <4>3. status[revoke[j].rekey.wrap.auth] # "fresh"
        BY <4>1 DEF InTouch, RekeysAreOwn
      <4>4. status[revoke[j].rekey.wrap.auth] = "member"
        BY <3>2, <4>2, <4>3, MembersWere
      <4> QED
        BY <3>2, <4>4 DEF InTouch, RekeysAreOwn
    <3> QED
      BY <3>1, <3>2 DEF InTouch, RekeysAreOwn
  <2>4. ASSUME NEW j \in Revoker
        PROVE  /\ revoke'[j].pc \in {"idle", "done"} => revoke'[j].rekeys = {}
               /\ revoke'[j].pc = "send" /\ status'[revoke'[j].rekey.wrap.auth] = "member"
                    => revoke'[j].to = revoke'[j].rekey.wrap.auth
               /\ \A x \in Rekey : IsDue(j, x)' =>
                    /\ status'[x.wrap.auth] # "fresh"
                    /\ status'[x.wrap.auth] = "member" => viewers'[x.id] = x.wrap.auth
    <3>1. CASE j = k
      BY <1>1, <2>1, <3>1
    <3>2. CASE j # k
      BY <2>2, <2>3, <3>2
    <3> QED
      BY <3>1, <3>2
  <2> QED
    BY <2>4 DEF RekeysAreOwn, OwnID
<1>7. DeliveryIsFirst'
  <2>1. \A r \in RelayID : Answered(r)' <=> Answered(r)
    BY <1>0, <1>1 DEF Answered
  <2>2. loop.pc = "deliver" => loop.viewer \in RelayID
    BY DEF Types, LoopTypes
  <2> QED
    BY <1>0, <2>1, <2>2 DEF InTouch, DeliveryIsFirst
<1>8. ASSUME NEW r \in RelayID PROVE Follows(r)'
  <2> SUFFICES ASSUME status'[r] = "member"
               PROVE  \E x \in Rekey :
                        IsDue(k, x)' /\ x.wrap.auth = r /\ x.wrap.key = streamKey'
    BY DEF Follows, Owed
  <2>1. status[r] = "member" /\ r # viewers[v] /\ r \in AuthKey
    BY <1>0 DEF ListViewers, RelayID
  <2>2. PICK u \in ViewerID : viewers[u] = r
    BY <1>0, <2>1 DEF IInv, MembersAreListed
  <2>3. u \in Remaining(v)
    BY <2>1, <2>2 DEF Remaining, ListViewers
  <2> DEFINE x == [id |-> u, wrap |-> NewWrap(viewers[u])]
  <2>4. /\ x \in Rekey /\ x.wrap.auth = r /\ x.wrap.key = streamKey'
        /\ x \in revoke'[k].rekeys
    BY <1>1, <1>4, <2>2, <2>3
  <2> QED
    BY <2>4 DEF IsDue
<1> QED
  BY <1>0, <1>5, <1>6, <1>7, <1>8 DEF InTouch

\* A viewer's step, as far as keys go: it connects, is gone, or keeps ID and
\* key, unless it reads a key.
Takeover(r) == view'[r].key = Head(queue[r]).wrap.key /\ view'[r].id = Head(queue[r]).id

KeepsKey(r) == view'[r].key = view[r].key /\ view'[r].id = view[r].id

Popping(r) == queue[r] # <<>> /\ queue'[r] = Tail(queue[r])

KeyStep(r) ==
    \/ view[r].pc = "dial" /\ view'[r].pc = "waitMsgA" /\ queue'[r] = queue[r]
    \/ ~conn'[r] /\ view'[r].pc # "active" /\ (queue'[r] = <<>> \/ Popping(r))
    \/ /\ conn'[r] = conn[r] /\ queue'[r] = queue[r]
       /\ KeepsKey(r) /\ view'[r].pc = view[r].pc
    \/ /\ conn'[r] /\ conn[r] /\ Popping(r) /\ Head(queue[r]).kind # "key"
       /\ KeepsKey(r) /\ (view'[r].pc = "active" <=> view[r].pc = "active")
    \/ /\ conn'[r] /\ conn[r] /\ Popping(r) /\ Head(queue[r]).kind = "key"
       /\ view'[r].pc = "active"
       /\ \/ view[r].pc = "waitKey" /\ Takeover(r)
          \/ /\ view[r].pc = "active"
             /\ IF Head(queue[r]).id = view[r].id /\ Head(queue[r]).wrap.auth = r
                THEN Takeover(r) ELSE KeepsKey(r)

\* A watching viewer pops one message at most, and takes it if it is a key for it.
LEMMA RunViewerKeys ==
    ASSUME Types, NEW r \in RelayID, RunViewer(r)
    PROVE  KeyStep(r) /\ Others(r)
<1>0. /\ view \in [RelayID -> View] /\ view[r] \in View
      /\ conn \in [RelayID -> BOOLEAN] /\ queue \in [RelayID -> Seq(Msg)]
      /\ Others(r)
  BY RunViewerStep DEF Types, ViewTypes, NetTypes, ViewerStep
<1>1. ASSUME NEW kinds, Reads(r, kinds)
      PROVE  Popping(r) /\ conn[r] /\ Head(queue[r]).kind \in kinds
  BY <1>0, <1>1 DEF Reads, Popping
<1>2. CASE viewerConnect(r)
  <2>1. view[r].pc = "dial" /\ UNCHANGED queue
    BY <1>2 DEF viewerConnect
  <2>2. view'[r].pc = "waitMsgA"
    BY <1>0, <1>2 DEF viewerConnect, View
  <2> QED
    BY <1>0, <2>1, <2>2 DEF KeyStep
<1>3. CASE handshakeSkips(r)
  <2>1. UNCHANGED <<view, conn>> /\ Reads(r, {"stream", "termsize"})
    BY <1>3 DEF handshakeSkips
  <2> QED
    BY <1>0, <1>1, <2>1 DEF KeyStep, KeepsKey
<1>4. CASE viewerExchange(r) \/ viewerConfirm(r)
  <2>1. UNCHANGED conn /\ Reads(r, {"msg_a", "confirm_a"}) /\ view[r].pc # "active"
    BY <1>4 DEF viewerExchange, viewerConfirm, Reads
  <2>2. PICK p \in {"waitConfirmA", "waitKey"} : view' = [view EXCEPT ![r].pc = p]
    BY <1>4 DEF viewerExchange, viewerConfirm
  <2>3. view'[r].pc = p /\ KeepsKey(r)
    BY <1>0, <2>2 DEF View, KeepsKey
  <2>4. Popping(r) /\ conn[r] /\ Head(queue[r]).kind # "key"
    BY <1>1, <2>1
  <2> QED
    BY <1>0, <2>1, <2>3, <2>4 DEF KeyStep
<1>5. CASE processKeyDelivery(r)
  <2>1. UNCHANGED conn /\ Reads(r, {"key"}) /\ view[r].pc = "waitKey"
    BY <1>5 DEF processKeyDelivery
  <2>2. view'[r].pc = "active" /\ Takeover(r)
    BY <1>0, <1>5 DEF processKeyDelivery, View, Takeover
  <2>3. Popping(r) /\ conn[r] /\ Head(queue[r]).kind = "key"
    BY <1>1, <2>1
  <2> QED
    BY <1>0, <2>1, <2>2, <2>3 DEF KeyStep
<1>6. CASE processRekey(r)
  <2>1. UNCHANGED conn /\ Reads(r, {"key"}) /\ view[r].pc = "active"
    BY <1>6 DEF processRekey
  <2>2. /\ view'[r].pc = "active"
        /\ IF Head(queue[r]).id = view[r].id /\ Head(queue[r]).wrap.auth = r
           THEN Takeover(r) ELSE KeepsKey(r)
    BY <1>0, <1>6, <2>1 DEF processRekey, View, Takeover, KeepsKey
  <2>3. Popping(r) /\ conn[r] /\ Head(queue[r]).kind = "key"
    BY <1>1, <2>1
  <2> QED
    BY <1>0, <2>1, <2>2, <2>3 DEF KeyStep
<1>7. CASE GraceEnds(r)
  <2>1. UNCHANGED <<conn, queue>>
    BY <1>7 DEF GraceEnds, netVars
  <2>2. view'[r].pc = view[r].pc /\ KeepsKey(r)
    BY <1>0, <1>7 DEF GraceEnds, View, KeepsKey
  <2> QED
    BY <1>0, <2>1, <2>2 DEF KeyStep
<1>8. CASE viewerFrame(r)
  <2> DEFINE h == Head(queue[r])
             n == IF h.kind = "stream" THEN AfterStream(view[r], h.frame)
                                       ELSE AfterSize(view[r], h.frame)
  <2>0. view[r].pc = "active" /\ Reads(r, {"stream", "termsize"})
        /\ view' = [view EXCEPT ![r] = n]
    BY <1>8 DEF viewerFrame
  <2>1. Popping(r) /\ conn[r] /\ h.kind \in {"stream", "termsize"} /\ h \in Msg
    BY <1>0, <1>1, <2>0 DEF Popping
  <2>2. h.frame \in Frame /\ (h.kind = "stream" <=> h.frame.text[1] = "out")
    BY <2>1 DEF Msg, BareMsg, KeyMsg, FrameMsg
  <2>3. Takes(view[r], h.frame, n)
    BY <1>0, <2>0, <2>2, StreamTakes, SizeTakes
  <2> HIDE DEF n, h
  <2>4. view'[r] = n
    BY <1>0, <2>0
  <2>5. KeepsKey(r)
    BY <2>3, <2>4 DEF Takes, KeepsKey
  <2>6. \/ view'[r].pc = "active" /\ UNCHANGED conn
        \/ view'[r].pc = "revoked" /\ conn' = [conn EXCEPT ![r] = FALSE]
    BY <1>8 DEF viewerFrame
  <2>7. CASE view'[r].pc = "active" /\ UNCHANGED conn
    BY <1>0, <2>0, <2>1, <2>5, <2>7 DEF KeyStep, h
  <2>8. CASE view'[r].pc = "revoked" /\ conn' = [conn EXCEPT ![r] = FALSE]
    BY <1>0, <2>1, <2>8 DEF KeyStep
  <2> QED
    BY <2>6, <2>7, <2>8
<1>9. CASE viewerEnded(r) \/ viewerLeaves(r)
  <2>1. conn' = [conn EXCEPT ![r] = FALSE]
    BY <1>9 DEF viewerEnded, viewerLeaves
  <2>2. ~conn'[r]
    BY <1>0, <2>1
  <2>3. view'[r].pc # "active"
    BY <1>0, <1>9 DEF viewerEnded, viewerLeaves, View
  <2>4. queue'[r] = <<>> \/ Popping(r)
    <3>1. CASE viewerEnded(r)
      BY <1>1, <3>1 DEF viewerEnded
    <3>2. CASE viewerLeaves(r)
      BY <1>0, <3>2 DEF viewerLeaves
    <3> QED
      BY <1>9, <3>1, <3>2
  <2> QED
    BY <1>0, <2>2, <2>3, <2>4 DEF KeyStep
<1> QED
  BY <1>2, <1>3, <1>4, <1>5, <1>6, <1>7, <1>8, <1>9 DEF RunViewer

\* Steps of a viewer preserve it all.
LEMMA ViewerFollows ==
    ASSUME Types, IInv, KeyInv, InTouch, NEW r \in RelayID, RunViewer(r)
    PROVE  InTouch'
<1>0. /\ UNCHANGED <<vars, sharerVars>> /\ KeyStep(r) /\ Others(r)
      /\ queue \in [RelayID -> Seq(Msg)] /\ view[r] \in View
  BY RunViewerStep, RunViewerKeys DEF Types, NetTypes, ViewTypes
<1>1. UNCHANGED <<streamKey, viewers, status, closed, loop, revoke, missed, viewerIDMap>>
  BY <1>0 DEF vars, sharerVars
\* The queue of the viewer loses messages.
<1>2. \A i \in 1..Len(queue'[r]) : \E j \in 1..Len(queue[r]) : queue'[r][i] = queue[r][j]
  <2>1. CASE queue'[r] = queue[r] \/ queue'[r] = <<>>
    BY <2>1
  <2>2. CASE Popping(r)
    <3>1. /\ Len(queue[r]) \in Nat \ {0} /\ Len(queue'[r]) = Len(queue[r]) - 1
          /\ \A i \in 1..Len(queue'[r]) : queue'[r][i] = queue[r][i + 1]
      BY <1>0, <2>2, Popped DEF Popping
    <3>2. \A i \in 1..Len(queue'[r]) : i + 1 \in 1..Len(queue[r])
      BY <3>1
    <3> QED
      BY <3>1, <3>2
  <2> QED
    BY <1>0, <2>1, <2>2 DEF KeyStep
<1>3. Popping(r) => queue[r][1] = Head(queue[r]) /\ 1 \in 1..Len(queue[r])
  BY <1>0, Popped DEF Popping
\* In the handshake the key that is read is the viewer's own.
<1>4. Popping(r) /\ Head(queue[r]).kind = "key" /\ view[r].pc = "waitKey" =>
        OwnKey(r, Head(queue[r]))
  <2> SUFFICES ASSUME Popping(r), Head(queue[r]).kind = "key", view[r].pc = "waitKey"
               PROVE  OwnKey(r, Head(queue[r]))
    OBVIOUS
  <2>1. \E j \in 1..1 : OwnKey(r, queue[r][j])
    BY <1>3 DEF KeyInv, FirstKeyIsOwn, Handshake
  <2> QED
    BY <1>3, <2>1
\* What the viewer reads and keeps has its ID.
<1>5. Popping(r) /\ OwnKey(r, Head(queue[r])) =>
        /\ OwnID(r, Head(queue[r]).id) /\ Head(queue[r]).id \in ViewerID
        /\ status[r] # "fresh"
  <2> SUFFICES ASSUME Popping(r), OwnKey(r, Head(queue[r]))
               PROVE  /\ OwnID(r, Head(queue[r]).id) /\ Head(queue[r]).id \in ViewerID
                      /\ status[r] # "fresh"
    OBVIOUS
  <2>1. Head(queue[r]) \in Msg /\ Head(queue[r]).kind = "key"
    BY <1>0 DEF Popping, OwnKey
  <2>2. Head(queue[r]).id \in ViewerID
    BY <2>1 DEF Msg, BareMsg, KeyMsg, FrameMsg
  <2>3. OwnID(r, Head(queue[r]).id)
    BY <1>3 DEF InTouch, IDsAreOwn
  <2>4. status[r] # "fresh"
    BY <1>3, <2>1 DEF KeyInv, KeysOnTheWay
  <2> QED
    BY <2>2, <2>3, <2>4
<1>6. view[r].pc = "active" =>
        conn[r] /\ status[r] # "fresh" /\ view[r].id \in ViewerID /\ OwnID(r, view[r].id)
  BY DEF InTouch, IDsAreOwn
<1>7. view'[r].pc = "active" =>
        /\ conn'[r] /\ status[r] # "fresh"
        /\ view'[r].id \in ViewerID /\ OwnID(r, view'[r].id)
  BY <1>0, <1>4, <1>5, <1>6 DEF KeyStep, KeepsKey, Takeover, OwnKey
<1>8. IDsAreOwn'
  <2>1. ASSUME NEW s \in RelayID, view'[s].pc = "active"
        PROVE  /\ conn'[s] /\ status[s] # "fresh"
               /\ view'[s].id \in ViewerID /\ OwnID(s, view'[s].id)
    <3>1. CASE s = r
      BY <1>7, <2>1, <3>1
    <3>2. CASE s # r
      BY <1>0, <2>1, <3>2 DEF Others, InTouch, IDsAreOwn
    <3> QED
      BY <3>1, <3>2
  <2>2. ASSUME NEW s \in RelayID, NEW i \in 1..Len(queue'[s]), OwnKey(s, queue'[s][i])
        PROVE  OwnID(s, queue'[s][i].id)
    <3>1. PICK j \in 1..Len(queue[s]) : queue'[s][i] = queue[s][j]
      BY <1>0, <1>2 DEF Others
    <3> QED
      BY <2>2, <3>1 DEF InTouch, IDsAreOwn
  <2>3. loop.pc = "deliver" => OwnID(loop.viewer, loop.id)
    BY DEF InTouch, IDsAreOwn
  <2> QED
    BY <1>1, <2>1, <2>2, <2>3 DEF IDsAreOwn, OwnID, OwnKey
<1>9. RekeysAreOwn'
  BY <1>1 DEF InTouch, RekeysAreOwn, IsDue, OwnID
<1>10. DeliveryIsFirst'
  <2> SUFFICES ASSUME loop.pc = "deliver"
               PROVE  /\ view'[loop.viewer].pc # "active" /\ ~Answered(loop.viewer)'
                      /\ \A i \in 1..Len(queue'[loop.viewer]) :
                           queue'[loop.viewer][i].kind # "key"
    BY <1>1 DEF DeliveryIsFirst
  <2>1. /\ loop.viewer \in RelayID /\ view[loop.viewer].pc # "active" /\ ~Answered(loop.viewer)
        /\ \A i \in 1..Len(queue[loop.viewer]) : queue[loop.viewer][i].kind # "key"
    BY DEF Types, LoopTypes, InTouch, DeliveryIsFirst
  <2>2. ~Answered(loop.viewer)'
    BY <1>1, <2>1 DEF Answered
  <2>3. CASE loop.viewer # r
    BY <1>0, <2>1, <2>2, <2>3 DEF Others
  <2>4. CASE loop.viewer = r
    <3>1. view'[r].pc # "active"
      BY <1>0, <1>3, <2>1, <2>4 DEF KeyStep
    <3> QED
      BY <1>2, <2>1, <2>2, <2>4, <3>1
  <2> QED
    BY <2>3, <2>4
<1>11. ASSUME NEW s \in RelayID PROVE Follows(s)'
  <2>1. CASE s # r
    <3>1. view'[s] = view[s] /\ conn'[s] = conn[s] /\ queue'[s] = queue[s]
      BY <1>0, <2>1 DEF Others
    <3> QED
      BY <1>1, <3>1 DEF InTouch, Follows, Owed, IsDue
  <2>2. CASE s = r
    <3> SUFFICES ASSUME conn'[r], status[r] = "member", r \notin missed,
                        ~Owed(r),
                        ~ (loop.pc = "deliver" /\ loop.viewer = r /\ loop.wrap.key = streamKey)
                 PROVE  Reaches(r, queue'[r], view'[r], streamKey)
      BY <1>1, <2>2 DEF Follows, Owed, IsDue
    <3>1. view[r].pc # "dial"
      BY DEF KeyInv, Beginnings, KeyOnlyWithCode
    <3>2. conn[r]
      BY <1>0, <3>1 DEF KeyStep
    <3>3. Reaches(r, queue[r], view[r], streamKey)
      BY <3>2 DEF InTouch, Follows
    <3>4. CASE queue'[r] = queue[r] /\ KeepsKey(r) /\ view'[r].pc = view[r].pc
      BY <3>3, <3>4 DEF Reaches, KeepsKey
    <3>5. CASE /\ Popping(r) /\ Head(queue[r]).kind # "key" /\ KeepsKey(r)
               /\ view'[r].pc = "active" <=> view[r].pc = "active"
      BY <1>0, <3>3, <3>5, ReachesTail DEF Popping, KeepsKey, OwnKey
    <3>6. CASE Popping(r) /\ Head(queue[r]).kind = "key" /\ view'[r].pc = "active"
      <4>1. OwnKey(r, Head(queue[r])) => view'[r].key = Head(queue[r]).wrap.key
        <5>1. CASE view[r].pc = "waitKey" /\ Takeover(r)
          BY <5>1 DEF Takeover
        <5>2. CASE view[r].pc = "active" /\ OwnKey(r, Head(queue[r]))
          <6>1. Head(queue[r]).id = view[r].id
            BY <1>5, <1>6, <3>6, <5>2, OwnIDIsOne
          <6> QED
            BY <1>0, <3>2, <3>6, <5>2, <6>1 DEF KeyStep, Takeover, OwnKey, Popping
        <5> QED
          BY <1>0, <3>6, <5>1, <5>2 DEF KeyStep
      <4>2. ~OwnKey(r, Head(queue[r])) /\ view[r].pc = "active" => view'[r].key = view[r].key
        BY <1>0, <3>6 DEF KeyStep, KeepsKey, OwnKey, Popping
      <4> QED
        BY <1>0, <3>3, <3>6, <4>1, <4>2, ReachesTail DEF Popping
    <3> QED
      BY <1>0, <3>1, <3>4, <3>5, <3>6 DEF KeyStep
  <2> QED
    BY <2>1, <2>2
<1> QED
  BY <1>1, <1>8, <1>9, <1>10, <1>11 DEF InTouch

\* In the initial states nobody is a member and nothing is under way.
LEMMA InitFollow == Init => FollowInv
<1> SUFFICES ASSUME Init PROVE InTouch
  BY DEF FollowInv
<1>1. /\ \A r \in RelayID : /\ view[r] = NewView /\ queue[r] = <<>> /\ ~conn[r]
                            /\ status[r] = "fresh"
      /\ \A k \in Revoker : revoke[k] = IdleRevoke
      /\ ~closed
  BY DEF Init, NewSession, RelayID
<1>2. loop.pc \in {"recv", "start"}
  BY DEF Init, IdleLoop
<1>3. NewView.pc = "dial" /\ IdleRevoke.pc = "idle" /\ IdleRevoke.rekeys = {}
  BY DEF NewView, IdleRevoke
<1>4. IDsAreOwn
  BY <1>1, <1>2, <1>3 DEF IDsAreOwn
<1>5. RekeysAreOwn
  BY <1>1, <1>3 DEF RekeysAreOwn, IsDue
<1>6. DeliveryIsFirst
  BY <1>2 DEF DeliveryIsFirst
<1>7. \A r \in RelayID : Follows(r)
  BY <1>1 DEF Follows
<1> QED
  BY <1>1, <1>4, <1>5, <1>6, <1>7 DEF InTouch

\* When nothing is under way the key in use can only be in the viewer's hands.
LEMMA SettledFollow ==
    ASSUME FollowInv
    PROVE  RekeyedViewersFollow
<1> SUFFICES ASSUME Quiescent, NEW r \in RelayID, r \notin missed,
                    view[r].pc = "active", status[r] = "member"
             PROVE  view[r].key = streamKey
  BY DEF RekeyedViewersFollow
<1>1. InTouch /\ loop.pc = "recv" /\ \A k \in Revoker : revoke[k].pc \in {"idle", "done"}
  BY DEF Quiescent, FollowInv
<1>2. conn[r] /\ queue[r] = <<>>
  BY <1>1 DEF InTouch, IDsAreOwn, Quiescent
<1>3. \A k \in Revoker : \A rk \in Rekey : ~IsDue(k, rk)
  BY <1>1 DEF InTouch, RekeysAreOwn, IsDue
<1>4. Reaches(r, queue[r], view[r], streamKey)
  BY <1>1, <1>2, <1>3 DEF InTouch, Follows, Owed
<1> QED
  BY <1>2, <1>4 DEF Reaches

\* Registrations, departures and any number of revocations, overlapping ones
\* included, leave no connected member without the key in use, or without that
\* key due, being delivered or under way to it - but for viewers that a
\* Revoke passed over or sent an older key too late.  IDs must not collide.
THEOREM KeysFollow ==
    ASSUME UniqueIDs
    PROVE  SharingSpec => []FollowInv
<1>1. Init => FollowInv
  BY InitFollow
<1>2. Types /\ IInv /\ IInv' /\ KeyInv /\ MapInv /\ FollowInv
      /\ [SharingNext]_allVars => FollowInv'
  <2> SUFFICES ASSUME Types, IInv, IInv', KeyInv, MapInv, FollowInv,
                      [SharingNext]_allVars, relayUp'
               PROVE  InTouch'
    BY DEF FollowInv
  <2>1. relayUp /\ InTouch
    BY RelayStaysLost DEF FollowInv
  <2>2. TypeOK' /\ [Next]_vars
    BY StepSimulation DEF IInv, Types
  <2>3. CASE SharerStep
    <3>1. CASE Calm
      BY <2>1, <2>3, <3>1, CalmFollows
    <3>2. CASE deliverKey
      BY <2>1, <2>3, <3>2, deliverFollows
    <3>3. CASE removeLeftViewer
      BY <2>1, <2>2, <2>3, <3>3, removeFollows
    <3>4. ASSUME NEW r \in RelayID, NEW v \in ViewerID, handleConfirmB(r, v) PROVE InTouch'
      BY <2>1, <2>2, <2>3, <3>4, confirmFollows
    <3>5. ASSUME NEW k \in Revoker, Revoke(k) PROVE InTouch'
      BY <2>1, <2>2, <2>3, <3>5, revokeBeginFollows, revokeSendFollows, revokeOnFollows
         DEF Revoke
    <3> QED
      BY <2>3, <3>1, <3>2, <3>3, <3>4, <3>5, CalmCases
  <2>4. ASSUME NEW r \in RelayID, RunViewer(r) PROVE InTouch'
    BY <2>1, <2>4, ViewerFollows
  <2>5. CASE UNCHANGED allVars
    BY <2>1, <2>5 DEF allVars, vars, sharerVars, netVars, InTouch, IDsAreOwn, RekeysAreOwn,
                      DeliveryIsFirst, Follows, Owed, IsDue, OwnID, OwnKey, Answered
  <2> QED
    BY <2>3, <2>4, <2>5, Steps
<1> QED
  BY <1>1, <1>2, TypesHold, SessionInvariant, KeysStayWithOwners, MapInvHolds, PTL
     DEF SharingSpec

\* When things settle, every watching viewer that was not revoked holds the
\* stream key in use, unless a Revoke passed it over or, overlapping a later
\* one, sent it its older key last: Sharer.Revoke does nothing to keep two
\* calls apart.
THEOREM SettledViewersFollow ==
    ASSUME UniqueIDs
    PROVE  SharingSpec => []RekeyedViewersFollow
  BY KeysFollow, SettledFollow, PTL

=============================================================================
