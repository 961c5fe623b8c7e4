--------------------------- MODULE SharingProofs ---------------------------
(***************************************************************************)
(* Sharing implements Session: whatever the goroutines of the sharer, the  *)
(* relay and the viewers do, the session only ever takes its own steps, so *)
(* what SessionProofs proves of a session holds of the whole system.       *)
(***************************************************************************)
EXTENDS Sharing, SessionProofs

USE SharingAssumption

\* The locals of relayLoop keep their fields.
LoopShape == DOMAIN loop = {"pc", "viewer", "id", "wrap", "size"}

\* What the goroutines pass to EncryptFrame is terminal output or a size.
CallsAreTyped ==
    /\ output \in 0..MaxOutput
    /\ termSize \in 0..MaxSize
    /\ resize \in {"idle", "encrypt", "send"}
    /\ resize = "encrypt" => termSize \in 1..MaxSize
    /\ LoopShape
    /\ loop.pc = "encrypt" => loop.size \in 1..MaxSize

\* The goroutines never leave the states in which their calls are typed.
THEOREM CallsTyped == SharingSpec => []CallsAreTyped
<1>1. Init => CallsAreTyped
  BY DEF Init, CallsAreTyped, LoopShape, IdleLoop
<1>2. CallsAreTyped /\ [SharingNext]_allVars => CallsAreTyped'
  <2> SUFFICES ASSUME CallsAreTyped, [SharingNext]_allVars
               PROVE  CallsAreTyped'
    OBVIOUS
  <2> USE DEF CallsAreTyped, LoopShape
  <2>1. CASE UNCHANGED allVars
    BY <2>1 DEF allVars, sharerVars
  <2>2. ASSUME NEW r \in RelayID, NEW v \in ViewerID, handleConfirmB(r, v)
        PROVE  CallsAreTyped'
    BY <2>2 DEF handleConfirmB
  <2>3. ASSUME NEW r \in RelayID,
               handleInit(r) \/ handleMsgB(r) \/ handleRefused(r)
        PROVE  CallsAreTyped'
    BY <2>3 DEF handleInit, handleMsgB, handleRefused
  <2>4. ASSUME NEW r \in RelayID, handleViewerDisconnect(r)
        PROVE  CallsAreTyped'
    BY <2>4 DEF handleViewerDisconnect
  <2>5. CASE deliverKey
    <3>1. loop' = [loop EXCEPT !.pc = "map", !.wrap = None] \/ loop' = IdleLoop
      BY <2>5 DEF deliverKey
    <3>2. UNCHANGED <<output, termSize, resize>>
      BY <2>5 DEF deliverKey
    <3>3. loop'.pc # "encrypt" /\ LoopShape'
      <4>1. CASE loop' = IdleLoop
        BY <4>1 DEF IdleLoop
      <4>2. CASE loop' = [loop EXCEPT !.pc = "map", !.wrap = None]
        BY <4>2
      <4> QED
        BY <3>1, <4>1, <4>2
    <3> QED
      BY <3>2, <3>3
  <2>6. CASE mapViewer
    BY <2>6 DEF mapViewer
  <2>7. CASE viewerJoined
    BY <2>7 DEF viewerJoined, IdleLoop
  <2>8. CASE joinedSizeEncrypt
    BY <2>8 DEF joinedSizeEncrypt
  <2>9. CASE joinedSizeSend
    BY <2>9 DEF joinedSizeSend, IdleLoop
  <2>10. CASE removeLeftViewer
    BY <2>10 DEF removeLeftViewer, IdleLoop
  <2>11. CASE StreamLoop
    BY <2>11 DEF StreamLoop, streamLoopRead, streamLoopSend
  <2>12. CASE Resize
    BY <2>12 DEF Resize, SetTermSize, SetTermSizeEncrypt, SetTermSizeSend
  <2>13. ASSUME NEW c \in Caller, EncryptFrameReturn(c)
         PROVE  CallsAreTyped'
    BY <2>13 DEF EncryptFrameReturn
  <2>14. ASSUME NEW k \in Revoker, Revoke(k)
         PROVE  CallsAreTyped'
    BY <2>14 DEF Revoke, RevokeBegin, RevokeUnmap, RevokeRekey, RevokeSend, RevokeReturn
  <2>15. ASSUME NEW r \in RelayID, RunViewer(r) \/ RelayReplays(r)
         PROVE  CallsAreTyped'
    BY <2>15 DEF RunViewer, RelayReplays, viewerConnect, handshakeSkips, viewerExchange,
         viewerConfirm, processKeyDelivery, processRekey, GraceEnds, viewerFrame, viewerEnded,
         viewerLeaves, sharerVars
  <2>16. CASE RelayLost \/ RunStart \/ RunEnd \/ Clock
    BY <2>16 DEF RelayLost, RunStart, IdleLoop, RunEnd, Clock, sharerVars
  <2> QED
    BY <2>1, <2>2, <2>3, <2>4, <2>5, <2>6, <2>7, <2>8, <2>9, <2>10, <2>11, <2>12, <2>13,
       <2>14, <2>15, <2>16 DEF SharingNext, RelayLoop
<1> QED
  BY <1>1, <1>2, PTL DEF SharingSpec

\* Every step of the system is a step of the session or leaves it alone.
LEMMA StepSimulation ==
    ASSUME CallsAreTyped, [SharingNext]_allVars
    PROVE  [Next]_vars
<1>1. CASE UNCHANGED allVars
  BY <1>1 DEF allVars
<1>2. ASSUME NEW r \in RelayID, NEW v \in ViewerID, handleConfirmB(r, v)
      PROVE  Next
  BY <1>2 DEF handleConfirmB, Next, RelayID
<1>3. CASE removeLeftViewer
  BY <1>3 DEF removeLeftViewer, RemoveViewer, ListViewers, Next
<1>4. CASE streamLoopRead
  <2>1. <<"out", output + 1>> \in Plaintext /\ "stream" \in Caller
    BY <1>4 DEF streamLoopRead, CallsAreTyped
  <2> QED
    BY <1>4, <2>1 DEF streamLoopRead, Next
<1>5. CASE SetTermSizeEncrypt
  <2>1. <<"size", termSize>> \in Plaintext /\ "resize" \in Caller
    BY <1>5 DEF SetTermSizeEncrypt, CallsAreTyped
  <2> QED
    BY <1>5, <2>1 DEF SetTermSizeEncrypt, Next
<1>6. CASE joinedSizeEncrypt
  <2>1. <<"size", loop.size>> \in Plaintext /\ "relay" \in Caller
    BY <1>6 DEF joinedSizeEncrypt, CallsAreTyped
  <2> QED
    BY <1>6, <2>1 DEF joinedSizeEncrypt, Next
<1>7. ASSUME NEW c \in Caller, EncryptFrameReturn(c)
      PROVE  Next
  BY <1>7 DEF EncryptFrameReturn, Next
<1>8. ASSUME NEW k \in Revoker, Revoke(k)
      PROVE  [Next]_vars
  BY <1>8 DEF Revoke, RevokeBegin, RevokeUnmap, RevokeRekey, RevokeSend, RevokeReturn, Next
<1>9. CASE RunEnd \/ Clock
  BY <1>9 DEF RunEnd, Clock, Next
<1>10. ASSUME NEW r \in RelayID, RunViewer(r) \/ RelayReplays(r)
       PROVE  UNCHANGED vars
  BY <1>10 DEF RunViewer, RelayReplays, viewerConnect, handshakeSkips, viewerExchange,
       viewerConfirm, processKeyDelivery, processRekey, GraceEnds, viewerFrame, viewerEnded,
       viewerLeaves
<1>11. ASSUME NEW r \in RelayID,
              \/ handleInit(r) \/ handleMsgB(r) \/ handleRefused(r)
              \/ handleViewerDisconnect(r)
       PROVE  UNCHANGED vars
  BY <1>11 DEF handleInit, handleMsgB, handleRefused, handleViewerDisconnect
<1>12. CASE \/ deliverKey \/ mapViewer \/ viewerJoined \/ joinedSizeSend
            \/ streamLoopSend \/ SetTermSize \/ SetTermSizeSend \/ RelayLost
            \/ RunStart
  BY <1>12 DEF deliverKey, mapViewer, viewerJoined, joinedSizeSend, streamLoopSend,
       SetTermSize, SetTermSizeSend, RelayLost, RunStart
<1> QED
  BY <1>1, <1>2, <1>3, <1>4, <1>5, <1>6, <1>7, <1>8, <1>9, <1>10, <1>11, <1>12
     DEF SharingNext, RelayLoop, StreamLoop, Resize

\* The sharing system implements the session specification.
THEOREM SharingImplementsSession == SharingSpec => Spec
<1>1. Init => NewSession
  BY DEF Init
<1> QED
  BY <1>1, StepSimulation, CallsTyped, PTL DEF SharingSpec, Spec

\* Nonces stay unique while all goroutines of the sharer use the session.
THEOREM SharingNonceUniqueness == SharingSpec => []NonceNeverReused
  BY SharingImplementsSession, NonceUniqueness, PTL

\* Revocation keeps its promise in the whole system: no key that the revoked
\* viewer was ever sent opens a frame sealed later.
THEOREM SharingRevocationSecrecy == SharingSpec => []RevokedCannotReadLaterFrames
  BY SharingImplementsSession, RevocationSecrecy, PTL

=============================================================================
