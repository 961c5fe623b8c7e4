--------------------------- MODULE SessionProofs ---------------------------
(***************************************************************************)
(* Session: type correctness, nonce uniqueness and the secrecy of frames   *)
(* sealed after a revocation, for every set of viewers, keys and callers.  *)
(***************************************************************************)
EXTENDS Session, TLAPS

USE AuthAssumption, IdleAssumption, EpochAssumption, FlagAssumption, BoundAssumption

\* The epoch of a clock reading is a natural number.
LEMMA EpochIsNat == clock \in Nat => CurrentEpoch \in Nat
  BY SMT DEF CurrentEpoch

\* The wrap that RevokeViewer hands out for the remaining viewer u.
RekeyWrap(ord, u) ==
    [auth |-> viewers[u], key |-> streamKey + 1, nonce |-> nonce + ord[u]]

\* What RevokeViewer(v) does to the counter and the histories when the n
\* remaining viewers are visited in the order ord.
RekeyEffect(v, n, ord) ==
    /\ \A u, w \in Remaining(v) : ord[u] = ord[w] => u = w
    /\ nonce' = nonce + n
    /\ wraps' = wraps \cup {RekeyWrap(ord, u) : u \in Remaining(v)}
    /\ revokedAt' = [revokedAt EXCEPT ![viewers[v]] = nonce + n]

\* A revocation visits the remaining viewers in some order, one nonce each.
LEMMA RevokeEffect ==
    ASSUME TypeOK, NEW v \in ViewerID, RevokeViewer(v)
    PROVE  \E n \in Nat : \E ord \in [Remaining(v) -> 1..n] : RekeyEffect(v, n, ord)
<1>0. PICK n \in 0..(MaxNonce - nonce) : \E ord \in Bijection(Remaining(v), 1..n) :
        /\ nonce' = nonce + n
        /\ wraps' = wraps \cup
             {[auth |-> viewers[u], key |-> RekeyPayload, nonce |-> RekeyNonce(ord, u)] :
                 u \in Remaining(v)}
        /\ revokedAt' = [revokedAt EXCEPT ![viewers[v]] = nonce + n]
  BY DEF RevokeViewer
<1>1. PICK ord \in Bijection(Remaining(v), 1..n) :
        /\ nonce' = nonce + n
        /\ wraps' = wraps \cup
             {[auth |-> viewers[u], key |-> RekeyPayload, nonce |-> RekeyNonce(ord, u)] :
                 u \in Remaining(v)}
        /\ revokedAt' = [revokedAt EXCEPT ![viewers[v]] = nonce + n]
  BY <1>0
<1>2. n \in Nat
  BY DEF TypeOK
<1>3. /\ ord \in [Remaining(v) -> 1..n]
      /\ \A u, w \in Remaining(v) : ord[u] = ord[w] => u = w
  BY <1>2 DEF Bijection, Injection, Surjection, IsInjective
<1>4. RekeyEffect(v, n, ord)
  BY <1>1, <1>3 DEF RekeyEffect, RekeyWrap, RekeyPayload, RekeyNonce
<1> QED
  BY <1>2, <1>3, <1>4

\* Type correctness: every operation of the session leaves each field in its
\* type, whatever the interleaving of the callers.
THEOREM TypeCorrect == Spec => []TypeOK
<1>1. NewSession => TypeOK
  <2> SUFFICES ASSUME NewSession PROVE TypeOK
    OBVIOUS
  <2>1. streamKey \in Nat /\ nonce \in Nat /\ clock \in Nat /\ closed \in BOOLEAN
    BY DEF NewSession
  <2>2. viewers \in [ViewerID -> AuthKey \cup {NoAuth}] /\ revokedIDs \in SUBSET ViewerID
    BY DEF NewSession
  <2>3. pending \in [Caller -> [text : Plaintext, epoch : Nat, key : Nat] \cup {Idle}]
    BY Zenon DEF NewSession
  <2>4. frames \in SUBSET Frame /\ wraps \in SUBSET Wrap
    BY DEF NewSession
  <2>5. status \in [AuthKey -> Fate] /\ revokedAt \in [AuthKey -> Nat]
    BY DEF NewSession, Fate
  <2> QED
    BY <2>1, <2>2, <2>3, <2>4, <2>5 DEF TypeOK
<1>2. TypeOK /\ [Next]_vars => TypeOK'
  <2> SUFFICES ASSUME TypeOK, [Next]_vars PROVE TypeOK'
    OBVIOUS
  <2> USE DEF TypeOK, Frame, Wrap, Fate
  <2>1. CASE \E v \in ViewerID, a \in AuthKey : RegisterViewer(v, a)
    BY <2>1 DEF RegisterViewer
  <2>2. CASE \E v \in ViewerID : RevokeViewer(v)
    <3> PICK v \in ViewerID : RevokeViewer(v)
      BY <2>2
    <3>0. PICK n \in Nat : \E ord \in [Remaining(v) -> 1..n] : RekeyEffect(v, n, ord)
      BY RevokeEffect
    <3>1. PICK ord \in [Remaining(v) -> 1..n] : RekeyEffect(v, n, ord)
      BY <3>0
    <3>2. wraps' \in SUBSET Wrap
      BY <3>1 DEF RekeyEffect, RekeyWrap, Remaining, ListViewers
    <3>3. nonce' \in Nat /\ revokedAt' = [revokedAt EXCEPT ![viewers[v]] = nonce + n]
      BY <3>1 DEF RekeyEffect
    <3>a. nonce + n \in Nat
      OBVIOUS
    <3>4. revokedAt' \in [AuthKey -> Nat]
      BY <3>a, <3>3, Zenon
    <3> QED
      BY <3>2, <3>3, <3>4 DEF RevokeViewer, ListViewers
  <2>3. CASE \E v \in ViewerID : RemoveViewer(v)
    BY <2>3 DEF RemoveViewer, ListViewers
  <2>4. CASE \E c \in Caller, p \in Plaintext : EncryptFrameBegin(c, p)
    BY <2>4, EpochIsNat DEF EncryptFrameBegin
  <2>5. CASE \E c \in Caller : EncryptFrameSeal(c)
    <3> PICK c \in Caller : EncryptFrameSeal(c)
      BY <2>5
    <3>1. pending[c] \in [text : Plaintext, epoch : Nat, key : Nat]
      BY DEF EncryptFrameSeal
    <3>2. [text |-> pending[c].text, epoch |-> pending[c].epoch,
           key |-> pending[c].key, nonce |-> nonce + 1] \in Frame
      BY <3>1
    <3> QED
      BY <3>2 DEF EncryptFrameSeal
  <2>6. CASE Close
    BY <2>6 DEF Close
  <2>7. CASE Tick
    BY <2>7 DEF Tick
  <2>8. CASE UNCHANGED vars
    BY <2>8 DEF vars
  <2> QED
    BY <2>1, <2>2, <2>3, <2>4, <2>5, <2>6, <2>7, <2>8 DEF Next
<1> QED
  BY <1>1, <1>2, PTL DEF Spec

-----------------------------------------------------------------------------

\* The initial session satisfies the inductive invariant.
LEMMA InitIInv == NewSession /\ TypeOK => IInv
  BY DEF NewSession, IInv, HistoryBounded, ViewersAreMembers, RevokedKeysAreOld,
         NonceNeverReused, MembersCanRead, KeyStableWhileEncrypting, ZeroedKeyNeverUsed,
         MembersAreListed, ListViewers

\* RegisterViewer seals the current key under a fresh auth key with a fresh
\* nonce, and no EncryptFrame is under way.
LEMMA RegisterIInv ==
    ASSUME IInv, TypeOK', NEW v \in ViewerID, NEW a \in AuthKey, RegisterViewer(v, a)
    PROVE  IInv'
<1> DEFINE new == [auth |-> a, key |-> streamKey, nonce |-> nonce + 1]
<1> USE DEF IInv, TypeOK, Wrap, Frame
<1>1. /\ wraps' = wraps \cup {new} /\ frames' = frames /\ nonce' = nonce + 1
      /\ streamKey' = streamKey /\ closed' = closed /\ ~closed
      /\ status[a] = "fresh" /\ status' = [status EXCEPT ![a] = "member"]
      /\ viewers' = [viewers EXCEPT ![v] = a] /\ revokedAt' = revokedAt
      /\ pending' = pending /\ revokedIDs' = revokedIDs
  BY DEF RegisterViewer, IsOpen
<1>2. HistoryBounded'
  BY <1>1 DEF HistoryBounded
<1>3. ViewersAreMembers'
  BY <1>1 DEF ViewersAreMembers, ListViewers
<1>4. RevokedKeysAreOld'
  BY <1>1 DEF RevokedKeysAreOld
<1>5. NonceNeverReused'
  BY <1>1 DEF NonceNeverReused, HistoryBounded
<1>6. MembersCanRead'
  <2> SUFFICES ASSUME NEW u \in ListViewers'
               PROVE  \E w \in wraps' : w.auth = viewers'[u] /\ w.key = streamKey'
    BY DEF MembersCanRead
  <2>1. CASE u = v
    <3>1. new \in wraps' /\ new.auth = a /\ new.key = streamKey
      BY <1>1
    <3> HIDE DEF new
    <3> QED
      BY <2>1, <3>1, <1>1
  <2>2. CASE u # v
    <3>1. u \in ListViewers /\ viewers'[u] = viewers[u]
      BY <2>2, <1>1 DEF ListViewers
    <3> QED
      BY <3>1, <1>1 DEF MembersCanRead
  <2> QED
    BY <2>1, <2>2
<1>7. KeyStableWhileEncrypting' /\ ZeroedKeyNeverUsed'
  BY <1>1 DEF KeyStableWhileEncrypting, ZeroedKeyNeverUsed, HistoryBounded
<1>8. MembersAreListed'
  BY <1>1 DEF MembersAreListed, RegisterViewer, DrawnID, ListViewers
<1> QED
  BY <1>2, <1>3, <1>4, <1>5, <1>6, <1>7, <1>8

\* RevokeViewer: the revoked viewer's keys fall behind the new one, and every
\* remaining viewer is sealed the new one under a nonce of its own.
LEMMA RevokeIInv ==
    ASSUME IInv, TypeOK', NEW v \in ViewerID, RevokeViewer(v)
    PROVE  IInv'
<1> USE DEF IInv, TypeOK, Wrap, Frame
<1>n. PICK n \in Nat : \E ord \in [Remaining(v) -> 1..n] : RekeyEffect(v, n, ord)
  BY RevokeEffect
<1>0. PICK ord \in [Remaining(v) -> 1..n] : RekeyEffect(v, n, ord)
  BY <1>n
<1> DEFINE new == {RekeyWrap(ord, u) : u \in Remaining(v)}
           gone == viewers[v]
<1>1. /\ wraps' = wraps \cup new /\ nonce' = nonce + n
      /\ revokedAt' = [revokedAt EXCEPT ![gone] = nonce + n]
      /\ \A u, w \in Remaining(v) : ord[u] = ord[w] => u = w
  BY <1>0 DEF RekeyEffect
<1>2. /\ streamKey' = streamKey + 1 /\ closed' = closed /\ ~closed /\ frames' = frames
      /\ viewers' = [viewers EXCEPT ![v] = NoAuth] /\ pending' = pending
      /\ status' = [status EXCEPT ![gone] = "revoked"]
      /\ gone \in AuthKey /\ v \in ListViewers
      /\ \A c \in Caller : pending[c] = Idle
  BY DEF RevokeViewer, IsOpen, NoReaders, ListViewers
<1>3. \A x \in new : \E u \in Remaining(v) :
        /\ x.auth = viewers[u] /\ x.key = streamKey + 1 /\ x.nonce = nonce + ord[u]
        /\ x.nonce > nonce /\ x.nonce <= nonce + n
  BY DEF RekeyWrap
<1>4. \A u \in Remaining(v) :
        /\ u \in ViewerID /\ viewers[u] \in AuthKey /\ viewers[u] # gone
        /\ status[viewers[u]] = "member"
  BY <1>2 DEF ViewersAreMembers, ListViewers, Remaining
<1>5. HistoryBounded'
  BY <1>1, <1>2, <1>3 DEF HistoryBounded
<1>6. ViewersAreMembers'
  BY <1>2, <1>4 DEF ViewersAreMembers, ListViewers
<1>7. RevokedKeysAreOld'
  <2> SUFFICES ASSUME NEW a \in AuthKey, status'[a] = "revoked", NEW w \in wraps', w.auth = a
               PROVE  /\ w.key < streamKey + 1
                      /\ \A f \in frames : f.nonce > revokedAt'[a] => w.key < f.key
    BY <1>2 DEF RevokedKeysAreOld
  <2>1. w \in wraps
    BY <1>1, <1>2, <1>3, <1>4
  <2>2. CASE a = gone
    BY <2>1, <2>2, <1>1, <1>2 DEF HistoryBounded
  <2>3. CASE a # gone
    BY <2>1, <2>3, <1>1, <1>2 DEF RevokedKeysAreOld
  <2> QED
    BY <2>2, <2>3
<1>8. NonceNeverReused'
  <2>1. ASSUME NEW x \in new, NEW y \in new, x.nonce = y.nonce PROVE x = y
    <3>1. PICK u \in Remaining(v) : x = RekeyWrap(ord, u)
      OBVIOUS
    <3>2. PICK w \in Remaining(v) : y = RekeyWrap(ord, w)
      OBVIOUS
    <3>3. ord[u] \in Nat /\ ord[w] \in Nat /\ nonce + ord[u] = nonce + ord[w]
      BY <2>1, <3>1, <3>2 DEF RekeyWrap
    <3>4. ord[u] = ord[w]
      BY <3>3
    <3>5. u = w
      BY <3>4, <1>1
    <3> QED
      BY <3>1, <3>2, <3>5
  <2>2. \A x \in new, w \in wraps : x.nonce # w.nonce
    BY <1>3 DEF HistoryBounded
  <2>3. \A x \in new, f \in frames : x.nonce # f.nonce
    BY <1>3 DEF HistoryBounded
  <2> QED
    BY <1>1, <1>2, <2>1, <2>2, <2>3 DEF NonceNeverReused
<1>9. MembersCanRead'
  <2> SUFFICES ASSUME NEW u \in ListViewers'
               PROVE  \E w \in wraps' : w.auth = viewers'[u] /\ w.key = streamKey'
    BY DEF MembersCanRead
  <2>1. u \in Remaining(v) /\ viewers'[u] = viewers[u]
    BY <1>2 DEF ListViewers, Remaining
  <2>2. RekeyWrap(ord, u) \in wraps'
    BY <2>1, <1>1
  <2> QED
    BY <2>1, <2>2, <1>2 DEF RekeyWrap
<1>10. KeyStableWhileEncrypting' /\ ZeroedKeyNeverUsed'
  BY <1>1, <1>2, <1>3 DEF KeyStableWhileEncrypting, ZeroedKeyNeverUsed
<1>11. MembersAreListed'
  BY <1>2, <1>4 DEF MembersAreListed, ListViewers
<1> QED
  BY <1>5, <1>6, <1>7, <1>8, <1>9, <1>10, <1>11

\* RemoveViewer forgets a member without changing the key.
LEMMA RemoveIInv ==
    ASSUME IInv, TypeOK', NEW v \in ViewerID, RemoveViewer(v)
    PROVE  IInv'
<1> USE DEF IInv, TypeOK, Wrap, Frame
<1>1. /\ viewers' = [viewers EXCEPT ![v] = NoAuth] /\ v \in ListViewers
      /\ viewers[v] \in AuthKey /\ status' = [status EXCEPT ![viewers[v]] = "left"]
      /\ streamKey' = streamKey /\ nonce' = nonce /\ closed' = closed /\ pending' = pending
      /\ frames' = frames /\ wraps' = wraps /\ revokedAt' = revokedAt
  BY DEF RemoveViewer, ListViewers
<1>2. HistoryBounded' /\ NonceNeverReused' /\ KeyStableWhileEncrypting' /\ ZeroedKeyNeverUsed'
  BY <1>1 DEF HistoryBounded, NonceNeverReused, KeyStableWhileEncrypting, ZeroedKeyNeverUsed
<1>3. ViewersAreMembers'
  BY <1>1 DEF ViewersAreMembers, ListViewers
<1>4. RevokedKeysAreOld'
  BY <1>1 DEF RevokedKeysAreOld
<1>5. MembersCanRead'
  BY <1>1 DEF MembersCanRead, ListViewers
<1>6. MembersAreListed'
  BY <1>1 DEF MembersAreListed, ListViewers
<1> QED
  BY <1>2, <1>3, <1>4, <1>5, <1>6

\* EncryptFrame reads the current key while it holds the read lock.
LEMMA EncryptBeginIInv ==
    ASSUME IInv, TypeOK', NEW c \in Caller, NEW p \in Plaintext, EncryptFrameBegin(c, p)
    PROVE  IInv'
  BY DEF IInv, TypeOK, EncryptFrameBegin, IsOpen, HistoryBounded, ViewersAreMembers,
         RevokedKeysAreOld, NonceNeverReused, MembersCanRead, KeyStableWhileEncrypting,
         ZeroedKeyNeverUsed, MembersAreListed, ListViewers

\* The frame it seals is under the current key, with a fresh nonce.
LEMMA EncryptSealIInv ==
    ASSUME IInv, TypeOK', NEW c \in Caller, EncryptFrameSeal(c)
    PROVE  IInv'
<1> USE DEF IInv, TypeOK, Wrap, Frame
<1> DEFINE new == [text |-> pending[c].text, epoch |-> pending[c].epoch,
                   key |-> pending[c].key, nonce |-> nonce + 1]
<1>1. /\ frames' = frames \cup {new} /\ nonce' = nonce + 1
      /\ pending' = [pending EXCEPT ![c] = Idle] /\ pending[c] # Idle
      /\ streamKey' = streamKey /\ viewers' = viewers /\ closed' = closed
      /\ wraps' = wraps /\ status' = status /\ revokedAt' = revokedAt
  BY DEF EncryptFrameSeal
<1>2. ~closed /\ new.key = streamKey /\ streamKey > 0 /\ new.nonce = nonce + 1
  BY <1>1 DEF KeyStableWhileEncrypting, HistoryBounded
<1>3. HistoryBounded' /\ ZeroedKeyNeverUsed'
  BY <1>1, <1>2 DEF HistoryBounded, ZeroedKeyNeverUsed
<1>4. ViewersAreMembers' /\ MembersCanRead' /\ MembersAreListed'
  BY <1>1 DEF ViewersAreMembers, MembersCanRead, MembersAreListed, ListViewers
<1>5. RevokedKeysAreOld'
  BY <1>1, <1>2 DEF RevokedKeysAreOld
<1>6. NonceNeverReused'
  BY <1>1, <1>2 DEF NonceNeverReused, HistoryBounded
<1>7. KeyStableWhileEncrypting'
  BY <1>1 DEF KeyStableWhileEncrypting
<1> QED
  BY <1>3, <1>4, <1>5, <1>6, <1>7

\* Close forgets everybody; no caller is left that could use the zeroed key.
LEMMA CloseIInv ==
    ASSUME IInv, TypeOK', Close
    PROVE  IInv'
  BY DEF IInv, TypeOK, Close, IsOpen, NoReaders, HistoryBounded, ViewersAreMembers,
         RevokedKeysAreOld, NonceNeverReused, MembersCanRead, KeyStableWhileEncrypting,
         ZeroedKeyNeverUsed, MembersAreListed, ListViewers

\* The inductive invariant holds in every reachable state of the session.
THEOREM Inductive == Spec => []IInv
<1>1. NewSession /\ TypeOK => IInv
  BY InitIInv
<1>2. IInv /\ TypeOK' /\ [Next]_vars => IInv'
  <2> SUFFICES ASSUME IInv, TypeOK', [Next]_vars PROVE IInv'
    OBVIOUS
  <2>1. CASE Tick \/ UNCHANGED vars
    BY <2>1 DEF IInv, TypeOK, Tick, vars, HistoryBounded, ViewersAreMembers,
         RevokedKeysAreOld, NonceNeverReused, MembersCanRead, KeyStableWhileEncrypting,
         ZeroedKeyNeverUsed, MembersAreListed, ListViewers
  <2> QED
    BY <2>1, RegisterIInv, RevokeIInv, RemoveIInv, EncryptBeginIInv, EncryptSealIInv,
       CloseIInv DEF Next
<1> QED
  BY <1>1, <1>2, TypeCorrect, PTL DEF Spec

\* No nonce is used for two Seals: overlapping EncryptFrame calls, key
\* deliveries and rekeys draw from one counter.
THEOREM NonceUniqueness == Spec => []NonceNeverReused
  BY Inductive, PTL DEF IInv

\* Frames sealed after a revocation are under keys that the revoked viewer
\* was never given.
THEOREM RevocationSecrecy == Spec => []RevokedCannotReadLaterFrames
<1>1. IInv => RevokedCannotReadLaterFrames
  BY DEF IInv, TypeOK, Wrap, Frame, RevokedKeysAreOld, RevokedCannotReadLaterFrames
<1> QED
  BY <1>1, Inductive, PTL

\* Registration and rekeying leave every listed viewer with the key in use.
THEOREM RekeyReachesEveryMember == Spec => []MembersCanRead
  BY Inductive, PTL DEF IInv

\* The read lock that EncryptFrame holds keeps the key of a frame current until
\* the frame is sealed: no rekey and no Close comes in between.
THEOREM KeyStable == Spec => []KeyStableWhileEncrypting
  BY Inductive, PTL DEF IInv

\* Nothing is sealed or wrapped under the key buffer that Close has zeroed.
THEOREM NothingSealedUnderZero == Spec => []ZeroedKeyNeverUsed
  BY Inductive, PTL DEF IInv

=============================================================================
