------------------------------ MODULE Session ------------------------------
(***************************************************************************)
(* internal/session: the key state of one shared terminal, and the nonce   *)
(* counter of internal/crypto.  One Session is used by several goroutines  *)
(* of the sharing process (relayLoop, streamLoop, the SIGWINCH handler and *)
(* one goroutine per control-socket connection).                           *)
(*                                                                         *)
(* Register, Revoke, Remove and Close run under the write lock and are     *)
(* atomic.  EncryptFrame runs under the READ lock: several calls overlap,  *)
(* so it is two actions, and the write lock is the guard NoReaders.        *)
(*                                                                         *)
(* Keys are abstract.  The stream key drawn by the n-th GenerateStreamKey  *)
(* is the number n (random keys do not repeat); 0 is the zeroed buffer.    *)
(* Two histories, frames and wraps, record every AEAD Seal: a frame is     *)
(* sealed under the epoch key derived from (key, epoch), a wrap is a       *)
(* stream key sealed under a viewer's auth key.                            *)
(*                                                                         *)
(* Error returns of GenerateStreamKey, GenerateViewerID and Seal cannot    *)
(* happen in this build (crypto/rand.Read of go 1.25 does not fail, buffer *)
(* sizes are constants), so those branches have no action.                 *)
(*                                                                         *)
(* A definition XBug is a plausible mistake in X, used only to see that    *)
(* the properties below notice it.                                         *)
(***************************************************************************)
EXTENDS Naturals, Functions

CONSTANTS
    ViewerID,           \* the IDs crypto.GenerateViewerID draws from
    AuthKey,            \* auth keys, one per completed SPAKE2 handshake
    Caller,             \* goroutines that call EncryptFrame
    Plaintext,          \* terminal output and size records to encrypt
    NoAuth,             \* "no such entry" in the viewers map
    Idle,               \* a caller that is not inside EncryptFrame
    EpochDurationSec,   \* protocol.EpochDurationSec
    UniqueIDs,          \* TRUE: the random viewer IDs never collide
    MaxNonce,           \* bound on the nonce counter
    MaxTime             \* bound on the clock, in seconds

ASSUME AuthAssumption  == NoAuth \notin AuthKey
ASSUME IdleAssumption  == Idle \notin [text : Plaintext, epoch : Nat, key : Nat]
ASSUME EpochAssumption == EpochDurationSec \in Nat \ {0}
ASSUME FlagAssumption  == UniqueIDs \in BOOLEAN
ASSUME BoundAssumption == MaxNonce \in Nat /\ MaxTime \in Nat

VARIABLES
    streamKey,  \* Session.streamKey
    nonce,      \* NonceCounter.val
    viewers,    \* Session.viewers: ID -> auth key held for it
    revokedIDs, \* Session.revokedIDs
    closed,     \* Session.closed
    clock,      \* Session.clock, in seconds
    pending,    \* caller -> the EncryptFrame call that holds the read lock
    frames,     \* history: frames sealed by EncryptFrame
    wraps,      \* history: stream keys sealed for a viewer
    status,     \* history: what became of the holder of an auth key
    revokedAt   \* history: nonce counter when an auth key was revoked

vars == <<streamKey, nonce, viewers, revokedIDs, closed, clock, pending,
          frames, wraps, status, revokedAt>>

Frame == [text : Plaintext, epoch : Nat, key : Nat, nonce : Nat]
Wrap  == [auth : AuthKey, key : Nat, nonce : Nat]
Fate  == {"fresh", "member", "left", "revoked"}

-----------------------------------------------------------------------------

NewSession ==
    /\ streamKey = 1
    /\ nonce = 0
    /\ viewers = [v \in ViewerID |-> NoAuth]
    /\ revokedIDs = {}
    /\ closed = FALSE
    /\ clock = 0
    /\ pending = [c \in Caller |-> Idle]
    /\ frames = {}
    /\ wraps = {}
    /\ status = [a \in AuthKey |-> "fresh"]
    /\ revokedAt = [a \in AuthKey |-> 0]

\* Session.mu can be taken for writing: no EncryptFrame holds it for reading.
NoReadersBug == TRUE
NoReaders == \A c \in Caller : pending[c] = Idle

\* The check of s.closed that opens every operation but RemoveViewer.
IsOpenBug == TRUE
IsOpen == ~closed

ListViewers == {v \in ViewerID : viewers[v] # NoAuth}

CurrentEpochBug == (clock \div EpochDurationSec) - 1
CurrentEpoch == clock \div EpochDurationSec

\* The ID drawn for a new viewer.  The code draws it at random and does not
\* look whether the map already holds it.
DrawnID(v) == UniqueIDs => v \notin ListViewers \cup revokedIDs

\* RevokeViewer's loop: who is sent the new key, what is sealed for them, and
\* with which nonce (ord is the order of the iteration).
RemainingBug(v) == ListViewers
Remaining(v) == ListViewers \ {v}
RekeyPayloadBug == streamKey
RekeyPayload == streamKey + 1
RekeyNonceBug(ord, u) == nonce + 1
RekeyNonce(ord, u) == nonce + ord[u]

RegisterViewer(v, a) ==
    /\ NoReaders
    /\ IsOpen
    /\ status[a] = "fresh"
    /\ DrawnID(v)
    /\ nonce < MaxNonce
    /\ nonce' = nonce + 1
    /\ wraps' = wraps \cup {[auth |-> a, key |-> streamKey, nonce |-> nonce + 1]}
    /\ viewers' = [viewers EXCEPT ![v] = a]
    /\ status' = [status EXCEPT ![a] = "member"]
    /\ UNCHANGED <<streamKey, revokedIDs, closed, clock, pending, frames, revokedAt>>

\* The new key is sealed for the remaining viewers in map-iteration order,
\* which Go leaves open: ord gives each of them its place.
RevokeViewer(v) ==
    /\ NoReaders
    /\ IsOpen
    /\ v \in ListViewers
    /\ \E n \in 0..(MaxNonce - nonce) :
         \E ord \in Bijection(Remaining(v), 1..n) :
           /\ nonce' = nonce + n
           /\ wraps' = wraps \cup
                {[auth |-> viewers[u], key |-> RekeyPayload, nonce |-> RekeyNonce(ord, u)] :
                    u \in Remaining(v)}
           /\ revokedAt' = [revokedAt EXCEPT ![viewers[v]] = nonce + n]
    /\ streamKey' = streamKey + 1
    /\ viewers' = [viewers EXCEPT ![v] = NoAuth]
    /\ revokedIDs' = revokedIDs \cup {v}
    /\ status' = [status EXCEPT ![viewers[v]] = "revoked"]
    /\ UNCHANGED <<closed, clock, pending, frames>>

RemoveViewer(v) ==
    /\ NoReaders
    /\ v \in ListViewers
    /\ viewers' = [viewers EXCEPT ![v] = NoAuth]
    /\ status' = [status EXCEPT ![viewers[v]] = "left"]
    /\ UNCHANGED <<streamKey, nonce, revokedIDs, closed, clock, pending, frames, wraps,
                   revokedAt>>

\* EncryptFrame up to the derivation of the epoch key; the read lock is held
\* from here to EncryptFrameSeal.
EncryptFrameBegin(c, p) ==
    /\ pending[c] = Idle
    /\ IsOpen
    /\ pending' = [pending EXCEPT ![c] =
                     [text |-> p, epoch |-> CurrentEpoch, key |-> streamKey]]
    /\ UNCHANGED <<streamKey, nonce, viewers, revokedIDs, closed, clock, frames, wraps,
                   status, revokedAt>>

\* The rest of it: the atomic increment of the counter, Seal and RUnlock.
EncryptFrameSeal(c) ==
    /\ pending[c] # Idle
    /\ nonce < MaxNonce
    /\ nonce' = nonce + 1
    /\ frames' = frames \cup
         {[text |-> pending[c].text, epoch |-> pending[c].epoch,
           key |-> pending[c].key, nonce |-> nonce + 1]}
    /\ pending' = [pending EXCEPT ![c] = Idle]
    /\ UNCHANGED <<streamKey, viewers, revokedIDs, closed, clock, wraps, status, revokedAt>>

Close ==
    /\ NoReaders
    /\ IsOpen
    /\ streamKey' = 0
    /\ viewers' = [v \in ViewerID |-> NoAuth]
    /\ closed' = TRUE
    /\ UNCHANGED <<nonce, revokedIDs, clock, pending, frames, wraps, status, revokedAt>>

Tick ==
    /\ clock < MaxTime
    /\ clock' = clock + 1
    /\ UNCHANGED <<streamKey, nonce, viewers, revokedIDs, closed, pending, frames, wraps,
                   status, revokedAt>>

Next ==
    \/ \E v \in ViewerID, a \in AuthKey : RegisterViewer(v, a)
    \/ \E v \in ViewerID : RevokeViewer(v)
    \/ \E v \in ViewerID : RemoveViewer(v)
    \/ \E c \in Caller, p \in Plaintext : EncryptFrameBegin(c, p)
    \/ \E c \in Caller : EncryptFrameSeal(c)
    \/ Close
    \/ Tick

Spec == NewSession /\ [][Next]_vars

-----------------------------------------------------------------------------

\* Every variable has its type.
TypeOK ==
    /\ streamKey \in Nat
    /\ nonce \in Nat
    /\ viewers \in [ViewerID -> AuthKey \cup {NoAuth}]
    /\ revokedIDs \in SUBSET ViewerID
    /\ closed \in BOOLEAN
    /\ clock \in Nat
    /\ pending \in [Caller -> [text : Plaintext, epoch : Nat, key : Nat] \cup {Idle}]
    /\ frames \in SUBSET Frame
    /\ wraps \in SUBSET Wrap
    /\ status \in [AuthKey -> Fate]
    /\ revokedAt \in [AuthKey -> Nat]

\* No nonce is ever used for two different Seals, whether they come from
\* overlapping EncryptFrame calls, from key deliveries or from a rekey
\* ("nonce uniqueness across all (key, nonce) pairs within the session").
NonceNeverReused ==
    /\ \A f, g \in frames : f.nonce = g.nonce => f = g
    /\ \A w, x \in wraps : w.nonce = x.nonce => w = x
    /\ \A f \in frames, w \in wraps : f.nonce # w.nonce

\* A frame sealed after RevokeViewer returned is under a stream key that was
\* never delivered to the revoked viewer, even if the frame's EncryptFrame
\* overlapped the revocation or the viewer list changed since.
RevokedCannotReadLaterFrames ==
    \A a \in AuthKey : status[a] = "revoked" =>
        \A f \in frames : f.nonce > revokedAt[a] =>
            \A w \in wraps : w.auth = a => w.key # f.key

\* Every viewer in the map has been sealed the stream key that the next frame
\* uses: registrations and rekeys between them leave nobody behind.
MembersCanRead ==
    \A v \in ListViewers : \E w \in wraps : w.auth = viewers[v] /\ w.key = streamKey

\* The stream key a caller read at the start of EncryptFrame is still the
\* session's when the frame is sealed: no rotation or Close slips in between.
KeyStableWhileEncrypting ==
    \A c \in Caller : pending[c] # Idle => ~closed /\ pending[c].key = streamKey

\* Nothing is ever sealed under, or delivers, the zeroed key left by Close.
ZeroedKeyNeverUsed ==
    /\ \A f \in frames : f.key # 0
    /\ \A w \in wraps : w.key # 0

-----------------------------------------------------------------------------
\* The inductive invariant behind the safety properties.

\* The counter bounds every nonce used, the current key every key delivered.
HistoryBounded ==
    /\ \A f \in frames : f.nonce <= nonce
    /\ \A w \in wraps : w.nonce <= nonce
    /\ ~closed => streamKey > 0 /\ \A w \in wraps : w.key <= streamKey

\* The map holds members only, each under one ID.
ViewersAreMembers ==
    /\ \A v \in ListViewers : status[viewers[v]] = "member"
    /\ \A u, v \in ListViewers : viewers[u] = viewers[v] => u = v

\* Whoever joined and neither left nor was revoked is in the map, if IDs do
\* not collide.
MembersAreListed ==
    UniqueIDs /\ ~closed =>
        \A a \in AuthKey : status[a] = "member" => \E v \in ViewerID : viewers[v] = a

\* Every key a revoked viewer was given is older than the current key and
\* older than the key of every frame sealed since.
RevokedKeysAreOld ==
    \A a \in AuthKey : status[a] = "revoked" =>
        \A w \in wraps : w.auth = a =>
            /\ ~closed => w.key < streamKey
            /\ \A f \in frames : f.nonce > revokedAt[a] => w.key < f.key

IInv ==
    /\ TypeOK
    /\ HistoryBounded
    /\ ViewersAreMembers
    /\ RevokedKeysAreOld
    /\ NonceNeverReused
    /\ MembersCanRead
    /\ KeyStableWhileEncrypting
    /\ ZeroedKeyNeverUsed
    /\ MembersAreListed

=============================================================================
