# Lockwire in TLA+

Lockwire (`lw`) shares a terminal through a relay that is not trusted: `lw share`
encrypts the output of a shell, `lw relay` forwards the ciphertext, `lw join` or
a browser that knows a six-word code decrypts it. This directory holds TLA+
modules of the parts of the program that run concurrently, the TLC
configurations that check them, and proofs for TLAPS. Paths below are relative
to the root of the repository.

    tlc -workers 2 -config MCSharing.cfg MCSharing     # a run
    tlapm SessionProofs.tla                            # the proofs

`PROJECT.json` lists every run with its properties, the source lines behind
every definition, the hazards the properties are aimed at, the findings, and a
mutant for each property: a plausible mistake (the definitions called `XBug`)
under which TLC refutes it.

## Inventory

| component | state | operations | module |
|---|---|---|---|
| session keys, `internal/session`, `internal/crypto/nonce.go`, `viewerid.go` | stream key, nonce counter, viewers with their auth keys, revoked IDs, closed flag, an RWMutex | `RegisterViewer`, `RevokeViewer`, `RemoveViewer`, `EncryptFrame`, `Close`, `ListViewers`, `CurrentEpoch` | `Session` |
| sharer, `internal/sharer`, `cmd/lw/shareprobe.go` | handshakes, `viewerIDMap`, terminal size; goroutines `relayLoop`, `streamLoop`, SIGWINCH handler, one per control request | SPAKE2 answers, key delivery, disconnects, `SetTermSize`, `Revoke`, `Run` | `Sharing` |
| CLI viewer, `internal/viewer`, `cmd/lw/join.go`, `relayclient.go` | key, last nonce, epoch and grace period, failure count; contexts, connection | handshake, key delivery, rekey, stream and size frames, Ctrl-C, exit message | `Sharing` (against the sharer), `Join` (the process) |
| relay, `internal/relay/relay.go` | sessions by ID, viewers of a session, a bounded channel per viewer | `handleShare`, `handleWatch`, `runSharer`, `runViewer`, `viewerWriter` | `Relay`, which implements `Broker` |
| rate limiter, `internal/relay/ratelimit.go` | per IP: windows, violations, bans | `IsBanned`, `Allow`, called by `rateLimitWrap` | `RateLimiter` |
| share process and control commands, `cmd/lw/share.go`, `pidfile.go`, `list.go`, `stop.go`, `revoke.go`, `internal/ipc` | PID file, sockets, contexts, deferred clean-ups | start, stop, signals, look-up of the socket, requests | `ShareProcess` |
| web viewer, `web/src/client.ts`, `main.ts`, `crypto.ts` | state, socket, keys, last nonce, epoch, failure count, handlers waiting for WebCrypto; overlay, button | connect, handshake with timers, stream loop, disconnect, `onerror`, `onclose` | `WebClient` |
| crypto primitives, pairing codes, terminal, command line | | | not modelled |

How they interact. A sharer and its viewers hold a WebSocket each to the relay.
Stream and size frames of the sharer go to all viewers and may be dropped for a
slow one; unicasts (handshake, keys) go to one viewer and are not; handshake
messages and departures go to the sharer. Within the sharer's process, four kinds
of goroutines share one `Session` under its RWMutex and `viewerIDMap` under
another mutex. Control commands find the process through files.

What is hard: `EncryptFrame` holds only the read lock; allocating a nonce and
sending the frame are separate steps in three goroutines; a revocation changes
the key at once and tells the viewers one by one, outside the lock; the relay
closes Go channels that other goroutines send on; a session ID may be freed and
registered again while a viewer is joining; processes are killed and leave files;
the browser starts a handler for each message without waiting for the one before;
unicasts have no type byte, and a viewer decides from what it can and cannot read
whether it has been revoked.

What makes each part correct:

- session: nonces are unique; a revoked viewer cannot read what is sealed later;
  a member always can;
- sharer and viewers: only who knows the code gets a key; keys reach their
  owners; output is shown in order and once; the others keep watching;
- relay: no send on a closed channel, no viewer left in a dead session, order
  kept, unicasts kept, IDs freed, departures reported;
- rate limiter: limits hold up to the fixed windows; a ban is a ban, and one at
  a time; an expired ban leaves nothing behind;
- viewers as programs: connecting ends, the end of a session is noticed and
  shown, and what the user is told is true;
- share process: one session at a time, commands find it, it ends when told and
  cleans up.

## Modules

**Session** is `internal/session/session.go`. An operation under the write lock
is one action; `EncryptFrame` is two (`EncryptFrameBegin`, `EncryptFrameSeal`),
since calls under the read lock overlap; `NoReaders` is the write lock's guard.
Stream keys are numbers in the order they are drawn, 0 is the zeroed buffer.
AES-GCM, HKDF and SPAKE2 are ideal: a Seal is a record in the history `frames` or
`wraps`, opened by its key only. `status` and `revokedAt` are histories too.

**Sharing** EXTENDS `Session` and adds the sharer's goroutines, the relay as it
appears to them, and the viewers. An action is the stretch between two points at
which another goroutine can run: a lock, a call of the session, a `Send`. A call
of the session is an action of `Session` conjoined with the caller's step.
`RegisterViewer`, the key delivery, the entry into `viewerIDMap`, the status bar
and the size for the new viewer are five steps of `relayLoop`; `Revoke` is
`RevokeBegin`, `RevokeUnmap`, and a look-up and a `RevokeSend` for each rekey.
The relay is what `Relay` is proved to be: FIFO per viewer, stream messages may
be lost (`Lossy`), unicasts are not; in addition it may repeat frames
(`RelayReplays`). A viewer may know the code or not, may leave, and has a clock
of its own for the grace period of an epoch.

**Relay** is `relay.go` with one action for each critical section of `Server.mu`
or `session.mu` and each step outside. A session object is named by the sharer
connection that made it, so that a viewer can hold an object whose ID has been
registered again.

**Broker** is what the sharer and the viewers rely on, without locks, channels or
goroutines: after the join-ack a viewer gets, in the order sent and each at most
once, messages sent since it was admitted; broadcasts may be left out, a unicast
only if the viewer is cut off; connected members are told of the end, and an ended
session admits nobody.
`Relay!ImplementsBroker` maps the relay's state to it: `got` is what is on the wire
of a viewer, `due` the messages sent while it was listed.

**WebClient** is one attempt of a browser to watch. JavaScript runs one task at a
time, so an action is a task: an event of the socket, a timer, or the completion
of WebCrypto calls. A handler that awaits WebCrypto is an element of the bag
`tasks`, with the key it passed on, and any of them may complete next. The sharer
and the relay appear as the browser sees them: `RegisterViewer` seals a key and
`SharerDelivers` sends it, frames are sealed in one step and sent in another, and a
`Revoke`, or several that overlap, may come between any two steps. It may send its
rekeys in any order or pass over this viewer. `CaughtUp` is therefore about the key and
the size the client was *sent* last (`sentKey`, `sentSize`), which is all that
`client.ts` can answer for; what the sharer fails to send, or sends in the wrong
order, is the subject of `Sharing`. The history `unseen` records what
the client had no way to notice, which the properties leave out by name.

**Join** is one `lw join`, from the command line to its exit message: the steps of
`runJoin`, the handshake under its 15 s context, `streamLoop`, and what `Recv` and
`Send` return when a context is done or the connection has broken. `confirmA` says
what the first bytes of the sharer's confirmation look like, as that message is a
MAC without a type byte, and `genuine` whether it verifies. Epochs are in `Sharing`;
here a frame is of an expired epoch or not. The sharer revokes and delivers as in
`WebClient`. The relay tells its viewers the same whether the sharer has ended the
session, was killed or lost its connection; the history `lost` keeps the cases apart.
The history `unlucky` counts the frames that reach the
viewer before their key or after a frame sealed later.

**RateLimiter** is `ratelimit.go` and the two calls of `rateLimitWrap`, which are
two steps: any number of requests can be between them.

**ShareProcess** is a machine with several `lw share` and commands. The set-up
steps of `runShare` and its deferred calls are one sequence (`Deferred`), walked
up and down; a step may fail, a process may be killed anywhere. The PID file is
an inode and its contents, because `os.WriteFile` truncates first and writes
into a file that may have been removed meanwhile.

## Runs

| run | instance | result |
|---|---|---|
| `session` | 3 viewers, 2 callers, 6 nonces, 2 epochs | passes |
| `ratelimiter` | 1 IP, 2 events, 2 requests at a time, 11 seconds, up to the permanent ban | passes |
| `relay` | 1 ID, 2 sharers, 2 viewers, limit 1, channel of 1, 2 messages | passes |
| `relay_live` | 2 sharers, 1 viewer, 3 messages; the refinement of `Broker` | passes |
| `sharing` | 2 viewers, 1 revocation, 2 chunks of output, losses, departures, lost relay; and 3 viewers, 2 revocations that may overlap | passes |
| `sharing_frames` | 1 viewer, 2 chunks, 2 sizes, 2 epochs, replays | passes |
| `share_process` | a killed process, 2 more, 1 command | passes |
| `web_client` | 2 frames, 2 sizes, 3 keys, 2 epochs | passes |
| `join` | 3 frames, 2 keys | passes |
| `sharing_join_race` | 2 viewers, 1 revocation | violated |
| `sharing_size` | 1 viewer, 1 chunk, 1 size | violated |
| `web_replay` | 3 frames, 1 repeated | violated |

Why the bounds are enough. The races are between two or three actors over one or
two messages: a channel of one is full after one message as one of 256 is after
256; a limit of one viewer is contested by two; a third viewer is only needed to
watch two others being revoked, and then nothing else has to happen, so that `sharing` joins
two instances by the constraint `Instances` of `MCSharing`; three keys let two rekeys of a
browser overlap (`Instances` of `MCWebClient`: in one epoch, or one rekey and two epochs); two
chunks are needed to be shown in the wrong order, and one size frame to be overtaken. In
`join` two keys allow one revocation, at any time; rekeys that overlap need a third key, which
is too much for TLC with everything else that goes on there, and are covered by
`JoinProofs`, whose theorems hold for any number of keys. Six nonces allow two registrations, a
revocation and overlapping frames before and after. `FailureThreshold` (`Threshold` in
`Join` and `WebClient`) is 2 for the code's 10, so that giving up happens and
there are frames left to be lucky with. `ViolationWindow`, the durations of
bans and the limits of `MCRateLimiter` keep the order of the real constants
(`DurationAssumption` states what `BanStartsAfresh` needs of it). `CHECK_DEADLOCK`
is off where the system may stop: a closed session, all processes ended, a
bounded counter at its bound. Symmetry is used in the runs of invariants and
action properties only.

Fairness is used in `relay_live`: weak fairness of each goroutine of the relay
(`ServeSharer`, `ServeViewer`, `ServeWriter`), because the Go scheduler runs
every goroutine that can run. Peers are not fair: they may stay connected and
silent, although in the code they would time out. In `web_client` the browser's
event loop is weakly fair: a connection attempt has a result, timers fire, events
are dispatched and WebCrypto calls complete; in `join` the one goroutine of the
viewer and its timer are. There too the relay and the sharer need not do anything,
and the user need not press Ctrl-C. The end of a stopped `lw
share` is checked as an invariant (`NeverStuck`: a stopped process can always
take a step of its own, and it has finitely many to take). This counts closing
the terminal as waking a blocked read and ending the shell.

### What the violated runs show

- `sharing_join_race`: `RegisterViewer` makes a viewer a target of rekeys before
  `viewerIDMap` has it. A revocation in between seals the new key for it, finds
  no entry, goes on, and nobody sends that key again. The viewer was sent the old
  one. `RekeyedViewersFollow`, which leaves out the viewers in `missed` (passed over in
  this way, or sent an older key after the newest), holds in the run `sharing`.
- `sharing_size`: a size frame that got its nonce before, and is sent after, a
  frame of output is refused as a replay, and the size is not sent again.
- `web_replay`: the browser checks a frame's nonce before it awaits WebCrypto and
  stores it afterwards. If the decryption of frame 3 completes before that of
  frame 2, the last nonce goes from 3 to 2, and frame 3, repeated by the relay, is
  decrypted and shown again.

### Differences from the specifications that no run is about

- The rekeys of two overlapping `lw revoke` can reach a third viewer in the wrong
  order; it keeps the older key (`sharer.go:106-127`, `viewer.go:345-351`;
  `specs/encryption/encryption-model.spec.md:180-181`). `RekeyedViewersFollow` is
  checked and proved with revocations that overlap; it leaves out by name the viewers this
  happened to (`Overtaken`, `missed`), and TLC refutes it without that proviso.
- A viewer ID is not checked against those in use (`session.go:91-110`,
  `viewerid.go:11-22`), while `encryption-model.spec.md:111` says it is unique within the
  session. A collision overwrites the entry of a member, which is then neither rekeyed nor
  can be revoked. The runs and the theorems about the map assume `UniqueIDs`.
- The relay tells the sharer when a viewer has left (`relay.go:332-337`), while
  `specs/relay/relay-protocol.spec.md:128` says that it "sends no notification to the
  Sharer". `handleViewerDisconnect` of the sharer relies on the notification, and
  `DepartureReported` states what the code does.
- The size read for a joining viewer (`sharer.go:304`) may be older than one that
  `SetTermSize` broadcasts before it is sent; all viewers then end with the older size.
- A viewer that leaves while it is revoked is subtracted twice from the count on
  the status bar (`sharer.go:207-215`, `shareprobe.go:45-52`;
  `specs/session/session-lifecycle.spec.md:267-269`).
- While the browser derives its keys nobody listens to the socket
  (`client.ts:126-131`): a size or a rekey that arrives then is lost, and after a
  session-ended or a closed socket the page says "active" with nothing behind it.
- A rekey that the browser is decrypting when it disconnects still sets the key
  after `zeroKeys` has run (`client.ts:345-347`).
- Ctrl-C during the handshake of `lw join` is reported as "handshake timed out" or
  as a failed send, with exit status 1 (`viewer.go:194`, `join.go:163`).
- A session that ends before the join-ack is written is not noticed by either
  viewer, and the handshake ends by its time-out (`viewer.go:202-209`).
- A `confirm_a` whose first bytes equal a message type is skipped or taken for
  session-ended or session-not-found (`viewer.go:226-242`, `client.ts:177-197`):
  about one handshake in 64 has a first byte of 2, 5, 6 or 7.
- A viewer that was not revoked says "access revoked" after ten frames in a row
  that overtook its rekey or a size frame sealed later (`viewer.go:305`).
- `runSharer` does not close the viewers' connections when a session ends
  (`relay.go:263-276`; `specs/relay/relay-protocol.spec.md:114,120`).
- Rates are counted in fixed windows, so up to twice the limit fits in the time
  of one window, where `relay-protocol.spec.md:155` says "in the past minute".
  `ServedAtMostTwiceTheLimit` states what does hold.
- `EventHandshakeFailure` is never recorded (`relay-protocol.spec.md:161-164`).
- A sharer that is killed or loses its connection looks to the viewers like one that
  ended (`relay.go:263-271` sends session-ended in each case): `lw join` says "session ended
  by sharer" and exits with 0, where `specs/cli/commands.spec.md:82-85` and
  `specs/session/session-lifecycle.spec.md:203-207` want "session lost (connection dropped)"
  and 1. `ReportIsTrue` names this as an exception.
- `Sharer.handshakes` keeps its entries when a handshake succeeds or the viewer
  leaves before it does; the limiter's map of IPs is never pruned.
- Two `lw share` started at the same time can both run: both read the PID file
  before either writes it, or one removes as stale the file the other has just
  written. The first to end then removes the other's file.
  `ShareProcess` has these behaviours; `SingleShare` and `CommandFindsSession`
  claim nothing once `overlapped` holds.
- `lw stop` may report an error after it has stopped the session, because
  `ipcSrv.Close` does not wait for the handler that answers.

## Proofs

Each theorem holds for any number of viewers, sharers, callers, processes, and so
on, and for all values of the bounds. The assumptions on the constants are named in
the modules: default values (`None`, `NoAuth`, `Idle`, `Old`) are outside the sets
they stand beside, limits, windows and durations are positive and bans outlast the
windows, bounds are numbers.

**`SessionProofs`**, from `IInv`. The safety properties are not inductive alone.
Nonce uniqueness needs that the counter bounds the nonces used
(`HistoryBounded`). Secrecy after a revocation needs that the revoked viewer's
keys are older than the current key and than that of each frame since
(`RevokedKeysAreOld`); that in turn needs that the map lists members only, each
once (`ViewersAreMembers`), or a revoked viewer would get the next rekey, and
that a call under way uses the current key (`KeyStableWhileEncrypting`), or a
frame begun before the revocation and sealed after it would use the old one.
`NonceUniqueness`, `RevocationSecrecy`, `RekeyReachesEveryMember`, `KeyStable` and
`NothingSealedUnderZero` follow. `MembersAreListed`, which needs `UniqueIDs`, is
there for `SharingSafetyProofs`.
The delicate step is `RevokeViewer`: it seals the new key for the remaining
viewers in the order of a Go map, with one nonce each. `RevokeEffect` extracts
from the action a numbering of those viewers without repetition, and the lemma
`RevokeIInv` works with that.

**`SharingProofs`** proves `SharingImplementsSession`: `SharingSpec => Spec`. `Session`
is the abstract specification of what the whole system does with keys, the
variables map to themselves, and each step of a goroutine, a viewer or the relay
is a step of the session or leaves it alone. Its invariant `CallsAreTyped` says
that the IDs and frames the goroutines carry between steps are of the session's
types. `SharingNonceUniqueness` and `SharingRevocationSecrecy` carry the two main
theorems over to the system.

**`SharingSafetyProofs`** goes on to what viewers hold and show. Every step is one of
a viewer (`ViewerStep`: it takes the first message of its own queue) or of the
sharer and the relay (`SharerStep`: queues only grow, by messages that are `Sent`),
and five inductions follow, each with the ones before and the session's `IInv`:

- `Types`: every local of a goroutine has its type at the program counters where
  it is used, and `SharingTypeOK` follows;
- `KeyInv`: the keys under way were sealed by the session (`KeysOnTheWay`); a
  viewer in its handshake finds its own key delivery before any rekey
  (`FirstKeyIsOwn`), although `Revoke` may be sending rekeys at the same time,
  because the sender of a rekey takes the address from `viewerIDMap`, which
  `relayLoop` fills after the delivery is sent. `KeyOnlyWithCode` follows;
- `OutputInv`: the nonces of output frames are in the order of the output, also
  those in the hands of a goroutine (`OutputNumbered`); frames in the queues, and
  what is shown, are frames the session sealed (`FramesAreSealed`, `ShownIsSealed`).
  The replay check then gives `ShownInOrder`, and `KeyInv` with the session's
  `RevokedCannotReadLaterFrames` gives `RevokedSeesNothingNew`;
- `MapInv`, under `UniqueIDs`: entries of `viewerIDMap` belong to registered viewers,
  one each, and so does the entry that `relayLoop` is about to make.
  `MapLeadsToOwner` follows. Without `UniqueIDs` it is false;
- `FollowInv`, under `UniqueIDs`, with any number of revocations that overlap as they
  like. `RekeyedViewersFollow` speaks of settled states only, so the invariant has to say
  where the key in use is while things move. As long as the sharer is connected to the
  relay: the session is open; the keys sent to a viewer carry its own ID (`IDsAreOwn`);
  the rekeys that a `Revoke` has still to send carry and go to their viewer's
  (`RekeysAreOwn`); a viewer whose delivery `relayLoop` is about to send has been sent no
  key yet (`DeliveryIsFirst`); and for each connected member outside `missed`, the key in
  use is due in some `Revoke` call (`Owed`), is being delivered, is the last key for it in
  its queue, or is in its hands (`Follows`). A rekey that holds an older key may be due as
  well. Sent while the key in use is still due it does no harm, since that key comes after
  it; sent after it, it is `Overtaken` and its viewer is in `missed`. `KeysFollow` and
  `SettledViewersFollow` are the theorems.

**`RelayProofs`**, from `IInv`: a session is in the map from its registration to its
teardown (`Registered`), teardown is done once (`TeardownOnce`), a listed viewer's
channel is open and belongs to the session it joined (`ListedIsOpen`), a viewer that
is past its admission is listed, told or gone (`ListedOrTold`), a connection before
its admission has nothing due or sent (`Untouched`). `QueuesInOrder` relates, for each viewer,
what it is due, what is in its channel and what is on its wire: each is in the
order sent, the channel comes after the wire, and no unicast is missing from both.
The four safety theorems are consequences, and `Refinement` (`Spec => ImplementsBroker`)
uses the same invariant: each action of the relay is a step of `Broker` or a stutter,
and `QueuesInOrder` is what makes `viewerWriter`'s step a `Deliver`.

**`RateLimiterProofs`**. `BanIsEnforced` and `BansDoNotStack` are action properties
from `TypeOK`: `Allow` asks `IsBannedLocked` again under the lock. `FreshAfterBan` needs that a
ban outlasts every window and violation that was there when it began (`BanOutlasts`).
`ServedBound` cannot be read off the counter, which forgets the window before. `Places`
says that the requests served in the current counting window have different places in
it, none above the limit, and so have those of the window before that can still be
seen. That maps what was served in the past window one to one into `1..2*Limit`.

**`ShareProcessProofs`**, from `IInv`: the number of deferred calls says what there is
to clean up (`CleanUps`), so that what is left when a process exits is nothing
(`ExitIsClean`); while no starts have overlapped, one process at most is starting, one
that starts beside a live session has read its PID and will refuse (`OneStarts`), and the inode it opened is still the PID file when it
writes (`OpenedIsThere`), so that `SingleShare` is kept by every start, crash and exit;
a process that serves for as long as a command runs is found at each of its
look-ups (`FoundServing`).

**`JoinProofs`**, from `IInv`. The viewer and its peers move in step: what is said, what
is answered and where `Run` stands go together (`Progress`), a message without a type
byte is under way only when `recvHandshakeMsg` waits for it, and the key delivery comes
before any rekey (`Answers`). That settles all messages but "access revoked", which
depends on everything in the queue: a frame fails when its nonce is not above
`lastNonce`, or when the key in force is another by the time it is read. `KeyInForce`
follows the key through the messages before a frame; `Opened` says that every stream
frame under way, apart from a set `bad` of nonces, will be opened; `Failing` says that
the failures counted and the size of `bad` together are at most `unlucky`. Sending a
frame puts its nonce into `bad` exactly when it is counted as unlucky, reading one at
which the viewer fails takes it out, which needs that each nonce is sent once
(`HeldOK`, `NoncesOK`). `ReportsAreTrue` follows, and the stronger `GivesUpForCause`:
the viewer never counts to the threshold for another reason, revoked or not.

**`WebClientProofs`**, from `IInv`. `CaughtUp` speaks of a browser at rest; the invariant has
to say what is coming while it is not. `Progress` ties the step of the handshake to what
was said and answered, and `Answers` says that a handshake message is under way only
when it is the one waited for, and that the rekeys and the sizes that count come after the
key delivery, whenever the revocations behind them began. `Tasks` is about the handlers that wait for WebCrypto: unless
`unseen` says so, one key and one size at most wait at a time, and the size will open.
`Coming` says that the last key (the last size) of the queue, else the one that waits,
else the one in force, is the one the client was sent last. The bag of handlers may finish in any order; that
there is one of a kind is what makes "last" meaningful. All of it is proved of
`ReplaySpec`, which contains `Spec`, so `CaughtUp` holds also for a relay that sends
stream frames again (`CatchesUpWithReplays`), where `ReplaysRefused` does not.

Only model-checked:

- everything about liveness, and `NeverStuck`, which is about `ENABLED`: the prover
  handles neither.

## Not modelled, and why

- The arithmetic of AES-GCM, HKDF and SPAKE2, and memory locking: ideal here.
- The bytes of messages, except that `Join` and `WebClient` have the effect of the
  missing type byte of unicasts.
- Sockets with bounded buffers: writes of the relay to a sharer do not block.
- Collisions of random IDs (`UniqueIDs`). Reuse of PIDs. Failures of `crypto/rand` and of writing the PID file.
- Heartbeats: they only keep connections alive; a time-out is a lost connection.
- Screen, status bar, banner, flags, certificates, code words: no state that another
  part depends on. `lw relay` shuts down through `http.Server.Shutdown`, which
  leaves WebSocket connections alone; they end with the process.

## Plan

1. `Relay` with bounded socket buffers (two full directions and `session.mu`).
2. An abstract specification of key distribution (who may hold which key) that
   `Sharing` implements.
