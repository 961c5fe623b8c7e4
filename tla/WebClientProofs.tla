-------------------------- MODULE WebClientProofs --------------------------
(***************************************************************************)
(* Proofs about WebClient, for every threshold and any number of frames,   *)
(* resizes, keys, epochs and repeated frames: the types, and that a        *)
(* browser which nothing is on its way to has the key and the size it was  *)
(* sent last.                                                              *)
(***************************************************************************)
EXTENDS WebClient, FiniteSetTheorems, SequenceTheorems, TLAPS

USE ThresholdAssumption, BoundAssumption

-----------------------------------------------------------------------------
\* Messages.

Message == Frame \cup Size \cup Rekey \cup Control \cup Unicast

\* A key on its way or being unwrapped: a rekey or the key delivery.  The
\* other messages of the handshake carry no key.
IsKey(m)  == m.kind = "rekey" \/ (m.kind = "handshake" /\ m.key # 0)
IsSize(m) == m.kind = "size"
Keys      == {m \in Message : IsKey(m)}
Sizes     == {m \in Message : IsSize(m)}

\* The messages that wait for WebCrypto.
Waiting == BagToSet(tasks)
Pending == {t.msg : t \in Waiting}

-----------------------------------------------------------------------------
\* The inductive invariant.

\* Where the client is, how much it has said, and what that takes.
Progress ==
    /\ state = "active" => pc = "stream"
    /\ pc \in {"none", "dial", "join"} => spoken = 0
    /\ pc = "msgA" => spoken = 1
    /\ pc = "confirmA" => spoken = 2 /\ answered >= 2
    /\ pc = "delivery" => spoken = 3 /\ answered >= 3
    /\ pc \in {"derive", "stream"} => spoken = 3 /\ answered = 4
    /\ answered = 4 => spoken = 3
    /\ wrapped # 0 => spoken = 3
    /\ sentSize # 0 => answered = 4
    /\ key >= 1
    /\ pc = "failed" => ws # "open"
    /\ state = "pre-join" => ws = "none" /\ pc = "none"
    /\ ws \in {"none", "connecting"} => /\ pc \in {"none", "dial"} /\ answered = 0
                                        /\ inbox = <<>>

\* A message of the handshake is under way when it is waited for.  The sizes
\* that count and the rekeys come after the key delivery.
Answers ==
    ws = "open" =>
        /\ \A i \in 1..Len(inbox) : inbox[i].kind = "handshake" =>
             /\ \/ pc = "msgA" /\ answered = 2
                \/ pc = "confirmA" /\ answered = 3
                \/ pc = "delivery" /\ answered = 4 /\ inbox[i].looks = "untyped"
             /\ inbox[i].key # 0 <=> pc = "delivery"
             /\ \A j \in 1..Len(inbox) : inbox[j].kind = "handshake" => i = j
        /\ \A i \in 1..Len(inbox) : inbox[i].kind = "rekey" => answered = 4
        /\ pc = "delivery" /\ answered = 4 =>
             \E i \in 1..Len(inbox) :
                 /\ inbox[i].kind = "handshake"
                 /\ sentSize # 0 => \E j \in (i + 1)..Len(inbox) : IsSize(inbox[j])
                 /\ \A j \in 1..i : inbox[j].kind # "rekey"

\* What waits for WebCrypto.  Two rekeys, or two sizes, wait together only if
\* that is in unseen.
Tasks ==
    /\ IsABag(tasks)
    /\ pc \notin {"derive", "stream"} => Waiting = {}
    /\ pc = "derive" => \A t \in Waiting : t.msg.kind \in {"rekey", "handshake"} /\ IsKey(t.msg)
    /\ pc = "stream" => \A t \in Waiting : t.msg.kind # "handshake"
    /\ "key" \notin unseen =>
         \A t, u \in Waiting : IsKey(t.msg) /\ IsKey(u.msg) => t = u /\ tasks[t] = 1
    /\ "size" \notin unseen =>
         /\ \A t, u \in Waiting : IsSize(t.msg) /\ IsSize(u.msg) => t = u /\ tasks[t] = 1
         /\ \A t \in Waiting : IsSize(t.msg) => Opens(t)

\* What the client has once it has read q and has what waits in W: the last
\* message of S is one of G, or none is under way and now is what it should be.
Last(q, W, S, G, now, goal) ==
    \/ \E i \in 1..Len(q) : q[i] \in G /\ \A j \in (i + 1)..Len(q) : q[j] \notin S
    \/ /\ \A i \in 1..Len(q) : q[i] \notin S
       /\ \/ \E m \in W : m \in G
          \/ now = goal /\ \A m \in W : m \notin S

LatestKey  == Last(inbox, Pending, Keys, {m \in Keys : m.key = sentKey}, streamKey, sentKey)
LatestSize == Last(inbox, Pending, Sizes, {m \in Sizes : m.size = sentSize}, size, sentSize)

\* After the key delivery the client is about to catch up with what it is
\* sent, unless that is in unseen.
Coming ==
    ws = "open" /\ answered = 4 =>
        /\ "key" \in unseen \/ LatestKey
        /\ sentSize = 0 \/ "size" \in unseen \/ LatestSize

IInv == Progress /\ Answers /\ Tasks /\ Coming

-----------------------------------------------------------------------------
\* Queues and bags.

\* The fields of a message by its kind.
LEMMA Fields ==
    ASSUME NEW m \in Message
    PROVE  /\ m.kind \in {"stream", "size", "rekey", "handshake", "join-ack",
                          "session-not-found", "session-full", "session-ended"}
           /\ m.kind = "stream" <=> m \in Frame
           /\ m.kind = "size" <=> m \in Size
           /\ m.kind = "rekey" <=> m \in Rekey
           /\ m.kind = "handshake" <=> m \in Unicast
           /\ m \in Frame => m.nonce \in Nat /\ m.epoch \in Nat /\ m.key \in Nat
           /\ m \in Size => m.epoch \in Nat /\ m.key \in Nat /\ m.size \in Nat
           /\ m \in Rekey => m.key \in Nat
           /\ m \in Unicast => m.key \in Nat /\ m.looks \in {"untyped", "skipped", "rejected"}
<1>1. CASE m \in Frame
  BY <1>1 DEF Frame, Size, Rekey, Unicast
<1>2. CASE m \in Size
  BY <1>2 DEF Frame, Size, Rekey, Unicast
<1>3. CASE m \in Rekey
  BY <1>3 DEF Frame, Size, Rekey, Unicast
<1>4. CASE m \in Control
  BY <1>4 DEF Frame, Size, Rekey, Unicast, Control
<1>5. CASE m \in Unicast
  BY <1>5 DEF Frame, Size, Rekey, Unicast
<1> QED
  BY <1>1, <1>2, <1>3, <1>4, <1>5 DEF Message

\* A queue with one more message.
LEMMA Appended ==
    ASSUME NEW q \in Seq(Message), NEW m \in Message
    PROVE  /\ Append(q, m) \in Seq(Message)
           /\ Len(q) \in Nat /\ Len(Append(q, m)) = Len(q) + 1
           /\ Append(q, m)[Len(q) + 1] = m
           /\ \A i \in 1..Len(q) : Append(q, m)[i] = q[i] /\ q[i] \in Message
           /\ \A i \in 1..(Len(q) + 1) : i \in 1..Len(q) \/ i = Len(q) + 1
  OBVIOUS

\* A queue without its first message.
LEMMA Popped ==
    ASSUME NEW q \in Seq(Message), q # <<>>
    PROVE  /\ Tail(q) \in Seq(Message) /\ Head(q) = q[1] /\ q[1] \in Message
           /\ Len(q) \in Nat \ {0} /\ Len(Tail(q)) = Len(q) - 1
           /\ \A i \in 1..Len(Tail(q)) : Tail(q)[i] = q[i + 1] /\ i + 1 \in 2..Len(q)
           /\ \A i \in 1..Len(q) : q[i] \in Message
           /\ \A i \in 2..Len(q) : i - 1 \in 1..Len(Tail(q)) /\ Tail(q)[i - 1] = q[i]
  OBVIOUS

\* One copy more in a bag.
LEMMA BagMore ==
    ASSUME NEW B, IsABag(B), NEW x
    PROVE  /\ IsABag(B (+) SetToBag({x}))
           /\ BagToSet(B (+) SetToBag({x})) = BagToSet(B) \cup {x}
           /\ x \notin BagToSet(B) => (B (+) SetToBag({x}))[x] = 1
           /\ \A y \in BagToSet(B) \ {x} : (B (+) SetToBag({x}))[y] = B[y]
  BY DEF IsABag, BagToSet, SetToBag, (+)

\* One copy less in a bag.
LEMMA BagLess ==
    ASSUME NEW B, IsABag(B), NEW x \in BagToSet(B)
    PROVE  /\ IsABag(B (-) SetToBag({x}))
           /\ BagToSet(B (-) SetToBag({x})) \subseteq BagToSet(B)
           /\ BagToSet(B) \subseteq BagToSet(B (-) SetToBag({x})) \cup {x}
           /\ B[x] = 1 => x \notin BagToSet(B (-) SetToBag({x}))
           /\ \A y \in BagToSet(B) \ {x} : (B (-) SetToBag({x}))[y] = B[y]
  BY DEF IsABag, BagToSet, SetToBag, (-)

\* The empty bag.
LEMMA BagNone == IsABag(EmptyBag) /\ BagToSet(EmptyBag) = {}
  BY DEF IsABag, BagToSet, SetToBag, EmptyBag

\* A message more: one of another kind changes nothing, one of G is what the
\* client should have.
LEMMA LastAppend ==
    ASSUME NEW q \in Seq(Message), NEW m \in Message, NEW W, NEW S, NEW G, NEW now, NEW goal,
           (m \notin S /\ Last(q, W, S, G, now, goal)) \/ m \in G
    PROVE  Last(Append(q, m), W, S, G, now, goal)
<1> DEFINE r == Append(q, m)
<1>0. /\ Len(q) \in Nat /\ Len(r) = Len(q) + 1 /\ r[Len(q) + 1] = m
      /\ \A i \in 1..Len(q) : r[i] = q[i]
      /\ \A i \in 1..(Len(q) + 1) : i \in 1..Len(q) \/ i = Len(q) + 1
  BY Appended
<1> HIDE DEF r
<1>1. CASE m \in G
  <2>1. Len(q) + 1 \in 1..Len(r) /\ \A j \in ((Len(q) + 1) + 1)..Len(r) : r[j] \notin S
    BY <1>0
  <2> QED
    BY <1>0, <1>1, <2>1 DEF Last, r
<1>2. ASSUME m \notin S, NEW i \in 1..Len(q), q[i] \in G,
             \A j \in (i + 1)..Len(q) : q[j] \notin S
      PROVE  Last(r, W, S, G, now, goal)
  <2>1. i \in 1..Len(r) /\ r[i] \in G
    BY <1>0, <1>2
  <2>2. ASSUME NEW j \in (i + 1)..Len(r) PROVE r[j] \notin S
    <3>1. CASE j = Len(q) + 1
      BY <1>0, <1>2, <3>1
    <3>2. CASE j # Len(q) + 1
      <4>1. j \in (i + 1)..Len(q) /\ j \in 1..Len(q)
        BY <1>0, <3>2
      <4> QED
        BY <1>0, <1>2, <4>1
    <3> QED
      BY <3>1, <3>2
  <2> QED
    BY <2>1, <2>2 DEF Last
<1>3. ASSUME m \notin S, \A i \in 1..Len(q) : q[i] \notin S,
             (\E x \in W : x \in G) \/ (now = goal /\ \A x \in W : x \notin S)
      PROVE  Last(r, W, S, G, now, goal)
  <2>1. \A i \in 1..Len(r) : r[i] \notin S
    BY <1>0, <1>3
  <2> QED
    BY <1>3, <2>1 DEF Last
<1> QED
  BY <1>1, <1>2, <1>3 DEF Last, r

\* The first message is read: it goes to what waits, if it is one of S, when
\* nothing of S waits.
LEMMA LastTail ==
    ASSUME NEW q \in Seq(Message), q # <<>>, NEW W, NEW V, NEW S, NEW G, G \subseteq S,
           NEW now, NEW goal, Last(q, W, S, G, now, goal),
           IF q[1] \in S THEN q[1] \in V ELSE \A m \in S : m \in W <=> m \in V
    PROVE  Last(Tail(q), V, S, G, now, goal)
<1> DEFINE r == Tail(q)
<1>0. /\ Len(q) \in Nat \ {0} /\ Len(r) = Len(q) - 1
      /\ \A i \in 1..Len(r) : r[i] = q[i + 1] /\ i + 1 \in 2..Len(q)
      /\ \A i \in 2..Len(q) : i - 1 \in 1..Len(r) /\ r[i - 1] = q[i]
  BY Popped
<1> HIDE DEF r
<1>1. ASSUME NEW i \in 1..Len(q), q[i] \in G, \A j \in (i + 1)..Len(q) : q[j] \notin S, i # 1
      PROVE  Last(r, V, S, G, now, goal)
  <2>1. i \in 2..Len(q)
    BY <1>0, <1>1
  <2>2. i - 1 \in 1..Len(r) /\ r[i - 1] \in G
    BY <1>0, <1>1, <2>1
  <2>3. ASSUME NEW j \in ((i - 1) + 1)..Len(r) PROVE r[j] \notin S
    <3>1. j \in 1..Len(r) /\ j + 1 \in (i + 1)..Len(q)
      BY <1>0, <2>1
    <3> QED
      BY <1>0, <1>1, <3>1
  <2> QED
    BY <2>2, <2>3 DEF Last
<1>2. ASSUME q[1] \in G, \A j \in 2..Len(q) : q[j] \notin S
      PROVE  Last(r, V, S, G, now, goal)
  <2>1. \A i \in 1..Len(r) : r[i] \notin S
    BY <1>0, <1>2
  <2> QED
    BY <1>2, <2>1 DEF Last
<1>3. ASSUME \A i \in 1..Len(q) : q[i] \notin S,
             (\E x \in W : x \in G) \/ (now = goal /\ \A x \in W : x \notin S)
      PROVE  Last(r, V, S, G, now, goal)
  <2>1. \A i \in 1..Len(r) : r[i] \notin S
    BY <1>0, <1>3
  <2>2. q[1] \notin S
    BY <1>0, <1>3
  <2> QED
    BY <1>3, <2>1, <2>2 DEF Last
<1>4. Last(q, W, S, G, now, goal)
  OBVIOUS
<1>5. \A j : j \in (1 + 1)..Len(q) <=> j \in 2..Len(q)
  BY <1>0
<1> QED
  BY <1>1, <1>2, <1>3, <1>4, <1>5 DEF Last, r

\* The first message is skipped, but there is a later one of its kind.
LEMMA LastSkip ==
    ASSUME NEW q \in Seq(Message), q # <<>>, NEW W, NEW S, NEW G, NEW now, NEW goal,
           Last(q, W, S, G, now, goal), \E i \in 2..Len(q) : q[i] \in S
    PROVE  Last(Tail(q), W, S, G, now, goal)
<1> DEFINE r == Tail(q)
<1>0. /\ Len(q) \in Nat \ {0} /\ Len(r) = Len(q) - 1
      /\ \A i \in 1..Len(r) : r[i] = q[i + 1] /\ i + 1 \in 2..Len(q)
      /\ \A i \in 2..Len(q) : i - 1 \in 1..Len(r) /\ r[i - 1] = q[i]
  BY Popped
<1> HIDE DEF r
<1>1. PICK l \in 2..Len(q) : q[l] \in S
  OBVIOUS
<1>2. l \in 1..Len(q)
  BY <1>0
<1>3. PICK i \in 1..Len(q) : q[i] \in G /\ \A j \in (i + 1)..Len(q) : q[j] \notin S
  BY <1>1, <1>2 DEF Last
<1>4. i \in 2..Len(q)
  BY <1>0, <1>1, <1>3
<1>5. i - 1 \in 1..Len(r) /\ r[i - 1] \in G
  BY <1>0, <1>3, <1>4
<1>6. ASSUME NEW j \in ((i - 1) + 1)..Len(r) PROVE r[j] \notin S
  <2>1. j \in 1..Len(r) /\ j + 1 \in (i + 1)..Len(q)
    BY <1>0, <1>4
  <2> QED
    BY <1>0, <1>3, <2>1
<1> QED
  BY <1>5, <1>6 DEF Last, r

\* What waits changes: only the part of S counts.
LEMMA LastWaiting ==
    ASSUME NEW q, NEW W, NEW V, NEW S, NEW G, G \subseteq S, NEW now, NEW new, NEW goal,
           Last(q, W, S, G, now, goal),
           \/ new = now /\ \A m \in S : m \in W <=> m \in V
           \/ (\A m \in V : m \notin S) /\ (\E m \in W : m \in S) /\
              ((\E m \in W : m \in G) => new = goal)
    PROVE  Last(q, V, S, G, new, goal)
  BY DEF Last

-----------------------------------------------------------------------------
\* Types, in groups of variables that change together.

ScreenTypes ==
    /\ state \in {"pre-join", "connecting", "active", "ended", "lost", "revoked", "error"}
    /\ overlay \in BOOLEAN /\ canRetry \in BOOLEAN
    /\ ws \in {"none", "connecting", "open", "closing", "closed"}
    /\ pc \in {"none", "dial", "derive", "stream", "failed"} \cup
              {"join", "msgA", "confirmA", "delivery"}

StreamTypes ==
    /\ streamKey \in Nat /\ lastNonce \in Nat /\ failures \in Nat
    /\ epoch \in Nat /\ graceOver \in BOOLEAN
    /\ Waiting \in SUBSET Task
    /\ size \in Nat /\ newest \in Nat /\ spoken \in Nat
    /\ unseen \in SUBSET {"end", "size", "key", "output", "replay"}

PeerTypes ==
    /\ answered \in Nat /\ ended \in BOOLEAN
    /\ revoked \in BOOLEAN /\ key \in Nat /\ wrapped \in 0..key /\ due \in SUBSET (1..key)
    /\ sentKey \in 0..key
    /\ sealed \in Nat /\ nowEpoch \in Nat /\ resizes \in Nat /\ sentSize \in Nat
    /\ held \in SUBSET (Frame \cup Size)
    /\ aired \in SUBSET Frame /\ replays \in Nat

Types == ScreenTypes /\ StreamTypes /\ PeerTypes /\ inbox \in Seq(Message)

\* The groups are all of TypeOK.
LEMMA TypesAre == TypeOK <=> Types
  BY Zenon DEF TypeOK, Types, ScreenTypes, StreamTypes, PeerTypes, Message, Waiting

\* The client's variables keep their types when they do not change.
LEMMA ScreenKept ==
    ASSUME ScreenTypes, UNCHANGED <<screenVars, ws, pc>>
    PROVE  ScreenTypes'
<1>1. UNCHANGED <<state, overlay, canRetry, ws, pc>>
  BY DEF screenVars
<1> QED
  BY <1>1, Zenon DEF ScreenTypes

\* And so do the variables of the peers.
LEMMA PeersKept ==
    ASSUME PeerTypes, UNCHANGED peerVars
    PROVE  PeerTypes'
<1>1. UNCHANGED <<answered, ended, revoked, key, wrapped, due, sentKey, sealed, nowEpoch, resizes,
                  held, sentSize, aired, replays>>
  BY DEF peerVars, keyVars, frameVars, replayVars
<1> QED
  BY <1>1, Zenon DEF PeerTypes

\* The numbers among the types.
LEMMA Numbers ==
    ASSUME Types
    PROVE  /\ streamKey \in Nat /\ lastNonce \in Nat /\ failures \in Nat /\ epoch \in Nat
           /\ Waiting \in SUBSET Task /\ size \in Nat /\ newest \in Nat /\ spoken \in Nat
           /\ answered \in Nat /\ key \in Nat /\ wrapped \in 0..key /\ due \in SUBSET (1..key)
           /\ sentKey \in 0..key /\ sealed \in Nat /\ nowEpoch \in Nat /\ resizes \in Nat
           /\ sentSize \in Nat /\ held \in SUBSET (Frame \cup Size) /\ aired \in SUBSET Frame
           /\ replays \in Nat /\ inbox \in Seq(Message)
  BY Zenon DEF Types, StreamTypes, PeerTypes

\* The sharer's counters, and the client's.
LEMMA Counters ==
    ASSUME Types
    PROVE  /\ answered \in Nat /\ spoken \in Nat /\ key \in Nat /\ sealed \in Nat
           /\ nowEpoch \in Nat /\ resizes \in Nat /\ replays \in Nat
           /\ lastNonce \in Nat /\ failures \in Nat /\ size \in Nat /\ newest \in Nat
  BY Zenon DEF Types, StreamTypes, PeerTypes

\* The messages under way.
LEMMA Queue ==
    ASSUME Types
    PROVE  inbox \in Seq(Message)
  BY Zenon DEF Types

-----------------------------------------------------------------------------
\* The relay and the sharer.

\* No step of a peer touches the client.
LEMMA ClientKept ==
    ASSUME Types, IInv, UNCHANGED clientVars
    PROVE  /\ UNCHANGED <<state, ws, pc, spoken, streamKey, size, unseen, tasks, Waiting, Pending>>
           /\ ScreenTypes' /\ StreamTypes' /\ Tasks'
<1>1. /\ UNCHANGED <<screenVars, ws, pc, spoken, streamKey, unseen, tasks>>
      /\ UNCHANGED <<state, overlay, canRetry>>
      /\ UNCHANGED <<lastNonce, failures, size, newest, epoch, graceOver>>
  BY DEF clientVars, screenVars, streamVars, shownVars, epochVars
<1>2. Waiting' = Waiting /\ Pending' = Pending
  BY <1>1 DEF Waiting, Pending
<1>3. ScreenTypes'
  BY <1>1, ScreenKept DEF Types
<1>4. StreamTypes'
  BY <1>1, <1>2, Zenon DEF Types, StreamTypes
<1>5. Tasks'
  BY <1>1, <1>2 DEF IInv, Tasks, IsKey, IsSize, Opens
<1> QED
  BY <1>1, <1>2, <1>3, <1>4, <1>5

\* A message outside the handshake leaves the answers in order.
LEMMA SendAnswers ==
    ASSUME Types, IInv, NEW m \in Message, Sends(m), UNCHANGED clientVars,
           m.kind # "handshake", m.kind = "rekey" => answered = 4,
           answered' = answered \/ (answered = 0 /\ answered' \in {1, Refused}),
           sentSize' = sentSize \/ IsSize(m)
    PROVE  Answers'
<1>0. UNCHANGED <<ws, pc>>
  BY DEF clientVars
<1> SUFFICES ASSUME ws = "open" PROVE Answers'
  BY <1>0 DEF Answers
<1> DEFINE q == inbox
           r == inbox'
<1>1. /\ Len(q) \in Nat /\ Len(r) = Len(q) + 1 /\ r[Len(q) + 1] = m
      /\ \A i \in 1..Len(q) : r[i] = q[i]
      /\ \A i \in 1..Len(r) : i \in 1..Len(q) \/ i = Len(q) + 1
  BY Numbers, Appended DEF Sends
<1>2. /\ \A i \in 1..Len(q) : q[i].kind = "handshake" =>
           /\ \/ pc = "msgA" /\ answered = 2
              \/ pc = "confirmA" /\ answered = 3
              \/ pc = "delivery" /\ answered = 4 /\ q[i].looks = "untyped"
           /\ q[i].key # 0 <=> pc = "delivery"
           /\ \A j \in 1..Len(q) : q[j].kind = "handshake" => i = j
      /\ \A i \in 1..Len(q) : q[i].kind = "rekey" => answered = 4
      /\ pc = "delivery" /\ answered = 4 =>
           \E i \in 1..Len(q) :
               /\ q[i].kind = "handshake"
               /\ sentSize # 0 => \E j \in (i + 1)..Len(q) : IsSize(q[j])
               /\ \A j \in 1..i : q[j].kind # "rekey"
  BY DEF IInv, Answers
<1> HIDE DEF q, r
<1>3. ASSUME NEW i \in 1..Len(r), r[i].kind = "handshake"
      PROVE  /\ \/ pc = "msgA" /\ answered' = 2
                \/ pc = "confirmA" /\ answered' = 3
                \/ pc = "delivery" /\ answered' = 4 /\ r[i].looks = "untyped"
             /\ r[i].key # 0 <=> pc = "delivery"
             /\ \A j \in 1..Len(r) : r[j].kind = "handshake" => i = j
  BY <1>1, <1>2, <1>3
<1>4. \A i \in 1..Len(r) : r[i].kind = "rekey" => answered' = 4
  BY <1>1, <1>2
<1>5. ASSUME pc = "delivery", answered' = 4
      PROVE  \E i \in 1..Len(r) :
               /\ r[i].kind = "handshake"
               /\ sentSize' # 0 => \E j \in (i + 1)..Len(r) : IsSize(r[j])
               /\ \A j \in 1..i : r[j].kind # "rekey"
  <2>1. answered = 4
    BY <1>5 DEF Refused
  <2>2. PICK i \in 1..Len(q) : /\ q[i].kind = "handshake"
                               /\ sentSize # 0 => \E j \in (i + 1)..Len(q) : IsSize(q[j])
                               /\ \A j \in 1..i : q[j].kind # "rekey"
    BY <1>2, <1>5, <2>1
  <2>3. i \in 1..Len(r) /\ \A l \in 1..i : l \in 1..Len(q)
    BY <1>1
  <2>4. ASSUME sentSize' # 0 PROVE \E j \in (i + 1)..Len(r) : IsSize(r[j])
    <3>1. CASE IsSize(m)
      <4>1. Len(q) + 1 \in (i + 1)..Len(r)
        BY <1>1
      <4> QED
        BY <1>1, <3>1, <4>1
    <3>2. CASE sentSize' = sentSize
      <4>1. PICK j \in (i + 1)..Len(q) : IsSize(q[j])
        BY <2>2, <2>4, <3>2
      <4>2. j \in (i + 1)..Len(r) /\ j \in 1..Len(q)
        BY <1>1
      <4> QED
        BY <1>1, <4>1, <4>2
    <3> QED
      BY <3>1, <3>2
  <2> QED
    BY <1>1, <2>2, <2>3, <2>4
<1> QED
  BY <1>0, <1>3, <1>4, <1>5 DEF Answers, r, IsSize

\* Of the messages, which are keys and sizes.
LEMMA Sorts ==
    ASSUME NEW m \in Message
    PROVE  /\ m.kind \notin {"rekey", "handshake"} => m \notin Keys
           /\ m.kind # "size" => m \notin Sizes
           /\ m.kind \in {"rekey", "size"} => ~(m.kind = "rekey" /\ m \in Sizes)
           /\ \A k : m \in Keys /\ m.key = k => m \in {x \in Keys : x.key = k}
           /\ \A n : m \in Sizes /\ m.size = n => m \in {x \in Sizes : x.size = n}
           /\ IsKey(m) <=> m \in Keys
           /\ IsSize(m) <=> m \in Sizes
  BY DEF Keys, Sizes, IsKey, IsSize

\* What the client has in the end, after a message of another kind.
LEMMA SendLatest ==
    ASSUME Types, NEW m \in Message, Sends(m),
           UNCHANGED <<Pending, streamKey, size>>
    PROVE  /\ LatestKey /\ m \notin Keys /\ sentKey' = sentKey => LatestKey'
           /\ LatestSize /\ m \notin Sizes /\ sentSize' = sentSize => LatestSize'
           /\ m \in Keys /\ m.key = sentKey' => LatestKey'
           /\ m \in Sizes /\ m.size = sentSize' => LatestSize'
<1>1. inbox \in Seq(Message) /\ inbox' = Append(inbox, m)
  BY Numbers DEF Sends
<1> DEFINE k == sentKey'
           n == sentSize'
<1>2. ASSUME \/ m \notin Keys /\ LatestKey /\ k = sentKey
             \/ m \in Keys /\ m.key = k
      PROVE  LatestKey'
  <2>1. \/ m \notin Keys /\ Last(inbox, Pending, Keys, {x \in Keys : x.key = k}, streamKey, k)
        \/ m \in {x \in Keys : x.key = k}
    BY <1>2 DEF LatestKey
  <2> HIDE DEF k
  <2>2. Last(inbox', Pending, Keys, {x \in Keys : x.key = k}, streamKey, k)
    BY <1>1, <2>1, LastAppend
  <2> QED
    BY <2>2 DEF LatestKey, Keys, Message, IsKey, k
<1>3. ASSUME \/ m \notin Sizes /\ LatestSize /\ n = sentSize
             \/ m \in Sizes /\ m.size = n
      PROVE  LatestSize'
  <2>1. \/ m \notin Sizes /\ Last(inbox, Pending, Sizes, {x \in Sizes : x.size = n}, size, n)
        \/ m \in {x \in Sizes : x.size = n}
    BY <1>3 DEF LatestSize
  <2> HIDE DEF n
  <2>2. Last(inbox', Pending, Sizes, {x \in Sizes : x.size = n}, size, n)
    BY <1>1, <2>1, LastAppend
  <2> QED
    BY <2>2 DEF LatestSize, Sizes, Message, IsSize, n
<1> QED
  BY <1>2, <1>3

\* What the client has in the end, if nothing concerns it.
LEMMA SameLatest ==
    ASSUME UNCHANGED <<inbox, Pending, streamKey, size>>
    PROVE  /\ LatestKey /\ sentKey' = sentKey => LatestKey'
           /\ LatestSize /\ sentSize' = sentSize => LatestSize'
  BY DEF LatestKey, LatestSize

\* The larger of two numbers.
LEMMA Larger ==
    ASSUME NEW a \in Nat, NEW b \in Nat
    PROVE  Max({a, b}) \in Nat
<1> DEFINE c == IF a >= b THEN a ELSE b
<1>1. c \in {a, b} /\ \A y \in {a, b} : c >= y
  OBVIOUS
<1>2. \A x \in {a, b} : (\A y \in {a, b} : x >= y) => x = c
  OBVIOUS
<1>3. c \in Nat
  OBVIOUS
<1> HIDE DEF c
<1> QED
  BY <1>1, <1>2, <1>3 DEF Max

\* A step of a peer that sends nothing.
LEMMA NothingSent ==
    ASSUME Types, IInv, ws = "open", UNCHANGED clientVars, PeerTypes',
           UNCHANGED <<inbox, answered, sentKey, sentSize>>, key' >= key,
           wrapped' = wrapped \/ spoken = 3
    PROVE  Types' /\ IInv'
<1>1. /\ UNCHANGED <<state, ws, pc, spoken, streamKey, size, unseen, tasks, Waiting, Pending>>
      /\ ScreenTypes' /\ StreamTypes' /\ Tasks'
  BY ClientKept
<1>2. inbox' \in Seq(Message)
  BY Numbers
<1>3. Progress'
  <2>1. key \in Nat /\ key' \in Nat
    BY Zenon DEF Types, PeerTypes
  <2> QED
    BY <1>1, <2>1 DEF IInv, Progress
<1>4. Answers'
  BY <1>1 DEF IInv, Answers, IsSize
<1>5. Coming'
  <2>1. (LatestKey => LatestKey') /\ (LatestSize => LatestSize')
    BY <1>1, SameLatest
  <2> QED
    BY <1>1, <2>1 DEF IInv, Coming
<1> QED
  BY <1>1, <1>2, <1>3, <1>4, <1>5 DEF Types, IInv

\* A step of a peer that sends a message outside the handshake.
LEMMA MessageSent ==
    ASSUME Types, IInv, ws = "open", UNCHANGED clientVars, PeerTypes',
           NEW m \in Message, Sends(m), m.kind # "handshake", UNCHANGED <<key, wrapped>>,
           answered' = answered \/ (answered = 0 /\ answered' \in {1, Refused}),
           IF m.kind = "rekey" THEN answered = 4 /\ sentKey' = m.key ELSE UNCHANGED sentKey,
           IF m.kind = "size" /\ answered = 4 THEN sentSize' = m.size ELSE UNCHANGED sentSize
    PROVE  Types' /\ IInv'
<1>1. /\ UNCHANGED <<state, ws, pc, spoken, streamKey, size, unseen, tasks, Waiting, Pending>>
      /\ ScreenTypes' /\ StreamTypes' /\ Tasks'
  BY ClientKept
<1>2. inbox' \in Seq(Message)
  BY Numbers, Appended DEF Sends
<1>3. Progress'
  <2>1. answered' \in {0, 1, 5} \/ answered' = answered
    BY DEF Refused
  <2>2. sentSize' # 0 => answered' = 4
    BY <2>1 DEF IInv, Progress
  <2> QED
    BY <1>1, <2>1, <2>2 DEF IInv, Progress
<1>4. Answers'
  BY SendAnswers DEF IsSize
<1>5. Coming'
  <2> SUFFICES ASSUME answered' = 4
               PROVE  /\ "key" \in unseen \/ LatestKey'
                      /\ sentSize' = 0 \/ "size" \in unseen \/ LatestSize'
    BY <1>1 DEF Coming
  <2>1. answered = 4
    BY DEF Refused
  <2>2. /\ "key" \in unseen \/ LatestKey
        /\ sentSize = 0 \/ "size" \in unseen \/ LatestSize
    BY <2>1 DEF IInv, Coming
  <2>3. "key" \in unseen \/ LatestKey'
    <3>1. CASE m.kind = "rekey"
      <4>1. m \in Keys /\ m.key = sentKey'
        BY <3>1, Sorts DEF IsKey
      <4> QED
        BY <1>1, <4>1, SendLatest
    <3>2. CASE m.kind # "rekey"
      <4>1. m \notin Keys /\ sentKey' = sentKey
        BY <3>2, Sorts
      <4> QED
        BY <1>1, <2>2, <4>1, SendLatest
    <3> QED
      BY <3>1, <3>2
  <2>4. sentSize' = 0 \/ "size" \in unseen \/ LatestSize'
    <3>1. CASE m.kind = "size"
      <4>1. m \in Sizes /\ m.size = sentSize'
        BY <2>1, <3>1, Sorts DEF IsSize
      <4> QED
        BY <1>1, <4>1, SendLatest
    <3>2. CASE m.kind # "size"
      <4>1. m \notin Sizes /\ sentSize' = sentSize
        BY <3>2, Sorts
      <4> QED
        BY <1>1, <2>2, <4>1, SendLatest
    <3> QED
      BY <3>1, <3>2
  <2> QED
    BY <2>3, <2>4
<1> QED
  BY <1>1, <1>2, <1>3, <1>4, <1>5 DEF Types, IInv

\* handleWatch answers.
LEMMA RelayAnswersIInv ==
    ASSUME Types, IInv, ws = "open", RelayAnswers
    PROVE  Types' /\ IInv'
<1>1. /\ answered = 0 /\ answered' \in {1, Refused} /\ UNCHANGED clientVars
      /\ UNCHANGED <<ended, revoked, key, wrapped, due, sentKey, sealed, nowEpoch, resizes, held,
                     sentSize, aired, replays>>
  BY DEF RelayAnswers, keyVars, frameVars, replayVars
<1>2. PICK m \in Control : Sends(m)
  BY DEF RelayAnswers, Control
<1>3. m \in Message /\ m.kind \notin {"handshake", "rekey", "size"}
  BY DEF Message, Control
<1>4. PeerTypes'
  <2>1. answered' \in Nat
    BY <1>1 DEF Refused
  <2> QED
    BY <1>1, <2>1, Zenon DEF Types, PeerTypes
<1> QED
  BY <1>1, <1>2, <1>3, <1>4, MessageSent

\* When the sharer answers, it is what the client waits for.
LEMMA Turn ==
    ASSUME Types, IInv, ws = "open", answered \in 1..3, answered <= spoken
    PROVE  /\ answered = 1 => pc = "msgA"
           /\ answered = 2 => pc = "confirmA"
           /\ answered = 3 => pc = "delivery"
           /\ answered \in {1, 2, 3} /\ spoken = answered
           /\ \A i \in 1..Len(inbox) : inbox[i].kind \notin {"handshake", "rekey"}
<1>1. /\ pc \in {"none", "dial", "derive", "stream", "failed", "join", "msgA", "confirmA",
                 "delivery"}
      /\ spoken \in Nat /\ answered \in {1, 2, 3}
  BY Numbers DEF Types, ScreenTypes
<1>2. /\ answered = 1 => pc = "msgA"
      /\ answered = 2 => pc = "confirmA"
      /\ answered = 3 => pc = "delivery"
      /\ answered \in {1, 2, 3} /\ spoken = answered
  BY <1>1 DEF IInv, Progress
<1> QED
  BY <1>2 DEF IInv, Answers

\* handleSPAKE2 answers with msg_a or confirm_a.
LEMMA SharerAnswersIInv ==
    ASSUME Types, IInv, ws = "open", SharerAnswers
    PROVE  Types' /\ IInv'
<1>0. /\ UNCHANGED <<state, ws, pc, spoken, streamKey, size, unseen, tasks, Waiting, Pending>>
      /\ ScreenTypes' /\ StreamTypes' /\ Tasks' /\ UNCHANGED clientVars
  BY ClientKept DEF SharerAnswers
<1>1. /\ answered \in 1..spoken /\ answered < 3 /\ answered' = answered + 1
      /\ UNCHANGED <<ended, revoked, key, wrapped, due, sentKey, sealed, nowEpoch, resizes, held,
                     sentSize, aired, replays>>
  BY DEF SharerAnswers, keyVars, frameVars, replayVars
<1>2. PICK l \in {"untyped", "skipped", "rejected"} :
        Sends([kind |-> "handshake", looks |-> l, key |-> 0])
  BY DEF SharerAnswers, Sends
<1> DEFINE m == [kind |-> "handshake", looks |-> l, key |-> 0]
<1>3. m \in Message /\ m.kind = "handshake" /\ m.key = 0
  BY DEF Message, Unicast
<1>4. Sends(m)
  BY <1>2
<1> HIDE DEF m
<1>5. /\ inbox' \in Seq(Message) /\ Len(inbox) \in Nat /\ Len(inbox') = Len(inbox) + 1
      /\ inbox'[Len(inbox) + 1] = m
      /\ \A i \in 1..Len(inbox) : inbox'[i] = inbox[i]
      /\ \A i \in 1..Len(inbox') : i \in 1..Len(inbox) \/ i = Len(inbox) + 1
  BY <1>3, <1>4, Queue, Appended DEF Sends
<1>6. /\ answered = 1 => pc = "msgA"
      /\ answered = 2 => pc = "confirmA"
      /\ answered \in {1, 2} /\ spoken = answered
      /\ \A i \in 1..Len(inbox) : inbox[i].kind \notin {"handshake", "rekey"}
  <2>1. answered \in 1..3 /\ answered <= spoken
    BY <1>1, Numbers
  <2> QED
    BY <1>1, <2>1, Turn
<1>7. PeerTypes'
  <2>1. answered' \in Nat
    BY <1>1, Numbers
  <2> QED
    BY <1>1, <2>1, Zenon DEF Types, PeerTypes
<1>8. Progress'
  BY <1>0, <1>1, <1>6 DEF IInv, Progress
<1>9. Answers'
  <2>1. \A i \in 1..Len(inbox') : inbox'[i].kind # "rekey" /\
          (inbox'[i].kind = "handshake" => i = Len(inbox) + 1 /\ inbox'[i] = m)
    BY <1>3, <1>5, <1>6
  <2>2. (pc = "msgA" /\ answered' = 2) \/ (pc = "confirmA" /\ answered' = 3)
    BY <1>1, <1>6
  <2> QED
    BY <1>0, <1>3, <2>1, <2>2 DEF Answers
<1>10. Coming'
  BY <1>1, <1>6 DEF Coming
<1> QED
  BY <1>0, <1>5, <1>7, <1>8, <1>9, <1>10 DEF Types, IInv

\* RegisterViewer seals the key for the client.
LEMMA RegisterViewerIInv ==
    ASSUME Types, IInv, ws = "open", RegisterViewer
    PROVE  Types' /\ IInv'
<1>1. /\ spoken = 3 /\ wrapped' = key /\ UNCHANGED clientVars
      /\ UNCHANGED <<inbox, answered, ended, revoked, key, due, sentKey, sealed, nowEpoch, resizes,
                     held, sentSize, aired, replays>>
  BY DEF RegisterViewer, frameVars, replayVars
<1>2. wrapped' \in 0..key' /\ key' >= key
  BY <1>1, Counters
<1>3. PeerTypes'
  BY <1>1, <1>2, Zenon DEF Types, PeerTypes
<1> QED
  BY <1>1, <1>2, <1>3, NothingSent

\* The key is delivered.
LEMMA SharerDeliversIInv ==
    ASSUME Types, IInv, ws = "open", SharerDelivers
    PROVE  Types' /\ IInv'
<1>0. /\ UNCHANGED <<state, ws, pc, spoken, streamKey, size, unseen, tasks, Waiting, Pending>>
      /\ ScreenTypes' /\ StreamTypes' /\ Tasks' /\ UNCHANGED clientVars
  BY ClientKept DEF SharerDelivers
<1> DEFINE d == [kind |-> "handshake", looks |-> "untyped", key |-> wrapped]
<1>1. /\ answered = 3 /\ wrapped # 0 /\ answered' = 4 /\ Sends(d) /\ sentKey' = wrapped
      /\ UNCHANGED <<ended, revoked, key, wrapped, due, sealed, nowEpoch, resizes, held, sentSize,
                     aired, replays>>
  BY DEF SharerDelivers, frameVars, replayVars
<1>2. wrapped \in 0..key /\ wrapped \in Nat
  BY Numbers
<1>3. /\ d \in Message /\ d.kind = "handshake" /\ d.key = wrapped /\ d.looks = "untyped"
      /\ d.key # 0 /\ d \in {x \in Keys : x.key = sentKey'}
  <2>1. d \in Message /\ d.kind = "handshake" /\ d.key = wrapped /\ d.looks = "untyped"
    BY <1>2 DEF Message, Unicast
  <2> HIDE DEF d
  <2> QED
    BY <1>1, <2>1 DEF Keys, IsKey
<1> HIDE DEF d
<1>4. /\ inbox' \in Seq(Message) /\ Len(inbox) \in Nat /\ Len(inbox') = Len(inbox) + 1
      /\ inbox'[Len(inbox) + 1] = d
      /\ \A i \in 1..Len(inbox) : inbox'[i] = inbox[i]
      /\ \A i \in 1..Len(inbox') : i \in 1..Len(inbox) \/ i = Len(inbox) + 1
  BY <1>1, <1>3, Queue, Appended DEF Sends
<1>5. /\ pc = "delivery" /\ spoken = 3 /\ sentSize = 0
      /\ \A i \in 1..Len(inbox) : inbox[i].kind \notin {"handshake", "rekey"}
  <2>1. spoken = 3 /\ sentSize = 0
    BY <1>1 DEF IInv, Progress
  <2> QED
    BY <1>1, <2>1, Turn
<1>6. PeerTypes'
  <2>1. answered' \in Nat /\ sentKey' \in 0..key
    BY <1>1, <1>2
  <2> QED
    BY <1>1, <2>1, Zenon DEF Types, PeerTypes
<1>7. Progress'
  BY <1>0, <1>1, <1>5 DEF IInv, Progress
<1>8. Answers'
  <2>1. \A i \in 1..Len(inbox') :
          /\ inbox'[i].kind # "rekey"
          /\ inbox'[i].kind = "handshake" => i = Len(inbox) + 1 /\ inbox'[i] = d
    BY <1>3, <1>4, <1>5
  <2>2. /\ Len(inbox) + 1 \in 1..Len(inbox')
        /\ \A j \in 1..(Len(inbox) + 1) : j \in 1..Len(inbox')
    BY <1>4
  <2>3. \E i \in 1..Len(inbox') :
               /\ inbox'[i].kind = "handshake"
               /\ \A j \in 1..i : inbox'[j].kind # "rekey"
    BY <1>3, <1>4, <2>1, <2>2
  <2>4. pc' = "delivery" /\ answered' = 4 /\ sentSize' = 0
    BY <1>0, <1>1, <1>5
  <2> QED
    BY <1>3, <2>1, <2>3, <2>4 DEF Answers, IsSize
<1>9. Coming'
  <2>1. sentSize' = 0
    BY <1>1, <1>5
  <2>2. LatestKey'
    BY <1>0, <1>1, <1>3, SendLatest
  <2> QED
    BY <2>1, <2>2 DEF Coming
<1> QED
  BY <1>0, <1>4, <1>6, <1>7, <1>8, <1>9 DEF Types, IInv

\* streamLoop seals a frame.
LEMMA SharerStreamsIInv ==
    ASSUME Types, IInv, ws = "open", SharerStreams
    PROVE  Types' /\ IInv'
<1> DEFINE f == [kind |-> "stream", nonce |-> sealed + 1, key |-> key, epoch |-> nowEpoch]
<1>1. /\ sealed' = sealed + 1 /\ held' = held \cup {f} /\ UNCHANGED clientVars
      /\ UNCHANGED <<inbox, answered, ended, revoked, key, wrapped, due, sentKey, nowEpoch, resizes,
                     sentSize, aired, replays>>
  BY DEF SharerStreams, keyVars, replayVars
<1>2. f \in Frame
  BY Numbers DEF Frame
<1> HIDE DEF f
<1>3. PeerTypes'
  <2>1. sealed' \in Nat
    BY <1>1, Counters
  <2>2. held' \in SUBSET (Frame \cup Size)
    BY <1>1, <1>2, Numbers, Zenon
  <2> QED
    BY <1>1, <2>1, <2>2, Zenon DEF Types, PeerTypes
<1>4. key' >= key
  BY <1>1, Counters
<1> QED
  BY <1>1, <1>3, <1>4, NothingSent

\* SetTermSize or relayLoop seals a size.
LEMMA SharerSealsSizeIInv ==
    ASSUME Types, IInv, ws = "open", NEW s \in Nat, SharerSealsSize(s)
    PROVE  Types' /\ IInv'
<1> DEFINE f == [kind |-> "size", nonce |-> sealed + 1, key |-> key, epoch |-> nowEpoch,
                 size |-> s]
<1>1. /\ sealed' = sealed + 1 /\ held' = held \cup {f} /\ resizes' = Max({resizes, s})
      /\ UNCHANGED clientVars
      /\ UNCHANGED <<inbox, answered, ended, revoked, key, wrapped, due, sentKey, nowEpoch,
                     sentSize, aired, replays>>
  BY DEF SharerSealsSize, keyVars, replayVars
<1>2. f \in Size
  <2>1. sealed + 1 \in Nat /\ key \in Nat /\ nowEpoch \in Nat
    BY Counters
  <2> QED
    BY <2>1 DEF Size
<1> HIDE DEF f
<1>3. PeerTypes'
  <2>1. sealed' \in Nat
    BY <1>1, Counters
  <2>2. held' \in SUBSET (Frame \cup Size)
    BY <1>1, <1>2, Numbers, Zenon
  <2>3. resizes' \in Nat
    BY <1>1, Counters, Larger
  <2> QED
    BY <1>1, <2>1, <2>2, <2>3, Zenon DEF Types, PeerTypes
<1>4. key' >= key
  BY <1>1, Counters
<1> QED
  BY <1>1, <1>3, <1>4, NothingSent

\* A frame is sent.
LEMMA SharerSendsFrameIInv ==
    ASSUME Types, IInv, ws = "open", NEW f \in held, SharerSendsFrame(f)
    PROVE  Types' /\ IInv'
<1>1. /\ Sends(f) /\ held' = held \ {f} /\ UNCHANGED clientVars
      /\ sentSize' = IF f.kind = "size" /\ answered = 4 THEN f.size ELSE sentSize
      /\ aired' \in {{}, IF f.kind = "stream" THEN aired \cup {f} ELSE {}}
      /\ UNCHANGED <<answered, ended, revoked, key, wrapped, due, sentKey, sealed, nowEpoch,
                     resizes, replays>>
  BY DEF SharerSendsFrame, keyVars
<1>2. f \in Frame \cup Size /\ f \in Message /\ held \in SUBSET (Frame \cup Size)
  BY Numbers DEF Message
<1>3. /\ f.kind \in {"stream", "size"} /\ (f.kind = "stream" => f \in Frame)
      /\ f.kind = "size" => f.size \in Nat
  BY <1>2, Fields
<1>4. PeerTypes'
  <2>1. held' \in SUBSET (Frame \cup Size) /\ aired' \in SUBSET Frame
    BY <1>1, <1>2, <1>3, Numbers
  <2>2. sentSize' \in Nat
    BY <1>1, <1>3, Numbers
  <2> QED
    BY <1>1, <2>1, <2>2, Zenon DEF Types, PeerTypes
<1> QED
  BY <1>1, <1>2, <1>3, <1>4, MessageSent

\* The client or another viewer is revoked.
LEMMA SharerRevokesIInv ==
    ASSUME Types, IInv, ws = "open", SharerRevokes
    PROVE  Types' /\ IInv'
<1>1. /\ key' = key + 1 /\ revoked' \in {revoked, TRUE} /\ due' \in {due, due \cup {key + 1}}
      /\ UNCHANGED clientVars
      /\ UNCHANGED <<inbox, answered, ended, wrapped, sentKey, sealed, nowEpoch, resizes, held,
                     sentSize, aired, replays>>
  BY DEF SharerRevokes, frameVars, replayVars
<1>2. key \in Nat /\ wrapped \in 0..key /\ due \in SUBSET (1..key) /\ sentKey \in 0..key
  BY Numbers
<1>3. /\ key' \in Nat /\ wrapped' \in 0..key' /\ due' \in SUBSET (1..key') /\ sentKey' \in 0..key'
      /\ key' >= key
  BY <1>1, <1>2
<1>4. PeerTypes'
  <2>1. revoked' \in BOOLEAN
    <3>1. revoked \in BOOLEAN
      BY Zenon DEF Types, PeerTypes
    <3> QED
      BY <1>1, <3>1
  <2> QED
    BY <1>1, <1>3, <2>1, Zenon DEF Types, PeerTypes
<1> QED
  BY <1>1, <1>3, <1>4, NothingSent

\* The client is sent a new key, or passed over.
LEMMA SharerSendsRekeyIInv ==
    ASSUME Types, IInv, ws = "open", NEW k \in due, SharerSendsRekey(k)
    PROVE  Types' /\ IInv'
<1> DEFINE m == [kind |-> "rekey", key |-> k]
<1>1. /\ due' = due \ {k} /\ UNCHANGED clientVars
      /\ \/ answered = 4 /\ Sends(m) /\ sentKey' = k
         \/ UNCHANGED <<inbox, sentKey>>
      /\ UNCHANGED <<answered, ended, revoked, key, wrapped, sealed, nowEpoch, resizes, held,
                     sentSize, aired, replays>>
  BY DEF SharerSendsRekey, frameVars, replayVars
<1>2. key \in Nat /\ due \in SUBSET (1..key) /\ sentKey \in 0..key
  BY Numbers
<1>3. k \in Nat /\ k \in 0..key /\ due' \in SUBSET (1..key)
  BY <1>1, <1>2
<1>4. m \in Message /\ m.kind = "rekey" /\ m.key = k
  BY <1>3 DEF Message, Rekey
<1> HIDE DEF m
<1>5. PeerTypes'
  <2>1. sentKey' \in 0..key
    BY <1>1, <1>2, <1>3
  <2> QED
    BY <1>1, <1>3, <2>1, Zenon DEF Types, PeerTypes
<1>6. CASE answered = 4 /\ Sends(m) /\ sentKey' = k
  BY <1>1, <1>4, <1>5, <1>6, MessageSent
<1>7. CASE UNCHANGED <<inbox, sentKey>>
  <2>1. key' >= key
    BY <1>1, <1>2
  <2> QED
    BY <1>1, <1>5, <1>7, <2>1, NothingSent
<1> QED
  BY <1>1, <1>6, <1>7

\* An epoch passes.
LEMMA EpochPassesIInv ==
    ASSUME Types, IInv, ws = "open", EpochPasses
    PROVE  Types' /\ IInv'
<1>1. /\ nowEpoch' = nowEpoch + 1 /\ UNCHANGED clientVars
      /\ UNCHANGED <<inbox, answered, ended, revoked, key, wrapped, due, sentKey, sealed, resizes,
                     held, sentSize, aired, replays>>
  BY DEF EpochPasses, keyVars, replayVars
<1>2. PeerTypes'
  <2>1. nowEpoch' \in Nat
    BY <1>1, Counters
  <2> QED
    BY <1>1, <2>1, Zenon DEF Types, PeerTypes
<1>3. key' >= key
  BY <1>1, Counters
<1> QED
  BY <1>1, <1>2, <1>3, NothingSent

\* The session ends.
LEMMA SharerEndsIInv ==
    ASSUME Types, IInv, ws = "open", SharerEnds
    PROVE  Types' /\ IInv'
<1> DEFINE m == [kind |-> "session-ended"]
<1>1. /\ ended' = TRUE /\ Sends(m) /\ UNCHANGED clientVars
      /\ UNCHANGED <<answered, revoked, key, wrapped, due, sentKey, sealed, nowEpoch, resizes, held,
                     sentSize, aired, replays>>
  BY DEF SharerEnds, keyVars, frameVars, replayVars
<1>2. m \in Message /\ m.kind = "session-ended"
  BY DEF Message, Control
<1> HIDE DEF m
<1>3. PeerTypes'
  <2>1. ended' \in BOOLEAN
    BY <1>1
  <2> QED
    BY <1>1, <2>1, Zenon DEF Types, PeerTypes
<1> QED
  BY <1>1, <1>2, <1>3, MessageSent

\* The relay repeats a frame.
LEMMA RelayReplaysIInv ==
    ASSUME Types, IInv, ws = "open", RelayReplays
    PROVE  Types' /\ IInv'
<1>1. /\ replays' = replays + 1 /\ UNCHANGED clientVars
      /\ UNCHANGED <<answered, ended, revoked, key, wrapped, due, sentKey, sealed, nowEpoch,
                     resizes, held, sentSize, aired>>
  BY DEF RelayReplays, keyVars, frameVars
<1>2. PICK f \in aired : Sends(f)
  BY DEF RelayReplays
<1>3. f \in Message /\ f.kind = "stream"
  <2>1. f \in Frame /\ f \in Message
    BY Numbers DEF Message
  <2> QED
    BY <2>1, Fields
<1>4. PeerTypes'
  <2>1. replays' \in Nat
    BY <1>1, Counters
  <2> QED
    BY <1>1, <2>1, Zenon DEF Types, PeerTypes
<1> QED
  BY <1>1, <1>2, <1>3, <1>4, MessageSent

\* Every step of the relay and the sharer.
LEMMA PeersIInv ==
    ASSUME Types, IInv, Peers \/ (ws = "open" /\ RelayReplays)
    PROVE  Types' /\ IInv'
<1>1. ASSUME NEW s \in 1..(resizes + 1), SharerSealsSize(s), ws = "open"
      PROVE  Types' /\ IInv'
  <2>1. s \in Nat
    BY Numbers
  <2> QED
    BY <1>1, <2>1, SharerSealsSizeIInv
<1> QED
  BY <1>1, RelayAnswersIInv, SharerAnswersIInv, RegisterViewerIInv, SharerDeliversIInv,
     SharerStreamsIInv, SharerSendsFrameIInv, SharerRevokesIInv, SharerSendsRekeyIInv,
     EpochPassesIInv, SharerEndsIInv, RelayReplaysIInv, Zenon DEF Peers

-----------------------------------------------------------------------------
\* The client's connection.

\* Once the socket is not open, nothing is promised of what is under way.
LEMMA ClosedKeeps ==
    ASSUME ws' # "open"
    PROVE  Answers' /\ Coming'
  BY DEF Answers, Coming

\* What waits is as before, if the client does not start or end the wait.
LEMMA TasksKept ==
    ASSUME IInv, UNCHANGED tasks, unseen \subseteq unseen',
           pc' = pc \/ {pc, pc'} \cap {"derive", "stream"} = {}
    PROVE  Tasks'
<1>1. Waiting' = Waiting
  BY DEF Waiting
<1>2. /\ pc' \in {"derive", "stream"} => pc' = pc
      /\ pc' \notin {"derive", "stream"} => pc \notin {"derive", "stream"}
  OBVIOUS
<1>3. Tasks
  BY DEF IInv
<1>4. (pc \notin {"derive", "stream"} => Waiting = {})'
  BY <1>1, <1>2, <1>3, Zenon DEF Tasks
<1>5. /\ (pc = "derive" => \A t \in Waiting :
            t.msg.kind \in {"rekey", "handshake"} /\ IsKey(t.msg))'
      /\ (pc = "stream" => \A t \in Waiting : t.msg.kind # "handshake")'
  BY <1>1, <1>2, <1>3 DEF Tasks, IsKey
<1>6. /\ "key" \notin unseen' => "key" \notin unseen
      /\ "size" \notin unseen' => "size" \notin unseen
  OBVIOUS
<1>7. ("key" \notin unseen => \A t, u \in Waiting :
         IsKey(t.msg) /\ IsKey(u.msg) => t = u /\ tasks[t] = 1)'
  BY <1>1, <1>3, <1>6, Zenon DEF Tasks, IsKey
<1>8. ("size" \notin unseen =>
         /\ \A t, u \in Waiting :
              IsSize(t.msg) /\ IsSize(u.msg) => t = u /\ tasks[t] = 1
         /\ \A t \in Waiting : IsSize(t.msg) => Opens(t))'
  BY <1>1, <1>3, <1>6, Zenon DEF Tasks, IsSize, Opens
<1>9. IsABag(tasks)'
  BY <1>3, Zenon DEF Tasks
<1> QED
  BY <1>4, <1>5, <1>7, <1>8, <1>9 DEF Tasks

\* The types of a client that leaves its stream alone.
LEMMA StreamKept ==
    ASSUME StreamTypes, UNCHANGED <<lastNonce, failures, size, newest, epoch, graceOver, tasks>>,
           streamKey' \in Nat, spoken' \in Nat,
           unseen' \in SUBSET {"end", "size", "key", "output", "replay"}
    PROVE  StreamTypes'
<1>1. Waiting' = Waiting
  BY DEF Waiting
<1> QED
  BY <1>1, Zenon DEF StreamTypes

\* setState in terms of the types.
LEMMA SetStateTypes ==
    ASSUME NEW s \in {"active", "ended", "lost", "revoked", "error"}, setState(s)
    PROVE  /\ state' \in {"pre-join", "connecting", "active", "ended", "lost", "revoked", "error"}
           /\ overlay' \in BOOLEAN /\ canRetry' \in BOOLEAN /\ state' = s
  BY DEF setState

\* What disconnect leaves.
LEMMA DisconnectTypes ==
    ASSUME Types, disconnect
    PROVE  /\ ws' \in {"none", "connecting", "open", "closing", "closed"} /\ ws' # "open"
           /\ ws' \in {"none", "connecting"} => ws' = ws
           /\ streamKey' \in Nat
  BY DEF disconnect, Types, ScreenTypes

\* The attempt fails: handleError.
LEMMA FailedIInv ==
    ASSUME Types, IInv, handleError, pc \in {"join", "msgA", "confirmA", "delivery"},
           UNCHANGED <<streamVars, epochVars, tasks, spoken, unseen, peerVars>>,
           inbox' \in Seq(Message)
    PROVE  Types' /\ IInv'
<1>1. /\ setState("error") /\ disconnect /\ pc' = "failed"
      /\ UNCHANGED <<lastNonce, failures, size, newest, epoch, graceOver>>
  BY DEF handleError, streamVars, epochVars, shownVars
<1>2. /\ state' \in {"pre-join", "connecting", "active", "ended", "lost", "revoked", "error"}
      /\ overlay' \in BOOLEAN /\ canRetry' \in BOOLEAN /\ state' = "error"
  BY <1>1, SetStateTypes
<1>3. /\ ws' \in {"none", "connecting", "open", "closing", "closed"} /\ ws' # "open"
      /\ ws' \in {"none", "connecting"} => ws' = ws
      /\ streamKey' \in Nat
  BY <1>1, DisconnectTypes
<1>4. ScreenTypes'
  BY <1>1, <1>2, <1>3 DEF ScreenTypes
<1>5. StreamTypes'
  <2>1. spoken' \in Nat /\ unseen' \in SUBSET {"end", "size", "key", "output", "replay"}
    BY Zenon DEF Types, StreamTypes
  <2> QED
    BY <1>1, <1>3, <2>1, StreamKept DEF Types
<1>6. PeerTypes'
  BY PeersKept DEF Types
<1>7. Progress'
  BY <1>1, <1>2, <1>3 DEF IInv, Progress, peerVars, keyVars, frameVars
<1>8. Tasks'
  BY <1>1, TasksKept
<1>9. Answers' /\ Coming'
  BY <1>3, ClosedKeeps
<1> QED
  BY <1>4, <1>5, <1>6, <1>7, <1>8, <1>9 DEF Types, IInv

\* startSession and connect.
LEMMA ConnectIInv ==
    ASSUME Types, IInv, connect
    PROVE  Types' /\ IInv'
<1>1. /\ state = "pre-join" /\ state' = "connecting" /\ canRetry' = FALSE /\ ws' = "connecting"
      /\ pc' = "dial" /\ UNCHANGED <<overlay, inbox, tasks, streamKey, spoken, unseen, peerVars>>
      /\ UNCHANGED <<lastNonce, failures, size, newest, epoch, graceOver>>
  BY DEF connect, streamVars, epochVars, shownVars
<1>2. UNCHANGED <<answered, wrapped, key, sentSize, inbox>>
  BY <1>1 DEF peerVars, keyVars, frameVars
<1>3. ScreenTypes'
  <2>1. overlay \in BOOLEAN
    BY Zenon DEF Types, ScreenTypes
  <2>2. /\ overlay' \in BOOLEAN /\ canRetry' \in BOOLEAN /\ state' \in {"connecting"}
        /\ ws' \in {"connecting"} /\ pc' \in {"dial"}
    BY <1>1, <2>1
  <2> QED
    BY <2>2 DEF ScreenTypes
<1>4. StreamTypes'
  <2>1. /\ spoken' \in Nat /\ unseen' \in SUBSET {"end", "size", "key", "output", "replay"}
        /\ streamKey' \in Nat
    BY <1>1, Zenon DEF Types, StreamTypes
  <2> QED
    BY <1>1, <2>1, StreamKept DEF Types
<1>5. PeerTypes' /\ inbox' \in Seq(Message)
  BY <1>1, PeersKept, Numbers DEF Types
<1>6. Progress'
  BY <1>1, <1>2 DEF IInv, Progress
<1>7. Tasks'
  BY <1>1, TasksKept DEF IInv, Progress
<1>8. Answers' /\ Coming'
  BY <1>1, ClosedKeeps
<1> QED
  BY <1>3, <1>4, <1>5, <1>6, <1>7, <1>8 DEF Types, IInv

\* The socket opens.
LEMMA OnopenIInv ==
    ASSUME Types, IInv, onopen
    PROVE  Types' /\ IInv'
<1>1. /\ ws = "connecting" /\ ws' = "open" /\ pc' = "join"
      /\ UNCHANGED <<state, overlay, canRetry, inbox, tasks, streamKey, spoken, unseen, peerVars>>
      /\ UNCHANGED <<lastNonce, failures, size, newest, epoch, graceOver>>
  BY DEF onopen, streamVars, epochVars, shownVars, screenVars
<1>2. /\ UNCHANGED <<answered, wrapped, key, sentKey, sentSize>>
      /\ inbox = <<>> /\ answered = 0 /\ pc \in {"none", "dial"} /\ spoken = 0
      /\ state # "pre-join" /\ state # "active"
  BY <1>1 DEF peerVars, keyVars, frameVars, IInv, Progress
<1>3. ScreenTypes'
  <2>1. /\ state' \in {"pre-join", "connecting", "active", "ended", "lost", "revoked", "error"}
        /\ overlay' \in BOOLEAN /\ canRetry' \in BOOLEAN
    BY <1>1, Zenon DEF Types, ScreenTypes
  <2> QED
    BY <1>1, <2>1 DEF ScreenTypes
<1>4. StreamTypes'
  <2>1. /\ spoken' \in Nat /\ unseen' \in SUBSET {"end", "size", "key", "output", "replay"}
        /\ streamKey' \in Nat
    BY <1>1, Zenon DEF Types, StreamTypes
  <2> QED
    BY <1>1, <2>1, StreamKept DEF Types
<1>5. PeerTypes' /\ inbox' \in Seq(Message)
  BY <1>1, PeersKept, Numbers DEF Types
<1>6. Progress'
  BY <1>1, <1>2 DEF IInv, Progress
<1>7. Tasks'
  BY <1>1, <1>2, TasksKept
<1>8. Answers'
  <2>1. inbox' = <<>> /\ Len(inbox') = 0
    BY <1>1, <1>2
  <2> QED
    BY <1>1, <1>2, <2>1 DEF Answers
<1>9. Coming'
  BY <1>2 DEF IInv, Coming
<1> QED
  BY <1>3, <1>4, <1>5, <1>6, <1>7, <1>8, <1>9 DEF Types, IInv

\* The connection ends.
LEMMA ConnectionEndsIInv ==
    ASSUME Types, IInv, NEW failed \in BOOLEAN, ConnectionEnds(failed)
    PROVE  Types' /\ IInv'
<1>1. /\ ws # "none" /\ ws' = "closed" /\ inbox' = <<>> /\ onclose(failed)
      /\ UNCHANGED <<pc, tasks, streamKey, spoken, peerVars>>
      /\ UNCHANGED <<lastNonce, failures, size, newest, epoch, graceOver>>
      /\ unseen' \in {unseen, unseen \cup {"end"}}
  BY DEF ConnectionEnds, streamVars, epochVars, shownVars
<1>2. UNCHANGED <<answered, wrapped, key, sentSize>>
  BY <1>1 DEF peerVars, keyVars, frameVars
<1>3. state' \in {state, "lost"} /\ state' \in {"pre-join", "connecting", "active", "ended",
        "lost", "revoked", "error"} /\ overlay' \in BOOLEAN /\ canRetry' \in BOOLEAN
  <2>1. CASE setState("lost")
    BY <2>1, SetStateTypes
  <2>2. CASE UNCHANGED screenVars
    <3>1. UNCHANGED <<state, overlay, canRetry>>
      BY <2>2 DEF screenVars
    <3>2. /\ state' \in {"pre-join", "connecting", "active", "ended", "lost", "revoked", "error"}
          /\ overlay' \in BOOLEAN /\ canRetry' \in BOOLEAN
      BY <3>1, Zenon DEF Types, ScreenTypes
    <3> QED
      BY <3>1, <3>2
  <2> QED
    BY <1>1, <2>1, <2>2 DEF onclose
<1>4. ScreenTypes'
  <2>1. pc' \in {"none", "dial", "derive", "stream", "failed"} \cup
                {"join", "msgA", "confirmA", "delivery"}
    BY <1>1, Zenon DEF Types, ScreenTypes
  <2> QED
    BY <1>1, <1>3, <2>1 DEF ScreenTypes
<1>5. StreamTypes'
  <2>1. unseen \in SUBSET {"end", "size", "key", "output", "replay"}
    BY Zenon DEF Types, StreamTypes
  <2>2. /\ spoken' \in Nat /\ unseen' \in SUBSET {"end", "size", "key", "output", "replay"}
        /\ streamKey' \in Nat
    BY <1>1, <2>1, Numbers
  <2> QED
    BY <1>1, <2>2, StreamKept DEF Types
<1>6. PeerTypes' /\ inbox' \in Seq(Message)
  BY <1>1, PeersKept DEF Types
<1>7. Progress'
  BY <1>1, <1>2, <1>3 DEF IInv, Progress
<1>8. Tasks'
  BY <1>1, TasksKept
<1>9. Answers' /\ Coming'
  BY <1>1, ClosedKeeps
<1> QED
  BY <1>4, <1>5, <1>6, <1>7, <1>8, <1>9 DEF Types, IInv

\* One of the timers of 15 s.
LEMMA TimeoutIInv ==
    ASSUME Types, IInv, Timeout
    PROVE  Types' /\ IInv'
<1>1. inbox' \in Seq(Message)
  BY Numbers DEF Timeout
<1> QED
  BY <1>1, FailedIInv DEF Timeout, Timed

-----------------------------------------------------------------------------
\* Reading a message.

\* The answers under way, without the first message.
LEMMA TailAnswers ==
    ASSUME Types, IInv, ws = "open", inbox # <<>>, inbox' = Tail(inbox)
    PROVE  /\ inbox[1] \in Message /\ inbox' \in Seq(Message) /\ Head(inbox) = inbox[1]
           /\ inbox[1].kind = "handshake" =>
                /\ \/ pc = "msgA" /\ answered = 2
                   \/ pc = "confirmA" /\ answered = 3
                   \/ pc = "delivery" /\ answered = 4 /\ inbox[1].looks = "untyped"
                /\ inbox[1].key # 0 <=> pc = "delivery"
                /\ \A i \in 1..Len(inbox') : inbox'[i].kind # "handshake"
           /\ \A i \in 1..Len(inbox') : inbox'[i].kind = "handshake" =>
                /\ \/ pc = "msgA" /\ answered = 2
                   \/ pc = "confirmA" /\ answered = 3
                   \/ pc = "delivery" /\ answered = 4 /\ inbox'[i].looks = "untyped"
                /\ inbox'[i].key # 0 <=> pc = "delivery"
                /\ \A j \in 1..Len(inbox') : inbox'[j].kind = "handshake" => i = j
           /\ inbox[1].kind = "rekey" => answered = 4
           /\ \A i \in 1..Len(inbox') : inbox'[i].kind = "rekey" => answered = 4
           /\ pc = "delivery" /\ answered = 4 => inbox[1].kind # "rekey"
           /\ pc = "delivery" /\ answered = 4 /\ inbox[1].kind # "handshake" =>
                /\ \E i \in 1..Len(inbox') :
                     /\ inbox'[i].kind = "handshake"
                     /\ sentSize # 0 => \E j \in (i + 1)..Len(inbox') : IsSize(inbox'[j])
                     /\ \A j \in 1..i : inbox'[j].kind # "rekey"
                /\ sentSize # 0 => \E i \in 2..Len(inbox) : IsSize(inbox[i])
<1> DEFINE q == inbox
           r == inbox'
<1>1. /\ q[1] \in Message /\ r \in Seq(Message) /\ Head(q) = q[1]
      /\ Len(q) \in Nat \ {0} /\ Len(r) = Len(q) - 1
      /\ \A i \in 1..Len(r) : r[i] = q[i + 1] /\ i + 1 \in 2..Len(q)
      /\ \A i \in 2..Len(q) : i - 1 \in 1..Len(r) /\ r[i - 1] = q[i]
  BY Numbers, Popped
<1>2. /\ \A i \in 1..Len(q) : q[i].kind = "handshake" =>
           /\ \/ pc = "msgA" /\ answered = 2
              \/ pc = "confirmA" /\ answered = 3
              \/ pc = "delivery" /\ answered = 4 /\ q[i].looks = "untyped"
           /\ q[i].key # 0 <=> pc = "delivery"
           /\ \A j \in 1..Len(q) : q[j].kind = "handshake" => i = j
      /\ \A i \in 1..Len(q) : q[i].kind = "rekey" => answered = 4
      /\ pc = "delivery" /\ answered = 4 =>
           \E i \in 1..Len(q) :
               /\ q[i].kind = "handshake"
               /\ sentSize # 0 => \E j \in (i + 1)..Len(q) : IsSize(q[j])
               /\ \A j \in 1..i : q[j].kind # "rekey"
  BY DEF IInv, Answers
<1> HIDE DEF q, r
<1>3. 1 \in 1..Len(q) /\ \A i \in 1..Len(r) : i + 1 \in 1..Len(q) /\ i + 1 # 1
  BY <1>1
<1>4. q[1].kind = "handshake" =>
        /\ \/ pc = "msgA" /\ answered = 2
           \/ pc = "confirmA" /\ answered = 3
           \/ pc = "delivery" /\ answered = 4 /\ q[1].looks = "untyped"
        /\ q[1].key # 0 <=> pc = "delivery"
        /\ \A i \in 1..Len(r) : r[i].kind # "handshake"
  BY <1>1, <1>2, <1>3
<1>5. ASSUME NEW i \in 1..Len(r), r[i].kind = "handshake"
      PROVE  /\ \/ pc = "msgA" /\ answered = 2
                \/ pc = "confirmA" /\ answered = 3
                \/ pc = "delivery" /\ answered = 4 /\ r[i].looks = "untyped"
             /\ r[i].key # 0 <=> pc = "delivery"
             /\ \A j \in 1..Len(r) : r[j].kind = "handshake" => i = j
  <2>1. r[i] = q[i + 1] /\ i + 1 \in 1..Len(q)
    BY <1>1, <1>3
  <2>2. ASSUME NEW j \in 1..Len(r), r[j].kind = "handshake" PROVE i = j
    <3>1. r[j] = q[j + 1] /\ j + 1 \in 1..Len(q)
      BY <1>1, <1>3
    <3>2. i + 1 = j + 1
      BY <1>2, <1>5, <2>1, <2>2, <3>1
    <3> QED
      BY <1>1, <3>2
  <2> QED
    BY <1>2, <1>5, <2>1, <2>2
<1>6. /\ q[1].kind = "rekey" => answered = 4
      /\ \A i \in 1..Len(r) : r[i].kind = "rekey" => answered = 4
  BY <1>1, <1>2, <1>3
<1>7. ASSUME pc = "delivery", answered = 4
      PROVE  /\ q[1].kind # "rekey"
             /\ q[1].kind # "handshake" =>
                  /\ \E i \in 1..Len(r) :
                       /\ r[i].kind = "handshake"
                       /\ sentSize # 0 => \E j \in (i + 1)..Len(r) : IsSize(r[j])
                       /\ \A j \in 1..i : r[j].kind # "rekey"
                  /\ sentSize # 0 => \E i \in 2..Len(q) : IsSize(q[i])
  <2>1. PICK i \in 1..Len(q) : /\ q[i].kind = "handshake"
                               /\ sentSize # 0 => \E j \in (i + 1)..Len(q) : IsSize(q[j])
                               /\ \A j \in 1..i : q[j].kind # "rekey"
    BY <1>2, <1>7
  <2>2. q[1].kind # "rekey"
    BY <1>1, <2>1
  <2>3. ASSUME sentSize # 0 PROVE \E j \in 2..Len(q) : IsSize(q[j])
    <3>1. PICK j \in (i + 1)..Len(q) : IsSize(q[j])
      BY <2>1, <2>3
    <3>2. j \in 2..Len(q)
      BY <1>1
    <3> QED
      BY <3>1, <3>2
  <2>4. ASSUME q[1].kind # "handshake"
        PROVE  \E l \in 1..Len(r) :
                 /\ r[l].kind = "handshake"
                 /\ sentSize # 0 => \E k \in (l + 1)..Len(r) : IsSize(r[k])
                 /\ \A k \in 1..l : r[k].kind # "rekey"
    <3>1. i \in 2..Len(q)
      BY <1>1, <2>1, <2>4
    <3>2. i - 1 \in 1..Len(r) /\ r[i - 1].kind = "handshake"
      BY <1>1, <2>1, <3>1
    <3>3. ASSUME sentSize # 0 PROVE \E k \in ((i - 1) + 1)..Len(r) : IsSize(r[k])
      <4>1. PICK j \in (i + 1)..Len(q) : IsSize(q[j])
        BY <2>1, <3>3
      <4>2. j \in 2..Len(q) /\ j - 1 \in ((i - 1) + 1)..Len(r)
        BY <1>1, <3>1
      <4> QED
        BY <1>1, <4>1, <4>2
    <3>4. ASSUME NEW k \in 1..(i - 1) PROVE r[k].kind # "rekey"
      <4>1. k \in 1..Len(r) /\ k + 1 \in 1..i
        BY <1>1, <3>1
      <4> QED
        BY <1>1, <2>1, <4>1
    <3> QED
      BY <3>2, <3>3, <3>4
  <2> QED
    BY <2>2, <2>3, <2>4
<1> QED
  BY <1>1, <1>4, <1>5, <1>6, <1>7 DEF q, r

\* The answers that are left once a message is read: the one that was waited
\* for, if that was it, is gone.
LEMMA ReadAnswers ==
    ASSUME Types, IInv, ws = "open", inbox # <<>>, inbox' = Tail(inbox),
           UNCHANGED <<answered, sentSize>>,
           \/ pc' = pc /\ ~(pc = "delivery" /\ inbox[1].kind = "handshake")
           \/ /\ ~(pc' = "delivery" /\ answered = 4)
              /\ \A i \in 1..Len(inbox') : inbox'[i].kind # "handshake"
    PROVE  Answers'
<1>1. /\ \A i \in 1..Len(inbox') : inbox'[i].kind = "handshake" =>
           /\ \/ pc = "msgA" /\ answered = 2
              \/ pc = "confirmA" /\ answered = 3
              \/ pc = "delivery" /\ answered = 4 /\ inbox'[i].looks = "untyped"
           /\ inbox'[i].key # 0 <=> pc = "delivery"
           /\ \A j \in 1..Len(inbox') : inbox'[j].kind = "handshake" => i = j
      /\ \A i \in 1..Len(inbox') : inbox'[i].kind = "rekey" => answered = 4
      /\ pc = "delivery" /\ answered = 4 /\ inbox[1].kind # "handshake" =>
           \E i \in 1..Len(inbox') :
             /\ inbox'[i].kind = "handshake"
             /\ sentSize # 0 => \E j \in (i + 1)..Len(inbox') : IsSize(inbox'[j])
             /\ \A j \in 1..i : inbox'[j].kind # "rekey"
  BY TailAnswers, Zenon
<1> DEFINE r == inbox'
<1> HIDE DEF r
<1>2. CASE pc' = pc /\ ~(pc = "delivery" /\ inbox[1].kind = "handshake")
  BY <1>1, <1>2 DEF Answers, IsSize
<1>3. CASE /\ ~(pc' = "delivery" /\ answered = 4)
           /\ \A i \in 1..Len(inbox') : inbox'[i].kind # "handshake"
  BY <1>1, <1>3 DEF Answers, IsSize
<1> QED
  BY <1>2, <1>3

\* What the client has in the end, when it has read a message: a key or a size
\* waits now, or is skipped with a later one behind it.
LEMMA ReadLatest ==
    ASSUME Types, inbox # <<>>, inbox' = Tail(inbox),
           UNCHANGED <<streamKey, size, sentKey, sentSize>>
    PROVE  /\ LatestKey /\ inbox[1] \in Keys /\ inbox[1] \in Pending' => LatestKey'
           /\ /\ LatestKey /\ inbox[1] \notin Keys
              /\ \A m \in Keys : m \in Pending <=> m \in Pending'
              => LatestKey'
           /\ LatestSize /\ inbox[1] \in Sizes /\ inbox[1] \in Pending' => LatestSize'
           /\ /\ LatestSize /\ inbox[1] \notin Sizes
              /\ \A m \in Sizes : m \in Pending <=> m \in Pending'
              => LatestSize'
           /\ /\ LatestSize /\ Pending' = Pending
              /\ \E i \in 2..Len(inbox) : inbox[i] \in Sizes
              => LatestSize'
<1> DEFINE G == {m \in Keys : m.key = sentKey}
           H == {m \in Sizes : m.size = sentSize}
           V == Pending'
<1>0. inbox \in Seq(Message) /\ G \subseteq Keys /\ H \subseteq Sizes
  BY Numbers
<1>1. /\ LatestKey <=> Last(inbox, Pending, Keys, G, streamKey, sentKey)
      /\ LatestSize <=> Last(inbox, Pending, Sizes, H, size, sentSize)
  BY DEF LatestKey, LatestSize
<1>2. /\ LatestKey' <=> Last(Tail(inbox), V, Keys, G, streamKey, sentKey)
      /\ LatestSize' <=> Last(Tail(inbox), V, Sizes, H, size, sentSize)
  BY DEF LatestKey, LatestSize, Keys, Sizes, Message, IsKey, IsSize
<1>3. V = Pending'
  OBVIOUS
<1> HIDE DEF G, H, V
<1>4. ASSUME LatestKey, IF inbox[1] \in Keys THEN inbox[1] \in V
                                             ELSE \A m \in Keys : m \in Pending <=> m \in V
      PROVE  LatestKey'
  BY <1>0, <1>1, <1>2, <1>4, LastTail
<1>5. ASSUME LatestSize, IF inbox[1] \in Sizes THEN inbox[1] \in V
                                               ELSE \A m \in Sizes : m \in Pending <=> m \in V
      PROVE  LatestSize'
  BY <1>0, <1>1, <1>2, <1>5, LastTail
<1>6. ASSUME LatestSize, \E i \in 2..Len(inbox) : inbox[i] \in Sizes, V = Pending
      PROVE  LatestSize'
  BY <1>0, <1>1, <1>2, <1>6, LastSkip
<1> QED
  BY <1>3, <1>4, <1>5, <1>6, Zenon

\* A message is read and the client's screen, key and stream stay as they are.
LEMMA ReadTypes ==
    ASSUME Types, inbox # <<>>, inbox' = Tail(inbox), spoken' \in Nat,
           UNCHANGED <<screenVars, ws, streamKey, streamVars, epochVars, tasks, peerVars>>,
           pc' \in {"derive", "stream", "join", "msgA", "confirmA", "delivery"},
           unseen' \in SUBSET {"end", "size", "key", "output", "replay"}
    PROVE  Types'
<1>1. /\ UNCHANGED <<state, overlay, canRetry, ws, streamKey>>
      /\ UNCHANGED <<lastNonce, failures, size, newest, epoch, graceOver, tasks>>
  BY DEF screenVars, streamVars, epochVars, shownVars
<1>2. ScreenTypes'
  <2>1. pc' \in {"none", "dial", "derive", "stream", "failed"} \cup
                {"join", "msgA", "confirmA", "delivery"}
    OBVIOUS
  <2> QED
    BY <1>1, <2>1, Zenon DEF Types, ScreenTypes
<1>3. StreamTypes'
  BY <1>1, Numbers, StreamKept DEF Types
<1>4. PeerTypes' /\ inbox' \in Seq(Message)
  BY PeersKept, Numbers, Popped DEF Types
<1> QED
  BY <1>2, <1>3, <1>4 DEF Types

\* waitForJoinAck reads a message.
LEMMA JoinAckIInv ==
    ASSUME Types, IInv, inbox # <<>>, waitForJoinAck(Head(inbox))
    PROVE  Types' /\ IInv'
<1>1. /\ pc = "join" /\ ws = "open" /\ inbox' = Tail(inbox)
      /\ UNCHANGED <<streamVars, epochVars, tasks, unseen, peerVars>>
  BY DEF waitForJoinAck, Takes
<1>2. inbox' \in Seq(Message)
  BY <1>1, Numbers, Popped
<1>3. CASE handleError /\ UNCHANGED spoken
  BY <1>1, <1>2, <1>3, FailedIInv
<1>4. CASE /\ UNCHANGED <<screenVars, ws, streamKey>>
           /\ (pc' = "msgA" /\ spoken' = 1) \/ UNCHANGED <<pc, spoken>>
  <2>1. UNCHANGED <<state, answered, wrapped, key, sentKey, sentSize>> /\ ws' = "open"
    BY <1>1, <1>4 DEF screenVars, peerVars, keyVars, frameVars
  <2>2. spoken = 0 /\ answered # 4 /\ answered \in Nat /\ state # "active" /\ state # "pre-join"
    BY <1>1, Numbers DEF IInv, Progress
  <2>3. pc' \in {"join", "msgA"} /\ spoken' \in Nat
    BY <1>1, <1>4, <2>2
  <2>4. Types'
    <3>1. unseen' \in SUBSET {"end", "size", "key", "output", "replay"}
      BY <1>1, Zenon DEF Types, StreamTypes
    <3> QED
      BY <1>1, <1>4, <2>3, <3>1, ReadTypes
  <2>5. Progress'
    BY <1>1, <1>4, <2>1, <2>2 DEF IInv, Progress
  <2>6. Answers'
    <3>1. \A i \in 1..Len(inbox') : inbox'[i].kind # "handshake"
      BY <1>1, TailAnswers
    <3> QED
      BY <1>1, <2>1, <2>3, <3>1, ReadAnswers
  <2>7. Tasks'
    BY <1>1, <2>3, TasksKept
  <2>8. Coming'
    BY <2>1, <2>2 DEF IInv, Coming
  <2> QED
    BY <2>4, <2>5, <2>6, <2>7, <2>8 DEF IInv
<1> QED
  BY <1>1, <1>3, <1>4 DEF waitForJoinAck, Skips

\* recvHandshakeMsg takes msg_b or confirm_b.
LEMMA HandshakeTakenIInv ==
    ASSUME Types, IInv, inbox # <<>>, recvHandshakeMsg(Head(inbox)),
           Looks(inbox[1]) = "untyped", pc # "delivery"
    PROVE  Types' /\ IInv'
<1>0. Head(inbox) = inbox[1] /\ inbox[1] \in Message
  BY Numbers, Popped
<1>1. /\ pc \in {"msgA", "confirmA"} /\ ws = "open" /\ inbox' = Tail(inbox)
      /\ pc' = NextStep[pc] /\ spoken' = spoken + 1
      /\ UNCHANGED <<screenVars, ws, streamKey, streamVars, epochVars, tasks, unseen, peerVars>>
  BY <1>0 DEF recvHandshakeMsg, Takes
<1>2. /\ spoken = (IF pc = "msgA" THEN 1 ELSE 2) /\ answered # 4 /\ answered \in Nat
      /\ state # "active" /\ state # "pre-join"
      /\ pc' = (IF pc = "msgA" THEN "confirmA" ELSE "delivery")
  <2>1. NextStep["msgA"] = "confirmA" /\ NextStep["confirmA"] = "delivery"
    BY DEF NextStep
  <2>2. Progress
    BY DEF IInv
  <2>3. spoken = (IF pc = "msgA" THEN 1 ELSE 2)
    BY <1>1, <2>2 DEF Progress
  <2>4. answered # 4
    BY <2>2, <2>3 DEF Progress
  <2>5. answered \in Nat
    BY Numbers
  <2>6. state # "active" /\ state # "pre-join"
    BY <1>1, <2>2 DEF Progress
  <2>7. pc' = (IF pc = "msgA" THEN "confirmA" ELSE "delivery")
    BY <1>1, <2>1
  <2> QED
    BY <2>3, <2>4, <2>5, <2>6, <2>7
<1>3. inbox[1].kind = "handshake"
  <2>1. inbox[1].kind \in {"handshake", "rekey"}
    BY <1>0 DEF Looks
  <2> QED
    BY <1>1, <1>2, <2>1, TailAnswers
<1>4. /\ \A i \in 1..Len(inbox') : inbox'[i].kind # "handshake"
      /\ answered = (IF pc = "msgA" THEN 2 ELSE 3)
  BY <1>1, <1>2, <1>3, TailAnswers
<1>5. UNCHANGED <<state, answered, wrapped, key, sentKey, sentSize>>
  BY <1>1 DEF screenVars, peerVars, keyVars, frameVars
<1>6. Types'
  <2>1. unseen' \in SUBSET {"end", "size", "key", "output", "replay"}
    BY <1>1, Zenon DEF Types, StreamTypes
  <2>2. spoken' \in Nat /\ pc' \in {"derive", "stream", "join", "msgA", "confirmA", "delivery"}
    BY <1>1, <1>2
  <2> QED
    BY <1>1, <2>1, <2>2, ReadTypes
<1>7. Progress'
  BY <1>1, <1>2, <1>4, <1>5 DEF IInv, Progress
<1>8. Answers'
  BY <1>1, <1>2, <1>4, <1>5, ReadAnswers
<1>9. Tasks'
  BY <1>1, <1>2, TasksKept
<1>10. Coming'
  BY <1>2, <1>5 DEF IInv, Coming
<1> QED
  BY <1>6, <1>7, <1>8, <1>9, <1>10 DEF IInv

\* recvHandshakeMsg skips a message; a size it skips is not the last one.
LEMMA HandshakeSkippedIInv ==
    ASSUME Types, IInv, inbox # <<>>, recvHandshakeMsg(Head(inbox)),
           Looks(inbox[1]) = "skipped"
    PROVE  Types' /\ IInv'
<1>0. Head(inbox) = inbox[1] /\ inbox[1] \in Message
  BY Numbers, Popped
<1>1. /\ pc \in {"msgA", "confirmA", "delivery"} /\ ws = "open" /\ inbox' = Tail(inbox)
      /\ UNCHANGED <<screenVars, ws, pc, streamKey, spoken>>
      /\ UNCHANGED <<streamVars, epochVars, tasks, unseen, peerVars>>
  BY <1>0 DEF recvHandshakeMsg, Takes, Skips
<1>2. UNCHANGED <<state, answered, wrapped, key, sentKey, sentSize, size, Waiting, Pending>>
  BY <1>1 DEF screenVars, peerVars, keyVars, frameVars, streamVars, shownVars, Waiting, Pending
<1>3. inbox[1].kind # "rekey" /\ ~(pc = "delivery" /\ inbox[1].kind = "handshake")
  <2>1. inbox[1].kind # "rekey" /\ (inbox[1].kind = "handshake" => inbox[1].looks = "skipped")
    BY DEF Looks
  <2> QED
    BY <1>1, <2>1, TailAnswers
<1>4. Types'
  <2>1. unseen' \in SUBSET {"end", "size", "key", "output", "replay"}
    BY <1>1, Zenon DEF Types, StreamTypes
  <2>2. spoken' \in Nat /\ pc' \in {"derive", "stream", "join", "msgA", "confirmA", "delivery"}
    BY <1>1, Numbers
  <2> QED
    BY <1>1, <2>1, <2>2, ReadTypes
<1>5. Progress'
  BY <1>1, <1>2 DEF IInv, Progress
<1>6. Answers'
  BY <1>1, <1>2, <1>3, ReadAnswers
<1>7. Tasks'
  BY <1>1, TasksKept
<1>8. Coming'
  <2>1. ASSUME answered = 4
        PROVE  (LatestKey => LatestKey') /\ (sentSize # 0 /\ LatestSize => LatestSize')
    <3>1. pc = "delivery"
      BY <1>1, <2>1 DEF IInv, Progress
    <3>2. inbox[1] \notin Keys
      BY <1>0, <1>3, <3>1, Sorts
    <3>3. LatestKey => LatestKey'
      BY <1>1, <1>2, <3>2, ReadLatest
    <3>4. ASSUME sentSize # 0, LatestSize PROVE LatestSize'
      <4>1. PICK i \in 2..Len(inbox) : IsSize(inbox[i])
        BY <1>1, <1>3, <2>1, <3>1, <3>4, TailAnswers
      <4>2. inbox[i] \in Message
        <5>1. Len(inbox) \in Nat \ {0} /\ \A j \in 1..Len(inbox) : inbox[j] \in Message
          BY Queue, Popped
        <5> QED
          BY <4>1, <5>1
      <4>3. inbox[i] \in Sizes
        BY <4>1, <4>2, Sorts
      <4> QED
        BY <1>1, <1>2, <3>4, <4>1, <4>3, ReadLatest
    <3> QED
      BY <3>3, <3>4
  <2> QED
    BY <1>1, <1>2, <2>1 DEF IInv, Coming
<1> QED
  BY <1>4, <1>5, <1>6, <1>7, <1>8 DEF IInv

\* A handler that starts to wait.
LEMMA StartsTypes ==
    ASSUME Types, IInv, NEW m \in Frame \cup Size \cup Rekey \cup Unicast, Awaits(m)
    PROVE  /\ Waiting' = Waiting \cup {[msg |-> m, with |-> streamKey]}
           /\ Waiting' \in SUBSET Task /\ Pending' = Pending \cup {m} /\ IsABag(tasks')
           /\ \A t \in Waiting : [msg |-> m, with |-> streamKey] # t => tasks'[t] = tasks[t]
           /\ [msg |-> m, with |-> streamKey] \notin Waiting =>
                tasks'[[msg |-> m, with |-> streamKey]] = 1
<1> DEFINE t == [msg |-> m, with |-> streamKey]
<1>0. IsABag(tasks) /\ Waiting \in SUBSET Task
  BY Numbers DEF IInv, Tasks
<1>1. t \in Task /\ t.msg = m
  BY Numbers DEF Task
<1>2. tasks' = tasks (+) SetToBag({t})
  BY DEF Awaits
<1> HIDE DEF t
<1>3. /\ Waiting' = Waiting \cup {t} /\ IsABag(tasks')
      /\ \A u \in Waiting \ {t} : tasks'[u] = tasks[u]
      /\ t \notin Waiting => tasks'[t] = 1
  BY <1>0, <1>2, BagMore DEF Waiting
<1>4. Pending' = Pending \cup {m}
  BY <1>1, <1>3 DEF Pending
<1> QED
  BY <1>0, <1>1, <1>3, <1>4 DEF t

\* The key delivery arrives: WebCrypto starts to unwrap it.
LEMMA DeliveryTakenIInv ==
    ASSUME Types, IInv, inbox # <<>>, recvHandshakeMsg(Head(inbox)),
           Looks(inbox[1]) = "untyped", pc = "delivery"
    PROVE  Types' /\ IInv'
<1> DEFINE m == inbox[1]
<1>0. Head(inbox) = m /\ m \in Message
  BY Numbers, Popped
<1>1. /\ ws = "open" /\ inbox' = Tail(inbox) /\ pc' = "derive" /\ Awaits(m)
      /\ UNCHANGED <<screenVars, ws, streamKey, spoken, streamVars, epochVars, unseen, peerVars>>
  BY <1>0 DEF recvHandshakeMsg, Takes, NextStep
<1>2. /\ UNCHANGED <<state, overlay, canRetry, answered, wrapped, key, sentKey, sentSize, size>>
      /\ UNCHANGED <<lastNonce, failures, newest, epoch, graceOver>>
  BY <1>1 DEF screenVars, peerVars, keyVars, frameVars, streamVars, epochVars, shownVars
<1>3. m.kind = "handshake"
  <2>1. m.kind \in {"handshake", "rekey"}
    BY <1>0 DEF Looks
  <2> QED
    BY <1>1, <2>1, TailAnswers
<1>4. /\ answered = 4 /\ m.key # 0 /\ m \in Unicast /\ m \in Keys /\ m \notin Sizes
      /\ \A i \in 1..Len(inbox') : inbox'[i].kind # "handshake"
  <2>1. /\ answered = 4 /\ m.key # 0
        /\ \A i \in 1..Len(inbox') : inbox'[i].kind # "handshake"
    BY <1>1, <1>3, TailAnswers
  <2>2. m \in Unicast
    BY <1>0, <1>3, Fields
  <2>3. IsKey(m)
    BY <1>3, <2>1 DEF IsKey
  <2> QED
    BY <1>0, <1>3, <2>1, <2>2, <2>3, Sorts
<1>5. Waiting = {} /\ spoken = 3 /\ state # "active" /\ state # "pre-join"
  BY DEF IInv, Tasks, Progress
<1> DEFINE t == [msg |-> m, with |-> streamKey]
<1> HIDE DEF m
<1>6. /\ Waiting' = {t} /\ Waiting' \in SUBSET Task /\ Pending' = {m} /\ Pending = {}
      /\ IsABag(tasks') /\ tasks'[t] = 1 /\ t.msg = m
  <2>1. /\ Waiting' = Waiting \cup {t} /\ Waiting' \in SUBSET Task
        /\ Pending' = Pending \cup {m} /\ IsABag(tasks')
        /\ t \notin Waiting => tasks'[t] = 1
    BY <1>1, <1>4, StartsTypes
  <2>2. Pending = {}
    BY <1>5 DEF Pending
  <2> QED
    BY <1>5, <2>1, <2>2
<1> HIDE DEF t
<1>7. Types'
  <2>1. ScreenTypes'
    <3>1. pc' \in {"none", "dial", "derive", "stream", "failed"} \cup
                  {"join", "msgA", "confirmA", "delivery"}
      BY <1>1
    <3>2. UNCHANGED <<state, overlay, canRetry, ws>>
      BY <1>1, <1>2
    <3> QED
      BY <3>1, <3>2, Zenon DEF Types, ScreenTypes
  <2>2. UNCHANGED <<streamKey, spoken, unseen>>
    BY <1>1
  <2>3. StreamTypes'
    BY <1>2, <1>6, <2>2, Zenon DEF Types, StreamTypes
  <2>4. PeerTypes' /\ inbox' \in Seq(Message)
    BY <1>1, PeersKept, Numbers, Popped DEF Types
  <2> QED
    BY <2>1, <2>3, <2>4 DEF Types
<1>8. Progress'
  BY <1>1, <1>2, <1>4, <1>5 DEF IInv, Progress
<1>9. Answers'
  BY <1>1, <1>2, <1>4, ReadAnswers
<1>10. Tasks'
  <2>1. m.kind = "handshake" /\ IsKey(m) /\ ~IsSize(m)
    BY <1>3, <1>4 DEF IsKey, IsSize
  <2> QED
    BY <1>1, <1>6, <2>1 DEF Tasks, IsKey, IsSize
<1>11. Coming'
  <2>1. (LatestKey => LatestKey') /\ (LatestSize => LatestSize')
    BY <1>1, <1>2, <1>4, <1>6, ReadLatest DEF m
  <2> QED
    BY <1>1, <1>2, <2>1 DEF IInv, Coming
<1> QED
  BY <1>7, <1>8, <1>9, <1>10, <1>11 DEF IInv

\* recvHandshakeMsg, whatever it reads.
LEMMA HandshakeIInv ==
    ASSUME Types, IInv, inbox # <<>>, recvHandshakeMsg(Head(inbox))
    PROVE  Types' /\ IInv'
<1>0. Head(inbox) = inbox[1]
  BY Numbers, Popped
<1>1. CASE Looks(inbox[1]) = "rejected"
  <2>1. /\ pc \in {"join", "msgA", "confirmA", "delivery"} /\ handleError
        /\ UNCHANGED <<streamVars, epochVars, tasks, spoken, unseen, peerVars>>
        /\ inbox' = Tail(inbox)
    BY <1>0, <1>1 DEF recvHandshakeMsg, Takes
  <2>2. inbox' \in Seq(Message)
    BY <2>1, Numbers, Popped
  <2> QED
    BY <2>1, <2>2, FailedIInv
<1>2. Looks(inbox[1]) \in {"untyped", "rejected", "skipped"}
  BY <1>0 DEF recvHandshakeMsg
<1> QED
  BY <1>1, <1>2, HandshakeTakenIInv, HandshakeSkippedIInv, DeliveryTakenIInv

\* A message is lost while nobody listens: a key or a size goes to unseen.
LEMMA NobodyListensIInv ==
    ASSUME Types, IInv, inbox # <<>>, NobodyListens(Head(inbox))
    PROVE  Types' /\ IInv'
<1> DEFINE m == inbox[1]
<1>0. Head(inbox) = m /\ m \in Message
  BY Numbers, Popped
<1>1. /\ pc = "derive" /\ ws = "open" /\ inbox' = Tail(inbox)
      /\ UNCHANGED <<screenVars, ws, pc, streamKey, spoken>>
      /\ UNCHANGED <<streamVars, epochVars, tasks, peerVars>>
  BY DEF NobodyListens, Takes
<1>2. PICK u \in {"end", "size", "key", "output"} :
        /\ unseen' = unseen \cup {u}
        /\ m.kind = "size" => u = "size"
        /\ m.kind = "rekey" => u = "key"
  BY <1>0 DEF NobodyListens
<1>3. UNCHANGED <<state, answered, wrapped, key, sentKey, sentSize, size, Waiting, Pending>>
  BY <1>1 DEF screenVars, peerVars, keyVars, frameVars, streamVars, shownVars, Waiting, Pending
<1>4. m.kind # "handshake"
  BY <1>1, TailAnswers
<1>5. Types'
  <2>1. unseen' \in SUBSET {"end", "size", "key", "output", "replay"}
    <3>1. unseen \in SUBSET {"end", "size", "key", "output", "replay"}
      BY Zenon DEF Types, StreamTypes
    <3> QED
      BY <1>2, <3>1
  <2>2. spoken' \in Nat /\ pc' \in {"derive", "stream", "join", "msgA", "confirmA", "delivery"}
    BY <1>1, Numbers
  <2> QED
    BY <1>1, <2>1, <2>2, ReadTypes
<1>6. Progress'
  BY <1>1, <1>3 DEF IInv, Progress
<1>7. Answers'
  BY <1>1, <1>3, ReadAnswers
<1>8. Tasks'
  BY <1>1, <1>2, TasksKept
<1>9. Coming'
  <2>1. LatestKey => LatestKey' \/ "key" \in unseen'
    <3>1. CASE m \in Keys
      BY <1>0, <1>2, <1>4, <3>1, Sorts
    <3>2. CASE m \notin Keys
      BY <1>1, <1>3, <3>2, ReadLatest
    <3> QED
      BY <3>1, <3>2
  <2>2. LatestSize => LatestSize' \/ "size" \in unseen'
    <3>1. CASE m \in Sizes
      BY <1>0, <1>2, <3>1, Sorts
    <3>2. CASE m \notin Sizes
      BY <1>1, <1>3, <3>2, ReadLatest
    <3> QED
      BY <3>1, <3>2
  <2> QED
    BY <1>1, <1>2, <1>3, <2>1, <2>2 DEF IInv, Coming
<1> QED
  BY <1>5, <1>6, <1>7, <1>8, <1>9 DEF IInv

-----------------------------------------------------------------------------
\* WebCrypto.

\* What waits is a message with its key.
LEMMA TaskFields ==
    ASSUME Types, NEW t \in Waiting
    PROVE  /\ t.msg \in Message /\ t.msg \in Pending /\ t.with \in Nat
           /\ t.msg \in Frame \cup Size \cup Rekey \cup Unicast /\ t.msg.key \in Nat
<1>1. t \in Task
  BY Numbers
<1>2. t.msg \in Frame \cup Size \cup Rekey \cup Unicast /\ t.with \in Nat
  BY <1>1 DEF Task
<1>3. t.msg \in Message
  BY <1>2 DEF Message
<1> QED
  BY <1>2, <1>3, Fields DEF Pending

\* What the client has in the end, when nothing is read and fewer wait: what
\* is gone was not of the kind, or was all there was of it and has set what
\* the client has.
LEMMA WaitLatest ==
    ASSUME UNCHANGED <<inbox, sentKey, sentSize>>
    PROVE  /\ /\ LatestKey
              /\ \/ streamKey' = streamKey /\ \A m \in Keys : m \in Pending <=> m \in Pending'
                 \/ /\ \A m \in Pending' : m \notin Keys
                    /\ \E m \in Pending : m \in Keys
                    /\ \A m \in Pending : m \in Keys => streamKey' = m.key
              => LatestKey'
           /\ /\ LatestSize
              /\ \/ size' = size /\ \A m \in Sizes : m \in Pending <=> m \in Pending'
                 \/ /\ \A m \in Pending' : m \notin Sizes
                    /\ \E m \in Pending : m \in Sizes
                    /\ \A m \in Pending : m \in Sizes => size' = m.size
              => LatestSize'
<1> DEFINE G == {m \in Keys : m.key = sentKey}
           H == {m \in Sizes : m.size = sentSize}
           V == Pending'
           k == streamKey'
           n == size'
<1>0. G \subseteq Keys /\ H \subseteq Sizes
  OBVIOUS
<1>1. /\ LatestKey <=> Last(inbox, Pending, Keys, G, streamKey, sentKey)
      /\ LatestSize <=> Last(inbox, Pending, Sizes, H, size, sentSize)
  BY DEF LatestKey, LatestSize
<1>2. /\ LatestKey' <=> Last(inbox, V, Keys, G, k, sentKey)
      /\ LatestSize' <=> Last(inbox, V, Sizes, H, n, sentSize)
  BY DEF LatestKey, LatestSize, Keys, Sizes, Message, IsKey, IsSize
<1>3. /\ \A m \in G : m \in Keys /\ m.key = sentKey
      /\ \A m \in H : m \in Sizes /\ m.size = sentSize
  OBVIOUS
<1>4. V = Pending' /\ k = streamKey' /\ n = size'
  OBVIOUS
<1> HIDE DEF G, H, V, k, n
<1>5. ASSUME LatestKey,
             \/ k = streamKey /\ \A m \in Keys : m \in Pending <=> m \in V
             \/ /\ \A m \in V : m \notin Keys
                /\ \E m \in Pending : m \in Keys
                /\ \A m \in Pending : m \in Keys => k = m.key
      PROVE  LatestKey'
  <2>1. (\A m \in Pending : m \in Keys => k = m.key)
          => ((\E m \in Pending : m \in G) => k = sentKey)
    BY <1>3
  <2> QED
    BY <1>0, <1>1, <1>2, <1>5, <2>1, LastWaiting
<1>6. ASSUME LatestSize,
             \/ n = size /\ \A m \in Sizes : m \in Pending <=> m \in V
             \/ /\ \A m \in V : m \notin Sizes
                /\ \E m \in Pending : m \in Sizes
                /\ \A m \in Pending : m \in Sizes => n = m.size
      PROVE  LatestSize'
  <2>1. (\A m \in Pending : m \in Sizes => n = m.size)
          => ((\E m \in Pending : m \in H) => n = sentSize)
    BY <1>3
  <2> QED
    BY <1>0, <1>1, <1>2, <1>6, <2>1, LastWaiting
<1> QED
  BY <1>4, <1>5, <1>6, Zenon

\* The key is unwrapped and the stream starts.
LEMMA KeyDeliveryIInv ==
    ASSUME Types, IInv, processKeyDelivery
    PROVE  Types' /\ IInv'
<1>1. /\ pc = "derive" /\ pc' = "stream" /\ tasks' = EmptyBag /\ setState("active")
      /\ UNCHANGED <<ws, spoken, unseen, inbox, peerVars>>
      /\ UNCHANGED <<lastNonce, failures, size, newest, epoch, graceOver>>
      /\ UNCHANGED <<answered, wrapped, key, sentKey, sentSize>>
  BY DEF processKeyDelivery, peerVars, keyVars, frameVars, streamVars, epochVars, shownVars
<1>2. PICK t \in Waiting : streamKey' = t.msg.key
  BY DEF processKeyDelivery, Waiting
<1>3. Waiting' = {} /\ Pending' = {} /\ IsABag(tasks')
  BY <1>1, BagNone DEF Waiting, Pending
<1>4. /\ state' \in {"pre-join", "connecting", "active", "ended", "lost", "revoked", "error"}
      /\ overlay' \in BOOLEAN /\ canRetry' \in BOOLEAN /\ state' = "active"
  BY <1>1, SetStateTypes
<1>5. t.msg \in Message /\ t.msg \in Pending /\ t.msg.key \in Nat
  BY TaskFields
<1>6. Types'
  <2>1. ScreenTypes'
    <3>1. pc' \in {"none", "dial", "derive", "stream", "failed"} \cup
                  {"join", "msgA", "confirmA", "delivery"}
      BY <1>1
    <3>2. ws' = ws
      BY <1>1
    <3> QED
      BY <1>4, <3>1, <3>2, Zenon DEF Types, ScreenTypes
  <2>2. StreamTypes'
    <3>1. streamKey' \in Nat /\ Waiting' \in SUBSET Task /\ UNCHANGED <<spoken, unseen>>
      BY <1>1, <1>2, <1>3, <1>5
    <3> QED
      BY <1>1, <3>1, Zenon DEF Types, StreamTypes
  <2>3. PeerTypes' /\ inbox' \in Seq(Message)
    BY <1>1, PeersKept, Numbers DEF Types
  <2> QED
    BY <2>1, <2>2, <2>3 DEF Types
<1>7. Progress'
  BY <1>1, <1>4 DEF IInv, Progress
<1>8. Answers'
  <2>1. /\ ws = "open" => \A i \in 1..Len(inbox) : inbox[i].kind # "handshake"
        /\ answered = 4
    BY <1>1 DEF IInv, Answers, Progress
  <2> QED
    BY <1>1, <2>1 DEF Answers
<1>9. Tasks'
  BY <1>1, <1>3 DEF Tasks
<1>10. Coming'
  <2>1. IsKey(t.msg) /\ t.msg \in Keys
    BY <1>1, <1>5, Sorts DEF IInv, Tasks
  <2>2. ASSUME "key" \notin unseen, LatestKey PROVE LatestKey'
    <3>1. \A u \in Waiting : u = t
      BY <1>1, <2>1, <2>2 DEF IInv, Tasks
    <3>2. \A m \in Pending : m = t.msg
      BY <3>1 DEF Pending
    <3> QED
      BY <1>1, <1>2, <1>3, <1>5, <2>1, <2>2, <3>2, WaitLatest
  <2>3. ASSUME LatestSize PROVE LatestSize'
    <3>1. ASSUME NEW m \in Pending PROVE m \notin Sizes
      <4>1. PICK u \in Waiting : m = u.msg
        BY DEF Pending
      <4>2. m.kind \in {"rekey", "handshake"} /\ m \in Message
        BY <1>1, <4>1, TaskFields DEF IInv, Tasks
      <4> QED
        BY <4>2, Sorts
    <3> QED
      BY <1>1, <1>3, <2>3, <3>1, WaitLatest
  <2> QED
    BY <1>1, <2>2, <2>3 DEF IInv, Coming
<1> QED
  BY <1>6, <1>7, <1>8, <1>9, <1>10 DEF IInv

-----------------------------------------------------------------------------
\* The stream loop reads a message.

\* A handler starts to wait in the stream: it is the only one of its kind, or
\* that is in unseen.
LEMMA StartsTasks ==
    ASSUME Types, IInv, pc = "stream", pc' = pc, unseen \subseteq unseen',
           NEW m \in Frame \cup Size \cup Rekey, Awaits(m),
           m.kind = "rekey" => "key" \in unseen' \/ ~InFlight("rekey"),
           m.kind = "size" => "size" \in unseen' \/ (~InFlight("size") /\ m.key = streamKey)
    PROVE  Tasks'
<1> DEFINE t == [msg |-> m, with |-> streamKey]
<1>0. m \in Message /\ m.kind \in {"stream", "size", "rekey"}
  <2>1. m \in Message
    BY DEF Message
  <2> QED
    BY <2>1, Fields
<1>1. /\ Waiting' = Waiting \cup {t} /\ IsABag(tasks')
      /\ \A u \in Waiting : t # u => tasks'[u] = tasks[u]
      /\ t \notin Waiting => tasks'[t] = 1
  BY <1>0, StartsTypes
<1>2. t.msg = m /\ t.with = streamKey
  OBVIOUS
<1> HIDE DEF t
<1>3. \A u \in Waiting' : u.msg.kind # "handshake"
  BY <1>0, <1>1, <1>2 DEF IInv, Tasks
<1>4. ASSUME "key" \notin unseen', NEW u \in Waiting', NEW v \in Waiting',
             IsKey(u.msg), IsKey(v.msg)
      PROVE  u = v /\ tasks'[u] = 1
  <2>0. "key" \notin unseen /\ u.msg.kind = "rekey" /\ v.msg.kind = "rekey"
    BY <1>3, <1>4 DEF IsKey
  <2>1. CASE u # t /\ v # t
    BY <1>1, <1>4, <2>0, <2>1 DEF IInv, Tasks
  <2>2. CASE u = t \/ v = t
    <3>1. ~InFlight("rekey")
      BY <1>2, <1>4, <2>0, <2>2
    <3>2. \A w \in Waiting : w.msg.kind # "rekey"
      BY <3>1 DEF InFlight, Waiting
    <3> QED
      BY <1>1, <2>0, <3>2
  <2> QED
    BY <2>1, <2>2
<1>5. ASSUME "size" \notin unseen', NEW u \in Waiting', IsSize(u.msg)
      PROVE  /\ \A v \in Waiting' : IsSize(v.msg) => u = v /\ tasks'[u] = 1
             /\ Opens(u)
  <2>0. "size" \notin unseen
    BY <1>5
  <2>1. CASE m.kind # "size"
    <3>1. ASSUME NEW v \in Waiting', IsSize(v.msg) PROVE v # t /\ v \in Waiting
      BY <1>1, <1>2, <2>1, <3>1 DEF IsSize
    <3> QED
      BY <1>1, <1>5, <2>0, <3>1 DEF IInv, Tasks
  <2>2. CASE m.kind = "size"
    <3>1. ~InFlight("size") /\ Opens(t)
      BY <1>2, <1>5, <2>2 DEF Opens
    <3>2. \A w \in Waiting : w.msg.kind # "size"
      BY <3>1 DEF InFlight, Waiting
    <3>3. \A v \in Waiting' : IsSize(v.msg) => v = t
      BY <1>1, <3>2 DEF IsSize
    <3>4. t \notin Waiting
      BY <1>2, <2>2, <3>2
    <3> QED
      BY <1>1, <1>5, <3>1, <3>3, <3>4
  <2> QED
    BY <2>1, <2>2
<1> QED
  BY <1>1, <1>3, <1>4, <1>5 DEF Tasks, IsKey, IsSize, Opens

\* A handler of the stream loop that leaves the screen and the key alone: what
\* it reads waits, or is in unseen, if it is a key or a size.
LEMMA StreamReads ==
    ASSUME Types, IInv, inbox # <<>>, pc = "stream", ws = "open", inbox' = Tail(inbox),
           UNCHANGED <<screenVars, ws, pc, streamKey, streamVars, spoken, peerVars>>,
           epoch' \in Nat, graceOver' \in BOOLEAN, Waiting' \in SUBSET Task, Tasks',
           unseen' \in SUBSET {"end", "size", "key", "output", "replay"},
           unseen \subseteq unseen',
           IF inbox[1] \in Keys THEN inbox[1] \in Pending' \/ "key" \in unseen'
                                ELSE \A m \in Keys : m \in Pending <=> m \in Pending',
           IF inbox[1] \in Sizes THEN inbox[1] \in Pending' \/ "size" \in unseen'
                                 ELSE \A m \in Sizes : m \in Pending <=> m \in Pending'
    PROVE  Types' /\ IInv'
<1>1. /\ UNCHANGED <<state, answered, wrapped, key, sentKey, sentSize>>
      /\ UNCHANGED <<lastNonce, failures, size, newest>>
      /\ ws' = "open" /\ pc' = "stream" /\ UNCHANGED <<streamKey, spoken>>
  BY DEF screenVars, peerVars, keyVars, frameVars, streamVars, shownVars
<1>2. Types'
  <2>1. ScreenTypes'
    BY ScreenKept DEF Types
  <2>2. StreamTypes'
    BY <1>1, Zenon DEF Types, StreamTypes
  <2>3. PeerTypes' /\ inbox' \in Seq(Message)
    BY PeersKept, Numbers, Popped DEF Types
  <2> QED
    BY <2>1, <2>2, <2>3 DEF Types
<1>3. Progress'
  BY <1>1 DEF IInv, Progress
<1>4. Answers'
  BY <1>1, ReadAnswers
<1>5. Coming'
  <2>1. LatestKey => LatestKey' \/ "key" \in unseen'
    BY <1>1, ReadLatest
  <2>2. LatestSize => LatestSize' \/ "size" \in unseen'
    BY <1>1, ReadLatest
  <2> QED
    BY <1>1, <2>1, <2>2 DEF IInv, Coming
<1> QED
  BY <1>2, <1>3, <1>4, <1>5 DEF IInv

\* What validateEpoch leaves.
LEMMA EpochTypes ==
    ASSUME Types, NEW e \in Nat, SeesEpoch(e)
    PROVE  epoch' \in Nat /\ graceOver' \in BOOLEAN
<1>1. epoch' \in Nat
  BY Numbers DEF SeesEpoch
<1>2. graceOver' \in BOOLEAN
  BY DEF SeesEpoch
<1> QED
  BY <1>1, <1>2

\* onmessage for a stream frame, a size or a rekey.
LEMMA StreamReadsIInv ==
    ASSUME Types, IInv, inbox # <<>>, onmessage(Head(inbox)), ~handleEnded(Head(inbox))
    PROVE  Types' /\ IInv'
<1> DEFINE m == inbox[1]
<1>0. Head(inbox) = m /\ m \in Message
  BY Numbers, Popped
<1>1. /\ pc = "stream" /\ ws = "open" /\ inbox' = Tail(inbox)
      /\ handleStreamFrame(m) \/ handleTermSizeFrame(m) \/ handlePossibleRekey(m)
      /\ UNCHANGED <<screenVars, ws, pc, streamKey, streamVars, spoken, peerVars>>
  BY <1>0 DEF onmessage, Takes, handleStreamFrame, handleTermSizeFrame, handlePossibleRekey
<1>2. m.kind \in {"stream", "size", "rekey"}
  BY <1>1 DEF handleStreamFrame, handleTermSizeFrame, handlePossibleRekey
<1>3. m \in Frame \cup Size \cup Rekey /\ m \in Frame \cup Size \cup Rekey \cup Unicast
  BY <1>0, <1>2, Fields
<1>4. Awaits(m) \/ UNCHANGED tasks
  BY <1>1 DEF handleStreamFrame, handleTermSizeFrame, handlePossibleRekey
<1>5. PICK u \in {{}, {"replay"}, {"size"}, {"key"}} : unseen' = unseen \cup u
  BY <1>1 DEF handleStreamFrame, handleTermSizeFrame, handlePossibleRekey
<1>6. unseen' \in SUBSET {"end", "size", "key", "output", "replay"} /\ unseen \subseteq unseen'
  <2>1. unseen \in SUBSET {"end", "size", "key", "output", "replay"}
    BY Zenon DEF Types, StreamTypes
  <2> QED
    BY <1>5, <2>1
<1>7. epoch' \in Nat /\ graceOver' \in BOOLEAN
  <2>1. CASE handlePossibleRekey(m)
    <3>1. UNCHANGED <<epoch, graceOver>>
      BY <2>1 DEF handlePossibleRekey, epochVars
    <3> QED
      BY <3>1, Zenon DEF Types, StreamTypes
  <2>2. CASE handleStreamFrame(m) \/ handleTermSizeFrame(m)
    <3>1. SeesEpoch(m.epoch) /\ m.kind \in {"stream", "size"}
      BY <2>2 DEF handleStreamFrame, handleTermSizeFrame
    <3>2. m.epoch \in Nat
      BY <1>0, <3>1, Fields
    <3> QED
      BY <3>1, <3>2, EpochTypes
  <2> QED
    BY <1>1, <2>1, <2>2
<1>8. /\ m.kind = "rekey" => Awaits(m) /\ ("key" \in unseen' \/ ~InFlight("rekey"))
      /\ m.kind = "size" /\ Awaits(m) =>
           "size" \in unseen' \/ (~InFlight("size") /\ m.key = streamKey)
      /\ m.kind = "size" /\ UNCHANGED tasks => "size" \in unseen' \/ Awaits(m)
  BY <1>1 DEF handleStreamFrame, handleTermSizeFrame, handlePossibleRekey, SizeIsFresh
<1> HIDE DEF m
<1>9. CASE Awaits(m)
  <2>1. Waiting' \in SUBSET Task /\ Pending' = Pending \cup {m}
    BY <1>3, <1>9, StartsTypes
  <2>2. Tasks'
    BY <1>1, <1>3, <1>6, <1>8, <1>9, StartsTasks
  <2>3. IF m \in Keys THEN m \in Pending' \/ "key" \in unseen'
                      ELSE \A x \in Keys : x \in Pending <=> x \in Pending'
    BY <2>1
  <2>4. IF m \in Sizes THEN m \in Pending' \/ "size" \in unseen'
                       ELSE \A x \in Sizes : x \in Pending <=> x \in Pending'
    BY <2>1
  <2> QED
    BY <1>1, <1>6, <1>7, <2>1, <2>2, <2>3, <2>4, StreamReads DEF m
<1>10. CASE UNCHANGED tasks /\ ~Awaits(m)
  <2>1. Waiting' = Waiting /\ Pending' = Pending
    BY <1>10 DEF Waiting, Pending
  <2>2. Waiting' \in SUBSET Task
    BY <2>1, Numbers
  <2>3. Tasks'
    BY <1>1, <1>6, <1>10, TasksKept
  <2>4. /\ m \notin Keys
        /\ m \in Sizes => "size" \in unseen'
    BY <1>0, <1>2, <1>8, <1>10, Sorts
  <2> QED
    BY <1>1, <1>6, <1>7, <2>1, <2>2, <2>3, <2>4, StreamReads DEF m
<1> QED
  BY <1>4, <1>9, <1>10

\* The socket is closed by the client, or was closed before.
LEMMA DisconnectsIInv ==
    ASSUME Types, IInv, pc = "stream", pc' = pc, inbox' \in Seq(Message), disconnect,
           NEW s \in {"ended", "revoked"}, setState(s),
           UNCHANGED <<lastNonce, size, newest, epochVars, spoken, unseen, peerVars>>,
           failures' \in Nat, Tasks', Waiting' \in SUBSET Task
    PROVE  Types' /\ IInv'
<1>1. /\ state' \in {"pre-join", "connecting", "active", "ended", "lost", "revoked", "error"}
      /\ overlay' \in BOOLEAN /\ canRetry' \in BOOLEAN /\ state' = s
  BY SetStateTypes
<1>2. /\ ws' \in {"none", "connecting", "open", "closing", "closed"} /\ ws' # "open"
      /\ ws' \in {"none", "connecting"} => ws' = ws
      /\ streamKey' \in Nat
  BY DisconnectTypes
<1>3. UNCHANGED <<answered, wrapped, key, sentSize, epoch, graceOver, spoken, unseen>>
  BY DEF peerVars, keyVars, frameVars, epochVars
<1>4. ScreenTypes'
  BY <1>1, <1>2 DEF ScreenTypes
<1>5. StreamTypes'
  BY <1>2, <1>3, Zenon DEF Types, StreamTypes
<1>6. PeerTypes'
  BY PeersKept DEF Types
<1>7. Progress'
  BY <1>1, <1>2, <1>3 DEF IInv, Progress
<1>8. Answers' /\ Coming'
  BY <1>2, ClosedKeeps
<1> QED
  BY <1>4, <1>5, <1>6, <1>7, <1>8 DEF Types, IInv

\* onmessage, whatever it reads.
LEMMA OnmessageIInv ==
    ASSUME Types, IInv, inbox # <<>>, onmessage(Head(inbox))
    PROVE  Types' /\ IInv'
<1>1. CASE handleEnded(Head(inbox))
  <2>1. /\ pc = "stream" /\ pc' = pc /\ inbox' = Tail(inbox) /\ disconnect /\ setState("ended")
        /\ UNCHANGED <<lastNonce, failures, size, newest, epochVars, tasks, spoken, unseen,
                       peerVars>>
    BY <1>1 DEF onmessage, Takes, handleEnded, streamVars, shownVars
  <2>2. inbox' \in Seq(Message)
    BY <2>1, Numbers, Popped
  <2>3. Tasks'
    BY <2>1, TasksKept
  <2>4. Waiting' \in SUBSET Task /\ failures' \in Nat
    BY <2>1, Numbers DEF Waiting
  <2> QED
    BY <2>1, <2>2, <2>3, <2>4, DisconnectsIInv
<1> QED
  BY <1>1, StreamReadsIInv

-----------------------------------------------------------------------------
\* WebCrypto in the stream loop.

\* A step in which the client reads nothing.
LEMMA ReadsNothing ==
    ASSUME Types, IInv, UNCHANGED <<screenVars, ws, pc, spoken, unseen, inbox, peerVars>>,
           streamKey' \in Nat, lastNonce' \in Nat, failures' \in Nat, size' \in Nat,
           newest' \in Nat, epoch' \in Nat, graceOver' \in BOOLEAN,
           Waiting' \in SUBSET Task, Tasks',
           LatestKey => LatestKey' \/ "key" \in unseen,
           LatestSize => LatestSize' \/ "size" \in unseen
    PROVE  Types' /\ IInv'
<1>1. UNCHANGED <<state, ws, pc, spoken, unseen, inbox, answered, wrapped, key, sentKey, sentSize>>
  BY DEF screenVars, peerVars, keyVars, frameVars
<1>2. Types'
  <2>1. ScreenTypes'
    BY ScreenKept DEF Types
  <2>2. UNCHANGED <<spoken, unseen>>
    BY <1>1
  <2>3. StreamTypes'
    BY <2>2, Zenon DEF Types, StreamTypes
  <2>4. PeerTypes' /\ inbox' \in Seq(Message)
    BY <1>1, PeersKept, Numbers DEF Types
  <2> QED
    BY <2>1, <2>3, <2>4 DEF Types
<1>3. Progress'
  BY <1>1 DEF IInv, Progress
<1>4. Answers'
  BY <1>1 DEF IInv, Answers, IsSize
<1>5. Coming'
  BY <1>1 DEF IInv, Coming
<1> QED
  BY <1>2, <1>3, <1>4, <1>5 DEF IInv

\* A handler goes on: the others still wait.
LEMMA EndsTasks ==
    ASSUME Types, IInv, pc = "stream", UNCHANGED <<pc, unseen>>, NEW t \in Waiting, Done(t)
    PROVE  /\ Tasks' /\ Waiting' \in SUBSET Task
           /\ Waiting' \subseteq Waiting
           /\ tasks[t] = 1 => t \notin Waiting'
           /\ t.msg \notin Keys => \A m \in Keys : m \in Pending <=> m \in Pending'
           /\ t.msg \notin Sizes => \A m \in Sizes : m \in Pending <=> m \in Pending'
<1>0. IsABag(tasks) /\ Waiting \in SUBSET Task
  BY Numbers DEF IInv, Tasks
<1>1. /\ IsABag(tasks') /\ Waiting' \subseteq Waiting /\ Waiting \subseteq Waiting' \cup {t}
      /\ tasks[t] = 1 => t \notin Waiting'
      /\ \A u \in Waiting \ {t} : tasks'[u] = tasks[u]
  BY <1>0, BagLess DEF Done, Waiting
<1>2. Pending' \subseteq Pending /\ Pending \subseteq Pending' \cup {t.msg}
  BY <1>1 DEF Pending
<1>3. Tasks'
  <2>1. \A u \in Waiting' : tasks[u] = 1 => tasks'[u] = 1 /\ u \in Waiting
    BY <1>1
  <2> QED
    BY <1>1, <2>1 DEF IInv, Tasks, IsKey, IsSize, Opens
<1> QED
  BY <1>0, <1>1, <1>2, <1>3

\* The only key that waits is taken over, or there was another one.
LEMMA KeyTaken ==
    ASSUME Types, IInv, pc = "stream", UNCHANGED <<pc, unseen, inbox, sentKey, sentSize>>,
           NEW t \in Waiting, Done(t), t.msg.kind = "rekey", streamKey' = t.msg.key
    PROVE  LatestKey => LatestKey' \/ "key" \in unseen
<1> SUFFICES ASSUME LatestKey, "key" \notin unseen PROVE LatestKey'
  OBVIOUS
<1>1. IsKey(t.msg) /\ t.msg \in Keys /\ t.msg \in Pending
  BY TaskFields, Sorts DEF IsKey
<1>2. ASSUME NEW m \in Pending, m \in Keys PROVE m = t.msg /\ m \notin Pending'
  <2>1. /\ \A u \in Waiting : IsKey(u.msg) => u = t
        /\ tasks[t] = 1
    BY <1>1 DEF IInv, Tasks
  <2>2. t \notin Waiting' /\ Waiting' \subseteq Waiting
    BY <2>1, EndsTasks
  <2>3. IsKey(m)
    BY <1>2 DEF Keys
  <2>4. \A u \in Waiting : u.msg = m => u = t
    BY <2>1, <2>3
  <2> QED
    BY <1>2, <2>2, <2>4 DEF Pending
<1>3. \A m \in Pending' : m \in Pending
  BY EndsTasks DEF Pending
<1> QED
  BY <1>1, <1>2, <1>3, WaitLatest

\* The only size that waits is taken over, or there was another one.
LEMMA SizeTaken ==
    ASSUME Types, IInv, pc = "stream", UNCHANGED <<pc, unseen, inbox, sentKey, sentSize>>,
           NEW t \in Waiting, Done(t), t.msg.kind = "size",
           size' = IF Opens(t) THEN t.msg.size ELSE size
    PROVE  LatestSize => LatestSize' \/ "size" \in unseen
<1> SUFFICES ASSUME LatestSize, "size" \notin unseen PROVE LatestSize'
  OBVIOUS
<1>1. IsSize(t.msg) /\ t.msg \in Sizes /\ t.msg \in Pending
  BY TaskFields, Sorts DEF IsSize
<1>2. size' = t.msg.size
  BY <1>1 DEF IInv, Tasks
<1>3. ASSUME NEW m \in Pending, m \in Sizes PROVE m = t.msg /\ m \notin Pending'
  <2>1. /\ \A u \in Waiting : IsSize(u.msg) => u = t
        /\ tasks[t] = 1
    BY <1>1 DEF IInv, Tasks
  <2>2. t \notin Waiting' /\ Waiting' \subseteq Waiting
    BY <2>1, EndsTasks
  <2>3. IsSize(m)
    BY <1>3 DEF Sizes
  <2>4. \A u \in Waiting : u.msg = m => u = t
    BY <2>1, <2>3
  <2> QED
    BY <1>3, <2>2, <2>4 DEF Pending
<1>4. \A m \in Pending' : m \in Pending
  BY EndsTasks DEF Pending
<1> QED
  BY <1>1, <1>2, <1>3, <1>4, WaitLatest

\* A continuation runs.
LEMMA WebCryptoIInv ==
    ASSUME Types, IInv, WebCrypto
    PROVE  Types' /\ IInv'
<1>0. /\ pc = "stream" /\ UNCHANGED <<pc, epochVars, spoken, unseen, inbox, peerVars>>
      /\ UNCHANGED <<epoch, graceOver, sentKey, sentSize>>
  BY DEF WebCrypto, epochVars, peerVars, keyVars, frameVars
<1>1. PICK t \in Waiting : \/ StreamFrameDecrypted(t) \/ StreamFrameFailed(t)
                           \/ TermSizeDecrypted(t) \/ Rekeyed(t)
  BY DEF WebCrypto, Waiting
<1>2. Done(t)
  BY <1>1 DEF StreamFrameDecrypted, StreamFrameFailed, TermSizeDecrypted, Rekeyed
<1>3. /\ Tasks' /\ Waiting' \in SUBSET Task
      /\ t.msg \notin Keys => \A m \in Keys : m \in Pending <=> m \in Pending'
      /\ t.msg \notin Sizes => \A m \in Sizes : m \in Pending <=> m \in Pending'
  BY <1>0, <1>2, EndsTasks
<1>4. /\ t.msg \notin Keys /\ streamKey' = streamKey /\ LatestKey => LatestKey'
      /\ t.msg \notin Sizes /\ size' = size /\ LatestSize => LatestSize'
  BY <1>0, <1>3, WaitLatest
<1>5. t.msg \in Message /\ t.msg.key \in Nat
  BY TaskFields
<1>6. epoch' \in Nat /\ graceOver' \in BOOLEAN
  BY <1>0, Zenon DEF Types, StreamTypes
<1>7. CASE StreamFrameDecrypted(t)
  <2>1. /\ t.msg.kind = "stream" /\ lastNonce' = t.msg.nonce /\ failures' = 0
        /\ newest' = Max({newest, t.msg.nonce})
        /\ UNCHANGED <<screenVars, ws, streamKey, size>>
    BY <1>7 DEF StreamFrameDecrypted
  <2>2. t.msg \notin Keys /\ t.msg \notin Sizes /\ t.msg.nonce \in Nat
    BY <1>5, <2>1, Sorts, Fields
  <2>3. newest' \in Nat /\ lastNonce' \in Nat /\ failures' \in Nat
    BY <2>1, <2>2, Numbers, Larger
  <2>4. streamKey' \in Nat /\ size' \in Nat
    BY <2>1, Numbers
  <2>5. LatestKey => LatestKey'
    BY <1>4, <2>1, <2>2
  <2>6. LatestSize => LatestSize'
    BY <1>4, <2>1, <2>2
  <2> QED
    BY <1>0, <1>3, <1>6, <2>1, <2>3, <2>4, <2>5, <2>6, ReadsNothing
<1>8. CASE StreamFrameFailed(t)
  <2>1. /\ t.msg.kind = "stream" /\ failures' = failures + 1
        /\ UNCHANGED <<lastNonce, size, newest>>
        /\ \/ setState("revoked") /\ disconnect
           \/ UNCHANGED <<screenVars, ws, streamKey>>
    BY <1>8 DEF StreamFrameFailed, shownVars
  <2>2. t.msg \notin Keys /\ t.msg \notin Sizes
    BY <1>5, <2>1, Sorts
  <2>3. newest' \in Nat /\ lastNonce' \in Nat /\ failures' \in Nat /\ size' \in Nat
    BY <2>1, Counters
  <2>4. CASE setState("revoked") /\ disconnect
    <3>1. inbox' \in Seq(Message)
      BY <1>0, Numbers
    <3> QED
      BY <1>0, <1>3, <2>1, <2>3, <2>4, <3>1, DisconnectsIInv
  <2>5. CASE UNCHANGED <<screenVars, ws, streamKey>>
    <3>1. streamKey' \in Nat
      BY <2>5, Numbers
    <3>2. LatestKey => LatestKey'
      BY <1>4, <2>2, <2>5
    <3>3. LatestSize => LatestSize'
      BY <1>4, <2>1, <2>2
    <3> QED
      BY <1>0, <1>3, <1>6, <2>3, <2>5, <3>1, <3>2, <3>3, ReadsNothing
  <2> QED
    BY <2>1, <2>4, <2>5
<1>9. CASE TermSizeDecrypted(t)
  <2>1. /\ t.msg.kind = "size" /\ size' = IF Opens(t) THEN t.msg.size ELSE size
        /\ UNCHANGED <<screenVars, ws, streamKey, lastNonce, failures, newest>>
    BY <1>9 DEF TermSizeDecrypted
  <2>2. t.msg \notin Keys /\ t.msg.size \in Nat
    BY <1>5, <2>1, Sorts, Fields
  <2>3. /\ newest' \in Nat /\ lastNonce' \in Nat /\ failures' \in Nat /\ size' \in Nat
        /\ streamKey' \in Nat
    BY <2>1, <2>2, Numbers
  <2>4. LatestKey => LatestKey'
    BY <1>4, <2>1, <2>2
  <2>5. LatestSize => LatestSize' \/ "size" \in unseen
    BY <1>0, <1>2, <2>1, SizeTaken
  <2> QED
    BY <1>0, <1>3, <1>6, <2>1, <2>3, <2>4, <2>5, ReadsNothing
<1>10. CASE Rekeyed(t)
  <2>1. /\ t.msg.kind = "rekey" /\ streamKey' = t.msg.key /\ failures' = 0
        /\ UNCHANGED <<screenVars, ws, lastNonce, size, newest>>
    BY <1>10 DEF Rekeyed, shownVars
  <2>2. t.msg \notin Sizes
    BY <1>5, <2>1, Sorts
  <2>3. /\ newest' \in Nat /\ lastNonce' \in Nat /\ failures' \in Nat /\ size' \in Nat
        /\ streamKey' \in Nat
    BY <1>5, <2>1, Numbers
  <2>4. LatestSize => LatestSize'
    BY <1>4, <2>1, <2>2
  <2>5. LatestKey => LatestKey' \/ "key" \in unseen
    BY <1>0, <1>2, <2>1, KeyTaken
  <2> QED
    BY <1>0, <1>3, <1>6, <2>1, <2>3, <2>4, <2>5, ReadsNothing
<1> QED
  BY <1>1, <1>7, <1>8, <1>9, <1>10

\* The grace period ends, or nothing happens.
LEMMA IdleIInv ==
    ASSUME Types, IInv, GraceEnds \/ UNCHANGED vars
    PROVE  Types' /\ IInv'
<1>1. /\ UNCHANGED <<screenVars, ws, pc, spoken, unseen, inbox, peerVars>>
      /\ UNCHANGED <<streamKey, lastNonce, failures, size, newest, epoch, tasks, sentKey, sentSize>>
  BY DEF GraceEnds, vars, clientVars, streamVars, shownVars, epochVars, peerVars, keyVars, frameVars
<1>2. graceOver' \in BOOLEAN
  <2>1. graceOver \in BOOLEAN
    BY Zenon DEF Types, StreamTypes
  <2>2. graceOver' = TRUE \/ graceOver' = graceOver
    BY DEF GraceEnds, vars, clientVars, epochVars
  <2> QED
    BY <2>1, <2>2
<1>3. /\ streamKey' \in Nat /\ lastNonce' \in Nat /\ failures' \in Nat /\ size' \in Nat
      /\ newest' \in Nat /\ epoch' \in Nat
  BY <1>1, Numbers
<1>4. Waiting' = Waiting /\ Pending' = Pending /\ Waiting' \in SUBSET Task
  BY <1>1, Numbers DEF Waiting, Pending
<1>5. Tasks'
  BY <1>1, TasksKept
<1>6. (LatestKey => LatestKey') /\ (LatestSize => LatestSize')
  BY <1>1, <1>4, SameLatest
<1> QED
  BY <1>1, <1>2, <1>3, <1>4, <1>5, <1>6, ReadsNothing

-----------------------------------------------------------------------------
\* Results.

\* Before the click on "Watch".
LEMMA InitIInv ==
    ASSUME Init
    PROVE  Types /\ IInv
<1>1. Waiting = {} /\ IsABag(tasks) /\ Len(inbox) = 0
  BY BagNone DEF Init, Waiting
<1>2. ScreenTypes
  <2>1. /\ state \in {"pre-join"} /\ ws \in {"none"} /\ pc \in {"none"}
        /\ overlay \in BOOLEAN /\ canRetry \in BOOLEAN
    BY DEF Init
  <2> QED
    BY <2>1 DEF ScreenTypes
<1>3. StreamTypes
  BY <1>1 DEF Init, StreamTypes
<1>4. PeerTypes /\ inbox \in Seq(Message)
  <2>1. ended \in BOOLEAN /\ revoked \in BOOLEAN
    BY DEF Init
  <2>2. /\ answered \in Nat /\ key \in Nat /\ wrapped \in 0..key /\ due = {}
        /\ sentKey \in 0..key /\ sealed \in Nat /\ nowEpoch \in Nat /\ resizes \in Nat
        /\ sentSize \in Nat /\ held = {} /\ aired = {} /\ replays \in Nat
    BY DEF Init
  <2>3. /\ held \in SUBSET (Frame \cup Size) /\ aired \in SUBSET Frame
        /\ due \in SUBSET (1..key)
    BY <2>2
  <2>4. inbox \in Seq(Message)
    BY DEF Init
  <2> QED
    BY <2>1, <2>2, <2>3, <2>4, Zenon DEF PeerTypes
<1>5. Progress
  BY DEF Init, Progress
<1>6. Answers /\ Coming
  BY DEF Init, Answers, Coming
<1>7. Tasks
  BY <1>1 DEF Tasks
<1> QED
  BY <1>2, <1>3, <1>4, <1>5, <1>6, <1>7 DEF Types, IInv

\* Every step keeps the invariant, those of a relay that repeats frames too.
LEMMA NextIInv ==
    ASSUME Types, IInv, [Next \/ (ws = "open" /\ RelayReplays)]_vars
    PROVE  Types' /\ IInv'
<1>1. CASE Dispatch
  BY <1>1, JoinAckIInv, HandshakeIInv, NobodyListensIInv, OnmessageIInv, Zenon DEF Dispatch
<1>2. CASE connect \/ onopen \/ Timeout \/ processKeyDelivery \/ WebCrypto
  BY <1>2, ConnectIInv, OnopenIInv, TimeoutIInv, KeyDeliveryIInv, WebCryptoIInv, Zenon
<1>3. CASE GraceEnds \/ UNCHANGED vars
  BY <1>3, IdleIInv
<1>4. CASE \E failed \in BOOLEAN : ConnectionEnds(failed)
  BY <1>4, ConnectionEndsIInv, Zenon
<1>5. CASE Peers \/ (ws = "open" /\ RelayReplays)
  BY <1>5, PeersIInv
<1> QED
  BY <1>1, <1>2, <1>3, <1>4, <1>5 DEF Next

\* The inductive invariant: the message that the handshake waits for is the one
\* under way, and once the key is delivered the last key and the last size
\* among what is under way and what waits are those the client was sent last -
\* whatever the sharer revokes, seals and sends while the client joins, whatever
\* the timing of WebCrypto and of the end of the connection, and even if the
\* relay sends frames again.
THEOREM Inductive == ReplaySpec => [](TypeOK /\ IInv)
<1>1. Init => Types /\ IInv
  BY InitIInv
<1>2. Types /\ IInv /\ [Next \/ (ws = "open" /\ RelayReplays)]_vars => (Types /\ IInv)'
  BY NextIInv
<1>3. Types /\ IInv => TypeOK /\ IInv
  BY TypesAre
<1> QED
  BY <1>1, <1>2, <1>3, PTL DEF ReplaySpec

\* A relay that repeats nothing is one that may repeat frames.
THEOREM SpecAllowed == Spec => ReplaySpec
<1>1. [Next]_vars => [Next \/ (ws = "open" /\ RelayReplays)]_vars
  OBVIOUS
<1> QED
  BY <1>1, PTL DEF Spec, ReplaySpec

\* Every variable of the client and of its peers keeps its type.
THEOREM TypeCorrect == Spec => []TypeOK
  BY Inductive, SpecAllowed, PTL

\* A client with nothing under way and nothing waiting has the last key and the
\* last size.
LEMMA QuietIsCaughtUp ==
    ASSUME IInv
    PROVE  CaughtUp
<1> SUFFICES ASSUME Quiet
             PROVE  /\ streamKey = sentKey \/ "key" \in unseen
                    /\ size = sentSize \/ sentSize = 0 \/ "size" \in unseen
  BY DEF CaughtUp
<1>1. ws = "open" /\ answered = 4 /\ Len(inbox) = 0 /\ Pending = {}
  <2>1. ws = "open" /\ Len(inbox) = 0
    BY DEF Quiet
  <2>2. Waiting = {}
    BY BagNone DEF Quiet, Waiting
  <2>3. answered = 4
    BY DEF Quiet, IInv, Progress
  <2> QED
    BY <2>1, <2>2, <2>3 DEF Pending
<1>2. /\ "key" \in unseen \/ LatestKey
      /\ sentSize = 0 \/ "size" \in unseen \/ LatestSize
  BY <1>1 DEF IInv, Coming
<1> QED
  BY <1>1, <1>2 DEF LatestKey, LatestSize, Last

\* A browser that nothing is on its way to has the stream key it was sent last,
\* and the size it was sent last since its key delivery, unless a message came
\* while nobody listened, handlers of the same kind overlapped, or a size frame
\* outran its key or its epoch: client.ts loses no key and no size in another
\* way.  What the sharer does not send is not in question here.
THEOREM CatchesUp == Spec => []CaughtUp
  BY Inductive, SpecAllowed, QuietIsCaughtUp, PTL

\* And so it has when the relay sends stream frames again: a repeated frame can
\* be shown twice, but it cannot take the key or the size from the client.
THEOREM CatchesUpWithReplays == ReplaySpec => []CaughtUp
  BY Inductive, QuietIsCaughtUp, PTL

=============================================================================
