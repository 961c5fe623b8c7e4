----------------------------- MODULE JoinProofs -----------------------------
(***************************************************************************)
(* Proofs about Join, for every number of frames and keys and every        *)
(* threshold: the types, and that what `lw join` reports is true.          *)
(***************************************************************************)
EXTENDS Join, FiniteSetTheorems, SequenceTheorems, TLAPS

USE JoinAssumption

-----------------------------------------------------------------------------
\* The inductive invariant.

Done == {"report", "exited"}

IsKey(m)   == m.kind \in {"delivery", "rekey"}
IsFrame(m) == m.kind \in {"stream", "size"}

\* Where the viewer is, how much it has said, and what that takes.
Progress ==
    /\ pc \in Done <=> result # "none"
    /\ pc \in {"start", "dial", "raw", "join"} => spoken = 0
    /\ pc \in {"start", "dial"} => conn = "none"
    /\ pc = "msgA" => spoken = 1
    /\ pc = "confirmA" => spoken = 2 /\ answered >= 2
    /\ pc \in {"delivery", "stream", "resize"} => spoken = 3 /\ answered >= 3
    /\ pc \notin Done => failures < Threshold
    /\ pc \notin Done \cup {"stream", "resize"} => streamKey = 0
    /\ key >= 1
    /\ answered = 4 => sentKey >= 1
    /\ answered = 4 \/ wrapped # 0 => pc \in Done \/ spoken = 3

\* The messages on their way that decide what is reported.
Notices ==
    \A i \in 1..Len(inbox) :
        /\ inbox[i].kind = "session-ended" => ended
        /\ inbox[i].kind \in {"session-not-found", "session-full"} => answered = Refused

\* A handshake message arrives when it is waited for; keys arrive after the
\* handshake, the delivery first.
Answers ==
    pc \notin Done =>
        /\ \A i \in 1..Len(inbox) : inbox[i].kind = "handshake" =>
             /\ (pc = "msgA" /\ answered = 2) \/ (pc = "confirmA" /\ answered = 3)
             /\ \A j \in 1..Len(inbox) : inbox[j].kind = "handshake" => i = j
        /\ \A i \in 1..Len(inbox) : IsKey(inbox[i]) => spoken = 3
        /\ pc = "delivery" => \A i \in 1..Len(inbox) : inbox[i].kind = "rekey" =>
             \E j \in 1..(i - 1) : inbox[j].kind = "delivery"

\* Nonces: each frame has its own, and is held or sent once.
HeldOK ==
    /\ \A f \in held : IsFrame(f) /\ f.nonce \in 1..sealed /\ f.nonce # sentNonce
    /\ \A f, g \in held : f.kind = g.kind \/ f.nonce = g.nonce => f = g
    /\ sentNonce <= sealed
    /\ unlucky + (IF \E f \in held : f.kind = "stream" THEN 1 ELSE 0) <= sealed

NoncesOK ==
    pc \notin Done =>
        /\ lastNonce <= sentNonce
        /\ \A i \in 1..Len(inbox) : IsFrame(inbox[i]) =>
             /\ inbox[i].nonce <= sentNonce
             /\ \A f \in held : f.nonce # inbox[i].nonce
             /\ \A j \in 1..Len(inbox) : IsFrame(inbox[j]) /\ inbox[j].nonce = inbox[i].nonce
                  => i = j

\* The key that the viewer will have when it comes to message i of q: that of
\* the last key message before it, or the one it has now.
KeyInForce(q, have, i, k) ==
    \/ k = have /\ \A j \in 1..(i - 1) : ~IsKey(q[j])
    \/ \E j \in 1..(i - 1) : /\ IsKey(q[j]) /\ q[j].key = k
                             /\ \A l \in (j + 1)..(i - 1) : ~IsKey(q[l])

\* The viewer will open every stream frame of q whose nonce is not in bad.
Opened(q, have, last, bad) ==
    \A i \in 1..Len(q) : q[i].kind = "stream" /\ q[i].nonce \notin bad =>
        /\ q[i].nonce > last
        /\ \A j \in 1..(i - 1) : IsFrame(q[j]) => q[j].nonce < q[i].nonce
        /\ KeyInForce(q, have, i, q[i].key)

\* The last key under way is the one sent last, and the failures counted and
\* those to come are among the unlucky frames.
InStep == conn # "down" => KeyInForce(inbox, streamKey, Len(inbox) + 1, sentKey)
Failing ==
    \E bad \in SUBSET (1..sealed) :
        failures + Cardinality(bad) <= unlucky /\ Opened(inbox, streamKey, lastNonce, bad)
FailuresAreUnlucky ==
    /\ pc \notin Done => InStep /\ Failing
    /\ result = "access revoked" => unlucky >= Threshold

IInv ==
    /\ Progress
    /\ Notices
    /\ Answers
    /\ HeldOK
    /\ NoncesOK
    /\ FailuresAreUnlucky
    /\ ReportIsTrue
-----------------------------------------------------------------------------
\* Messages and queues.

\* The fields of a message by its kind.
LEMMA Fields ==
    ASSUME NEW m \in Message
    PROVE  /\ IsFrame(m) => m \in Frame /\ m.nonce \in Nat /\ m.key \in Nat
           /\ m.kind \in {"handshake", "delivery", "rekey"} => m.key \in Nat
           /\ m.kind \in {"stream", "size", "handshake", "delivery", "rekey", "join-ack",
                          "session-not-found", "session-full", "session-ended"}
<1>1. CASE m \in Frame
  BY <1>1 DEF Frame, IsFrame
<1>2. CASE m \in [kind : {"handshake", "delivery", "rekey"}, key : Nat]
  BY <1>2 DEF IsFrame
<1>3. CASE m \in [kind : {"join-ack", "session-not-found", "session-full", "session-ended"}]
  BY <1>3 DEF IsFrame
<1> QED
  BY <1>1, <1>2, <1>3 DEF Message

\* A queue with one more message.
LEMMA Appended ==
    ASSUME NEW q \in Seq(Message), NEW m \in Message
    PROVE  /\ Append(q, m) \in Seq(Message)
           /\ Len(q) \in Nat /\ Len(Append(q, m)) = Len(q) + 1
           /\ Append(q, m)[Len(q) + 1] = m
           /\ \A i \in 1..Len(q) : Append(q, m)[i] = q[i] /\ q[i] \in Message
  OBVIOUS

\* A queue without its first message.
LEMMA Popped ==
    ASSUME NEW q \in Seq(Message), q # <<>>
    PROVE  /\ Tail(q) \in Seq(Message) /\ Head(q) = q[1] /\ q[1] \in Message
           /\ Len(q) \in Nat \ {0} /\ Len(Tail(q)) = Len(q) - 1
           /\ \A i \in 1..Len(Tail(q)) : Tail(q)[i] = q[i + 1]
           /\ \A i \in 1..Len(q) : q[i] \in Message
  OBVIOUS

\* Where the messages of the rest were.
LEMMA Shift ==
    ASSUME NEW n \in Nat \ {0}, NEW i \in 1..(n - 1)
    PROVE  i + 1 \in 1..n
  OBVIOUS

\* What may still arrive when the connection breaks.
LEMMA Cut ==
    ASSUME NEW q \in Seq(Message), NEW n \in 0..Len(q)
    PROVE  /\ SubSeq(q, 1, n) \in Seq(Message) /\ Len(SubSeq(q, 1, n)) = n
           /\ \A i \in 1..n : SubSeq(q, 1, n)[i] = q[i]
  OBVIOUS

\* The key in force at message i depends on the messages before i only.
LEMMA SameKey ==
    ASSUME NEW q, NEW r, NEW have, NEW i, NEW k,
           \A j \in 1..(i - 1) : r[j] = q[j],
           KeyInForce(q, have, i, k), i \in Nat
    PROVE  KeyInForce(r, have, i, k)
  BY DEF KeyInForce, IsKey

\* After one message more the key in force is the key of that message, or
\* the one before if it has none.
LEMMA NextKey ==
    ASSUME NEW q, NEW have, NEW i \in Nat \ {0}, NEW k, KeyInForce(q, have, i, k),
           NEW n, IF IsKey(q[i]) THEN n = q[i].key ELSE n = k
    PROVE  KeyInForce(q, have, i + 1, n)
<1>1. CASE IsKey(q[i])
  BY <1>1 DEF KeyInForce
<1>2. CASE ~IsKey(q[i])
  BY <1>2 DEF KeyInForce
<1> QED
  BY <1>1, <1>2

\* Reading the first message does not change what will be in force later, if
\* the viewer takes the key it may hold.
LEMMA TailKey ==
    ASSUME NEW q \in Seq(Message), q # <<>>, NEW have, NEW now, NEW k,
           IF IsKey(q[1]) THEN now = q[1].key ELSE now = have,
           NEW i \in 2..(Len(q) + 1), KeyInForce(q, have, i, k)
    PROVE  KeyInForce(Tail(q), now, i - 1, k)
<1>0. /\ \A j \in 1..(Len(q) - 1) : Tail(q)[j] = q[j + 1]
      /\ Len(q) \in Nat \ {0}
  BY Popped
<1>1. CASE k = have /\ \A j \in 1..(i - 1) : ~IsKey(q[j])
  BY <1>0, <1>1 DEF KeyInForce
<1>2. ASSUME NEW j \in 1..(i - 1), IsKey(q[j]), q[j].key = k,
             \A l \in (j + 1)..(i - 1) : ~IsKey(q[l])
      PROVE  KeyInForce(Tail(q), now, i - 1, k)
  <2>1. CASE j = 1
    BY <1>0, <1>2, <2>1 DEF KeyInForce
  <2>2. CASE j # 1
    <3>1. j - 1 \in 1..((i - 1) - 1) /\ Tail(q)[j - 1] = q[j]
      BY <1>0, <2>2
    <3>2. ASSUME NEW l \in ((j - 1) + 1)..((i - 1) - 1) PROVE ~IsKey(Tail(q)[l])
      <4>1. l + 1 \in (j + 1)..(i - 1) /\ Tail(q)[l] = q[l + 1]
        BY <1>0
      <4> QED
        BY <1>2, <4>1
    <3> QED
      BY <1>2, <3>1, <3>2 DEF KeyInForce
  <2> QED
    BY <2>1, <2>2
<1> QED
  BY <1>1, <1>2 DEF KeyInForce

\* A frame sent in order and under the key sent last will be opened, unless
\* it is counted as unlucky.
LEMMA OpenedAppend ==
    ASSUME NEW q \in Seq(Message), NEW m \in Message, NEW have, NEW last, NEW bad, NEW worse,
           Opened(q, have, last, bad), bad \subseteq worse,
           m.kind = "stream" /\ m.nonce \notin worse =>
               /\ m.nonce > last
               /\ \A j \in 1..Len(q) : IsFrame(q[j]) => q[j].nonce < m.nonce
               /\ KeyInForce(q, have, Len(q) + 1, m.key)
    PROVE  Opened(Append(q, m), have, last, worse)
<1> DEFINE r == Append(q, m)
<1>0. /\ Len(q) \in Nat /\ Len(r) = Len(q) + 1 /\ r[Len(q) + 1] = m
      /\ \A i \in 1..Len(q) : r[i] = q[i]
  BY Appended
<1> HIDE DEF r
<1> SUFFICES ASSUME NEW i \in 1..Len(r), r[i].kind = "stream", r[i].nonce \notin worse
             PROVE  /\ r[i].nonce > last
                    /\ \A j \in 1..(i - 1) : IsFrame(r[j]) => r[j].nonce < r[i].nonce
                    /\ KeyInForce(r, have, i, r[i].key)
  BY DEF Opened, r
<1>1. \A j \in 1..(i - 1) : r[j] = q[j] /\ j \in 1..Len(q)
  BY <1>0
<1>2. /\ r[i].nonce > last
      /\ \A j \in 1..(i - 1) : IsFrame(q[j]) => q[j].nonce < r[i].nonce
      /\ KeyInForce(q, have, i, r[i].key)
  <2>1. CASE i \in 1..Len(q)
    BY <1>0, <2>1 DEF Opened
  <2>2. CASE i = Len(q) + 1
    BY <1>0, <1>1, <2>2
  <2> QED
    BY <1>0, <2>1, <2>2
<1>3. KeyInForce(r, have, i, r[i].key)
  BY <1>0, <1>1, <1>2, SameKey
<1> QED
  BY <1>1, <1>2, <1>3

\* Reading the first message leaves the others as they were to be opened, if
\* lastNonce follows the frames and bad loses no other frame.
LEMMA OpenedTail ==
    ASSUME NEW q \in Seq(Message), q # <<>>, NEW have, NEW now, NEW last \in Nat, NEW newer,
           NEW bad, NEW better,
           Opened(q, have, last, bad),
           IF IsKey(q[1]) THEN now = q[1].key ELSE now = have,
           newer = last \/ (IsFrame(q[1]) /\ newer = q[1].nonce),
           \A i \in 2..Len(q) : q[i].kind = "stream" /\ q[i].nonce \in bad =>
               q[i].nonce \in better
    PROVE  Opened(Tail(q), now, newer, better)
<1> DEFINE r == Tail(q)
<1>0. /\ Len(q) \in Nat \ {0} /\ Len(r) = Len(q) - 1
      /\ \A i \in 1..Len(r) : r[i] = q[i + 1]
  BY Popped
<1> SUFFICES ASSUME NEW i \in 1..Len(r), r[i].kind = "stream", r[i].nonce \notin better
             PROVE  /\ r[i].nonce > newer
                    /\ \A j \in 1..(i - 1) : IsFrame(r[j]) => r[j].nonce < r[i].nonce
                    /\ KeyInForce(r, now, i, r[i].key)
  BY DEF Opened
<1> HIDE DEF r
<1>1. i + 1 \in 2..Len(q) /\ r[i] = q[i + 1] /\ 1 \in 1..((i + 1) - 1)
  BY <1>0
<1>2. /\ q[i + 1].nonce > last
      /\ \A j \in 1..((i + 1) - 1) : IsFrame(q[j]) => q[j].nonce < q[i + 1].nonce
      /\ KeyInForce(q, have, i + 1, q[i + 1].key)
  <2>1. q[i + 1].nonce \notin bad /\ q[i + 1].kind = "stream" /\ i + 1 \in 1..Len(q)
    BY <1>1
  <2> QED
    BY <2>1 DEF Opened
<1>3. r[i].nonce > newer
  <2>1. CASE newer = last
    BY <1>1, <1>2, <2>1
  <2>2. CASE IsFrame(q[1]) /\ newer = q[1].nonce
    <3>1. q[1].nonce < q[i + 1].nonce
      BY <1>1, <1>2, <2>2
    <3>2. q[1] \in Message /\ q[i + 1] \in Message /\ IsFrame(q[i + 1])
      BY <1>0, <1>1 DEF IsFrame
    <3>3. q[1].nonce \in Nat /\ q[i + 1].nonce \in Nat
      BY <2>2, <3>2, Fields
    <3> QED
      BY <1>1, <2>2, <3>1, <3>3
  <2> QED
    BY <2>1, <2>2
<1>4. ASSUME NEW j \in 1..(i - 1), IsFrame(r[j]) PROVE r[j].nonce < r[i].nonce
  <2>1. j + 1 \in 1..((i + 1) - 1) /\ r[j] = q[j + 1]
    BY <1>0
  <2> QED
    BY <1>1, <1>2, <1>4, <2>1
<1>5. KeyInForce(r, now, i, r[i].key)
  <2>1. i + 1 \in 2..(Len(q) + 1) /\ (i + 1) - 1 = i
    BY <1>0, <1>1
  <2>2. KeyInForce(Tail(q), now, (i + 1) - 1, q[i + 1].key)
    BY <1>2, <2>1, TailKey
  <2> QED
    BY <1>1, <2>1, <2>2 DEF r
<1> QED
  BY <1>3, <1>4, <1>5

\* What still arrives will be opened as before.
LEMMA OpenedCut ==
    ASSUME NEW q \in Seq(Message), NEW n \in 0..Len(q), NEW have, NEW last, NEW bad,
           Opened(q, have, last, bad)
    PROVE  Opened(SubSeq(q, 1, n), have, last, bad)
<1> DEFINE r == SubSeq(q, 1, n)
<1>0. Len(q) \in Nat /\ n \in Nat /\ Len(r) = n /\ \A i \in 1..n : r[i] = q[i] /\ i \in 1..Len(q)
  BY Cut
<1> HIDE DEF r
<1> SUFFICES ASSUME NEW i \in 1..n, r[i].kind = "stream", r[i].nonce \notin bad
             PROVE  /\ r[i].nonce > last
                    /\ \A j \in 1..(i - 1) : IsFrame(r[j]) => r[j].nonce < r[i].nonce
                    /\ KeyInForce(r, have, i, r[i].key)
  BY <1>0 DEF Opened, r
<1>1. \A j \in 1..(i - 1) : r[j] = q[j]
  BY <1>0
<1>2. /\ q[i].nonce > last
      /\ \A j \in 1..(i - 1) : IsFrame(q[j]) => q[j].nonce < q[i].nonce
      /\ KeyInForce(q, have, i, q[i].key)
  BY <1>0 DEF Opened
<1>3. KeyInForce(r, have, i, r[i].key)
  BY <1>0, <1>1, <1>2, SameKey
<1> QED
  BY <1>0, <1>1, <1>2, <1>3

-----------------------------------------------------------------------------
\* Types.

PC == {"start", "dial", "raw", "stream", "resize", "report", "exited"} \cup Handshake
Result == {"none", "invalid code", "could not reach relay", "setting raw mode", "killed",
           "session-not-found", "session-full", "timeout", "failed", "quit",
           "connection lost", "session-ended", "access revoked"}

\* The types after a step of the viewer, variable by variable.
LEMMA ViewerTypes ==
    ASSUME TypeOK, pc' \in PC, result' \in Result, cancelled' \in BOOLEAN, late' \in BOOLEAN,
           conn' \in {"none", "up", "down", "closed"},
           streamKey' \in Nat, lastNonce' \in Nat, failures' \in 0..Threshold,
           spoken' \in 0..3, inbox' \in Seq(Message), UNCHANGED peerVars
    PROVE  TypeOK'
<1>1. UNCHANGED <<answered, ended, lost, revoked, key, wrapped, due, sentKey, sealed, held,
                  sentNonce, unlucky, confirmA, genuine>>
  BY DEF peerVars, sharerVars, keyVars
<1> QED
  BY <1>1, Zenon DEF TypeOK, PC, Result

\* The types of the numbers and queues.
LEMMA Numbers ==
    ASSUME TypeOK
    PROVE  /\ streamKey \in Nat /\ lastNonce \in Nat /\ failures \in Nat
           /\ failures \in 0..Threshold
           /\ spoken \in 0..3 /\ answered \in 0..5
           /\ inbox \in Seq(Message) /\ held \in SUBSET Frame
           /\ key \in Nat /\ sealed \in Nat /\ sentKey \in Nat /\ sentNonce \in Nat
           /\ unlucky \in Nat
<1>1. /\ streamKey \in Nat /\ lastNonce \in Nat /\ failures \in 0..Threshold
      /\ spoken \in 0..3 /\ answered \in 0..5
      /\ inbox \in Seq(Message) /\ held \in SUBSET Frame
      /\ key \in Nat /\ sealed \in Nat /\ sentKey \in 0..key /\ sentNonce \in 0..sealed
      /\ unlucky \in 0..sealed
  BY Zenon DEF TypeOK
<1> QED
  BY <1>1

-----------------------------------------------------------------------------
\* Reading a message.

\* A set of nonces can be counted.
LEMMA Countable ==
    ASSUME NEW n \in Nat, NEW bad \in SUBSET (1..n)
    PROVE  IsFiniteSet(bad) /\ Cardinality(bad) \in Nat
<1>1. IsFiniteSet(1..n)
  BY FS_Interval
<1>2. IsFiniteSet(bad)
  BY <1>1, FS_Subset
<1> QED
  BY <1>2, FS_CardinalityType

\* A nonce fewer.
LEMMA OneLess ==
    ASSUME NEW n \in Nat, NEW bad \in SUBSET (1..n), NEW x \in bad
    PROVE  /\ bad \ {x} \in SUBSET (1..n) /\ Cardinality(bad) \in Nat
           /\ Cardinality(bad \ {x}) = Cardinality(bad) - 1
  BY Countable, FS_RemoveElement

\* A nonce more.
LEMMA OneMore ==
    ASSUME NEW n \in Nat, NEW bad \in SUBSET (1..n), NEW x \in 1..n
    PROVE  /\ bad \cup {x} \in SUBSET (1..n) /\ Cardinality(bad) \in Nat
           /\ Cardinality(bad \cup {x}) \in Nat
           /\ Cardinality(bad \cup {x}) <= Cardinality(bad) + 1
<1>1. IsFiniteSet(bad) /\ Cardinality(bad) \in Nat
  BY Countable
<1>2. Cardinality(bad \cup {x}) = IF x \in bad THEN Cardinality(bad) ELSE Cardinality(bad) + 1
  BY <1>1, FS_AddElement
<1> QED
  BY <1>1, <1>2

\* The viewer has failed at the first message: a stream frame that is out of
\* order or not under its key.
Fails == /\ inbox[1].kind = "stream"
         /\ ~(inbox[1].nonce > lastNonce /\ inbox[1].key = streamKey)

\* The message read changes the viewer's key, last nonce and failures in the
\* way a message of its kind may.
Follows ==
    /\ IF IsKey(inbox[1]) THEN streamKey' = inbox[1].key ELSE streamKey' = streamKey
    /\ lastNonce' = lastNonce \/ (IsFrame(inbox[1]) /\ lastNonce' = inbox[1].nonce)
    /\ failures' \in {0, failures} \/ (Fails /\ failures' = failures + 1)

\* A frame at which the viewer fails was unlucky.
LEMMA FailsIsBad ==
    ASSUME TypeOK, inbox # <<>>, Fails, NEW bad, Opened(inbox, streamKey, lastNonce, bad)
    PROVE  inbox[1].nonce \in bad
<1>1. Len(inbox) \in Nat \ {0}
  BY Numbers, Popped
<1> SUFFICES ASSUME inbox[1].nonce \notin bad PROVE FALSE
  OBVIOUS
<1>2. inbox[1].nonce > lastNonce /\ KeyInForce(inbox, streamKey, 1, inbox[1].key)
  BY <1>1 DEF Opened, Fails
<1> QED
  BY <1>2 DEF KeyInForce, Fails

\* Failures, read or to come, stay among the unlucky frames.
LEMMA ReadFailing ==
    ASSUME TypeOK, IInv, pc \notin Done, inbox # <<>>, inbox' = Tail(inbox), Follows,
           UNCHANGED <<conn, sentKey, sealed, unlucky>>
    PROVE  InStep' /\ Failing'
<1>0. /\ inbox \in Seq(Message) /\ lastNonce \in Nat /\ failures \in Nat /\ sealed \in Nat
      /\ unlucky \in Nat
  BY Numbers
<1>1. /\ Len(inbox) \in Nat \ {0} /\ Len(Tail(inbox)) = Len(inbox) - 1 /\ inbox[1] \in Message
  BY <1>0, Popped
<1>2. IF IsKey(inbox[1]) THEN streamKey' = inbox[1].key ELSE streamKey' = streamKey
  BY DEF Follows
<1>3. InStep'
  <2> SUFFICES ASSUME conn' # "down"
               PROVE  KeyInForce(inbox', streamKey', Len(inbox') + 1, sentKey')
    BY DEF InStep
  <2>1. KeyInForce(inbox, streamKey, Len(inbox) + 1, sentKey)
    BY DEF IInv, FailuresAreUnlucky, InStep
  <2>2. Len(inbox) + 1 \in 2..(Len(inbox) + 1) /\ (Len(inbox) + 1) - 1 = Len(Tail(inbox)) + 1
    BY <1>1
  <2>3. KeyInForce(Tail(inbox), streamKey', (Len(inbox) + 1) - 1, sentKey)
    BY <1>0, <1>2, <2>1, <2>2, TailKey
  <2> QED
    BY <2>2, <2>3
<1>4. PICK bad \in SUBSET (1..sealed) :
        failures + Cardinality(bad) <= unlucky /\ Opened(inbox, streamKey, lastNonce, bad)
  BY DEF IInv, FailuresAreUnlucky, Failing
<1>5. ASSUME NEW better \in SUBSET (1..sealed), failures' + Cardinality(better) <= unlucky,
             \A i \in 2..Len(inbox) : inbox[i].kind = "stream" /\ inbox[i].nonce \in bad =>
               inbox[i].nonce \in better
      PROVE  Failing'
  <2>1. Opened(Tail(inbox), streamKey', lastNonce', better)
    BY <1>0, <1>2, <1>4, <1>5, OpenedTail DEF Follows
  <2> QED
    BY <1>5, <2>1 DEF Failing
<1>6. CASE failures' \in {0, failures}
  <2>1. Cardinality(bad) \in Nat
    BY <1>0, Countable
  <2>2. failures' + Cardinality(bad) <= unlucky
    BY <1>0, <1>4, <1>6, <2>1
  <2> QED
    BY <1>3, <1>5, <2>2, Zenon
<1>7. CASE Fails /\ failures' = failures + 1
  <2> DEFINE x == inbox[1].nonce
  <2>1. x \in bad
    BY <1>4, <1>7, FailsIsBad
  <2> HIDE DEF x
  <2>2. /\ bad \ {x} \in SUBSET (1..sealed) /\ Cardinality(bad) \in Nat
        /\ Cardinality(bad \ {x}) = Cardinality(bad) - 1
    BY <1>0, <2>1, OneLess
  <2>3. failures' + Cardinality(bad \ {x}) <= unlucky
    BY <1>0, <1>4, <1>7, <2>2
  <2>4. ASSUME NEW i \in 2..Len(inbox), inbox[i].kind = "stream", inbox[i].nonce \in bad
        PROVE  inbox[i].nonce \in bad \ {x}
    <3>1. IsFrame(inbox[i]) /\ IsFrame(inbox[1]) /\ i \in 1..Len(inbox) /\ 1 \in 1..Len(inbox)
      BY <1>1, <1>7, <2>4 DEF IsFrame, Fails
    <3>2. inbox[i].nonce # inbox[1].nonce
      BY <1>1, <3>1 DEF IInv, NoncesOK
    <3> QED
      BY <2>4, <3>2 DEF x
  <2> QED
    BY <1>3, <1>5, <2>2, <2>3, <2>4, Zenon
<1> QED
  BY <1>3, <1>6, <1>7 DEF Follows

\* Reading a message and going on keeps what is known of frames and notices.
LEMMA ReadKeeps ==
    ASSUME TypeOK, IInv, pc \notin Done, inbox # <<>>, inbox' = Tail(inbox), Follows,
           UNCHANGED <<result, cancelled, late, conn, peerVars>>
    PROVE  Notices' /\ HeldOK' /\ NoncesOK' /\ FailuresAreUnlucky' /\ ReportIsTrue'
<1> DEFINE q == inbox
           r == inbox'
<1>0. /\ q \in Seq(Message) /\ lastNonce \in Nat /\ sentNonce \in Nat
      /\ UNCHANGED <<answered, ended, lost, revoked, key, wrapped, due, sentKey, sealed, held,
                     sentNonce, unlucky, confirmA, genuine>>
      /\ result = "none"
  BY Numbers DEF IInv, Progress, peerVars, sharerVars, keyVars
<1>1. /\ Len(q) \in Nat \ {0} /\ Len(r) = Len(q) - 1 /\ q[1] \in Message
      /\ \A i \in 1..Len(r) : r[i] = q[i + 1] /\ i + 1 \in 1..Len(q) /\ q[i + 1] \in Message
  BY <1>0, Popped
<1>2. Notices'
  <2>1. \A i \in 1..Len(q) :
          /\ q[i].kind = "session-ended" => ended
          /\ q[i].kind \in {"session-not-found", "session-full"} => answered = Refused
    BY DEF IInv, Notices
  <2> HIDE DEF q, r
  <2>2. \A i \in 1..Len(r) :
          /\ r[i].kind = "session-ended" => ended'
          /\ r[i].kind \in {"session-not-found", "session-full"} => answered' = Refused
    BY <1>0, <1>1, <2>1
  <2> QED
    BY <2>2 DEF Notices, r, Refused
<1>3. HeldOK'
  BY <1>0 DEF IInv, HeldOK, IsFrame
<1>4. NoncesOK'
  <2>1. /\ lastNonce <= sentNonce
        /\ \A i \in 1..Len(q) : IsFrame(q[i]) =>
             /\ q[i].nonce <= sentNonce
             /\ \A f \in held : f.nonce # q[i].nonce
             /\ \A j \in 1..Len(q) : IsFrame(q[j]) /\ q[j].nonce = q[i].nonce => i = j
    BY DEF IInv, NoncesOK
  <2> HIDE DEF q, r
  <2>2. lastNonce' <= sentNonce
    BY <1>1, <2>1 DEF Follows, q
  <2>3. ASSUME NEW i \in 1..Len(r), IsFrame(r[i])
        PROVE  /\ r[i].nonce <= sentNonce
               /\ \A f \in held : f.nonce # r[i].nonce
               /\ \A j \in 1..Len(r) : IsFrame(r[j]) /\ r[j].nonce = r[i].nonce => i = j
    <3>1. r[i] = q[i + 1] /\ i + 1 \in 1..Len(q)
      BY <1>1
    <3>2. ASSUME NEW j \in 1..Len(r), IsFrame(r[j]), r[j].nonce = r[i].nonce PROVE i = j
      <4>1. r[j] = q[j + 1] /\ j + 1 \in 1..Len(q)
        BY <1>1
      <4>2. i + 1 = j + 1
        BY <2>1, <2>3, <3>1, <3>2, <4>1
      <4> QED
        BY <1>1, <4>2
    <3> QED
      BY <2>1, <2>3, <3>1, <3>2
  <2> QED
    BY <1>0, <2>2, <2>3 DEF NoncesOK, r, IsFrame
<1>5. FailuresAreUnlucky'
  <2>1. InStep' /\ Failing'
    BY <1>0, ReadFailing
  <2> QED
    BY <1>0, <2>1 DEF FailuresAreUnlucky
<1>6. ReportIsTrue'
  BY <1>0 DEF ReportIsTrue
<1> QED
  BY <1>2, <1>3, <1>4, <1>5, <1>6

\* What remains to be shown when Run returns: the report is true.
LEMMA ReturnKeeps ==
    ASSUME TypeOK, IInv, pc \notin Done, NEW r, Returns(r), r # "none",
           inbox' = inbox \/ (inbox # <<>> /\ inbox' = Tail(inbox)),
           UNCHANGED <<answered, ended, lost, revoked, key, wrapped, due, sentKey, sealed, held,
                       sentNonce, unlucky>>,
           ReportIsTrue', r = "access revoked" => unlucky >= Threshold
    PROVE  IInv'
<1>0. pc' = "report" /\ result' = r
  BY DEF Returns
<1>1. Progress'
  BY <1>0 DEF Progress, Done, IInv
<1>2. Notices'
  <2>0. inbox \in Seq(Message)
    BY Numbers
  <2>1. \A i \in 1..Len(inbox) :
          /\ inbox[i].kind = "session-ended" => ended
          /\ inbox[i].kind \in {"session-not-found", "session-full"} => answered = Refused
    BY DEF IInv, Notices
  <2>2. \A i \in 1..Len(inbox') : \E j \in 1..Len(inbox) : inbox'[i] = inbox[j]
    <3>1. CASE inbox' = inbox
      BY <3>1
    <3>2. CASE inbox # <<>> /\ inbox' = Tail(inbox)
      <4>1. /\ Len(inbox) \in Nat \ {0} /\ Len(inbox') = Len(inbox) - 1
            /\ \A i \in 1..Len(inbox') : inbox'[i] = inbox[i + 1]
        BY <2>0, <3>2, Popped
      <4> QED
        BY <4>1, Shift
    <3> QED
      BY <3>1, <3>2
  <2> QED
    BY <2>1, <2>2 DEF Notices, Refused
<1>3. HeldOK'
  BY DEF IInv, HeldOK, IsFrame
<1> QED
  BY <1>0, <1>1, <1>2, <1>3 DEF IInv, Answers, NoncesOK, FailuresAreUnlucky, Done

\* What Answers says of the first message, and of the others once it is read.
LEMMA AnswersTail ==
    ASSUME TypeOK, IInv, pc \notin Done, inbox # <<>>, inbox' = Tail(inbox)
    PROVE  /\ inbox[1] \in Message /\ inbox' \in Seq(Message)
           /\ inbox[1].kind = "handshake" =>
                (pc = "msgA" /\ answered = 2) \/ (pc = "confirmA" /\ answered = 3)
           /\ IsKey(inbox[1]) => spoken = 3
           /\ pc = "delivery" => inbox[1].kind # "rekey"
           /\ inbox[1].kind = "session-ended" => ended
           /\ inbox[1].kind \in {"session-not-found", "session-full"} => answered = Refused
           /\ \A i \in 1..Len(inbox') : inbox'[i].kind = "handshake" =>
                /\ inbox[1].kind # "handshake"
                /\ (pc = "msgA" /\ answered = 2) \/ (pc = "confirmA" /\ answered = 3)
                /\ \A j \in 1..Len(inbox') : inbox'[j].kind = "handshake" => i = j
           /\ \A i \in 1..Len(inbox') : IsKey(inbox'[i]) => spoken = 3
           /\ pc = "delivery" /\ inbox[1].kind # "delivery" =>
                \A i \in 1..Len(inbox') : inbox'[i].kind = "rekey" =>
                  \E j \in 1..(i - 1) : inbox'[j].kind = "delivery"
<1> DEFINE q == inbox
           r == inbox'
<1>0. q \in Seq(Message)
  BY Numbers
<1>1. /\ Len(q) \in Nat \ {0} /\ Len(r) = Len(q) - 1 /\ q[1] \in Message /\ r \in Seq(Message)
      /\ \A i \in 1..Len(r) : r[i] = q[i + 1] /\ i + 1 \in 1..Len(q)
      /\ 1 \in 1..Len(q)
  BY <1>0, Popped
<1>2. /\ \A i \in 1..Len(q) : q[i].kind = "handshake" =>
             /\ (pc = "msgA" /\ answered = 2) \/ (pc = "confirmA" /\ answered = 3)
             /\ \A j \in 1..Len(q) : q[j].kind = "handshake" => i = j
      /\ \A i \in 1..Len(q) : IsKey(q[i]) => spoken = 3
      /\ pc = "delivery" => \A i \in 1..Len(q) : q[i].kind = "rekey" =>
             \E j \in 1..(i - 1) : q[j].kind = "delivery"
      /\ \A i \in 1..Len(q) :
           /\ q[i].kind = "session-ended" => ended
           /\ q[i].kind \in {"session-not-found", "session-full"} => answered = Refused
  BY DEF IInv, Answers, Notices
<1> HIDE DEF q, r
<1>3. /\ q[1].kind = "handshake" =>
           (pc = "msgA" /\ answered = 2) \/ (pc = "confirmA" /\ answered = 3)
      /\ IsKey(q[1]) => spoken = 3
      /\ pc = "delivery" => q[1].kind # "rekey"
      /\ q[1].kind = "session-ended" => ended
      /\ q[1].kind \in {"session-not-found", "session-full"} => answered = Refused
  BY <1>1, <1>2
<1>4. ASSUME NEW i \in 1..Len(r), r[i].kind = "handshake"
      PROVE  /\ q[1].kind # "handshake"
             /\ (pc = "msgA" /\ answered = 2) \/ (pc = "confirmA" /\ answered = 3)
             /\ \A j \in 1..Len(r) : r[j].kind = "handshake" => i = j
  <2>1. q[i + 1].kind = "handshake" /\ i + 1 \in 1..Len(q)
    BY <1>1, <1>4
  <2>2. (pc = "msgA" /\ answered = 2) \/ (pc = "confirmA" /\ answered = 3)
    BY <1>2, <2>1
  <2>3. q[1].kind # "handshake"
    BY <1>1, <1>2, <2>1
  <2>4. ASSUME NEW j \in 1..Len(r), r[j].kind = "handshake" PROVE i = j
    <3>1. q[j + 1].kind = "handshake" /\ j + 1 \in 1..Len(q)
      BY <1>1, <2>4
    <3>2. i + 1 = j + 1
      BY <1>2, <2>1, <3>1
    <3> QED
      BY <1>1, <3>2
  <2> QED
    BY <2>2, <2>3, <2>4
<1>5. \A i \in 1..Len(r) : IsKey(r[i]) => spoken = 3
  BY <1>1, <1>2
<1>6. ASSUME pc = "delivery", q[1].kind # "delivery", NEW i \in 1..Len(r), r[i].kind = "rekey"
      PROVE  \E j \in 1..(i - 1) : r[j].kind = "delivery"
  <2>1. q[i + 1].kind = "rekey" /\ i + 1 \in 1..Len(q)
    BY <1>1, <1>6
  <2>2. PICK j \in 1..((i + 1) - 1) : q[j].kind = "delivery"
    BY <1>2, <1>6, <2>1
  <2>3. j # 1 /\ j - 1 \in 1..(i - 1) /\ j - 1 \in 1..Len(r)
    BY <1>1, <1>6, <2>2
  <2>4. r[j - 1] = q[(j - 1) + 1] /\ (j - 1) + 1 = j
    BY <1>1, <2>3
  <2> QED
    BY <2>2, <2>3, <2>4
<1> QED
  BY <1>1, <1>3, <1>4, <1>5, <1>6 DEF q, r

\* The types after a message was read.
LEMMA RecvTypes ==
    ASSUME TypeOK, pc' \in PC, result' \in Result, streamKey' \in Nat, lastNonce' \in Nat,
           failures' \in 0..Threshold, spoken' \in 0..3, inbox' \in Seq(Message),
           UNCHANGED <<cancelled, late, conn, peerVars>>
    PROVE  TypeOK'
<1>1. /\ cancelled' \in BOOLEAN /\ late' \in BOOLEAN
      /\ conn' \in {"none", "up", "down", "closed"}
  BY Zenon DEF TypeOK
<1>2. UNCHANGED peerVars
  BY Zenon
<1> QED
  BY <1>1, <1>2, ViewerTypes, Zenon

\* waitForJoinAck takes the join-ack or a refusal, and skips the rest.
LEMMA JoinAckIInv ==
    ASSUME TypeOK, IInv, Recv, waitForJoinAck(inbox[1])
    PROVE  TypeOK' /\ IInv'
<1> DEFINE m == inbox[1]
<1>0. /\ pc = "join" /\ pc \notin Done /\ inbox # <<>> /\ inbox' = Tail(inbox)
      /\ UNCHANGED <<cancelled, late, conn, peerVars, viewVars>>
      /\ result = "none" /\ spoken = 0 /\ failures < Threshold /\ streamKey = 0
      /\ key >= 1 /\ (answered = 4 => sentKey >= 1)
      /\ answered = 4 \/ wrapped # 0 => spoken = 3
  BY DEF waitForJoinAck, Recv, Done, IInv, Progress
<1>1. UNCHANGED <<answered, ended, lost, revoked, key, wrapped, due, sentKey, sealed, held,
                  sentNonce, unlucky, confirmA, genuine, streamKey, lastNonce, failures>>
  BY <1>0 DEF peerVars, sharerVars, keyVars, viewVars
<1>2. /\ m \in Message /\ inbox' \in Seq(Message)
      /\ m.kind # "handshake" /\ ~IsKey(m)
      /\ m.kind \in {"session-not-found", "session-full"} => answered = Refused
      /\ \A i \in 1..Len(inbox') : inbox'[i].kind # "handshake" /\ ~IsKey(inbox'[i])
  BY <1>0, AnswersTail
<1>3. Follows
  BY <1>1, <1>2 DEF Follows
<1> HIDE DEF m
<1>t. ASSUME pc' \in PC, result' \in Result, spoken' \in 0..3 PROVE TypeOK'
  <2>1. streamKey' \in Nat /\ lastNonce' \in Nat /\ failures' \in 0..Threshold
    BY <1>1, Numbers
  <2>2. UNCHANGED <<cancelled, late, conn, peerVars>>
    BY <1>0, Zenon
  <2> QED
    BY <1>2, <1>t, <2>1, <2>2, RecvTypes, Zenon
<1>4. CASE UNCHANGED result /\ ((pc' = "msgA" /\ spoken' = 1) \/ UNCHANGED <<pc, spoken>>)
  <2>1. TypeOK'
    <3>1. pc' \in PC /\ result' \in Result /\ spoken' \in 0..3
      BY <1>0, <1>4 DEF PC, Handshake, Result, Returns
    <3> QED
      BY <1>t, <3>1, Zenon
  <2>2. Progress'
    BY <1>0, <1>1, <1>4 DEF Progress, Done
  <2>3. Answers'
    BY <1>2 DEF Answers, IsKey
  <2>4. Notices' /\ HeldOK' /\ NoncesOK' /\ FailuresAreUnlucky' /\ ReportIsTrue'
    BY <1>0, <1>3, <1>4, ReadKeeps
  <2> QED
    BY <2>1, <2>2, <2>3, <2>4 DEF IInv
<1>5. CASE /\ Returns("failed") /\ UNCHANGED spoken
           /\ conn = "down" \/ CtxDone
  <2>1. TypeOK'
    <3>1. pc' \in PC /\ result' \in Result /\ spoken' \in 0..3
      BY <1>0, <1>5 DEF PC, Handshake, Result, Returns
    <3> QED
      BY <1>t, <3>1, Zenon
  <2>2. ReportIsTrue'
    BY <1>0, <1>1, <1>5 DEF ReportIsTrue, CtxDone, Returns
  <2> QED
    BY <1>0, <1>1, <1>5, <2>1, <2>2, ReturnKeeps
<1>6. CASE /\ m.kind \in {"session-not-found", "session-full"}
           /\ Returns(m.kind) /\ UNCHANGED spoken
  <2>1. TypeOK'
    <3>1. pc' \in PC /\ spoken' \in 0..3
      BY <1>0, <1>6 DEF PC, Returns
    <3>2. result' \in Result
      BY <1>6, Zenon DEF Result, Returns
    <3> QED
      BY <1>t, <3>1, <3>2, Zenon
  <2>2. ReportIsTrue'
    BY <1>0, <1>1, <1>2, <1>6 DEF ReportIsTrue, Returns, Refused
  <2> QED
    BY <1>0, <1>1, <1>6, <2>1, <2>2, ReturnKeeps
<1> QED
  <2>1. \/ m.kind = "join-ack" /\ Speaks("msgA")
        \/ m.kind \in {"session-not-found", "session-full"} /\ Returns(m.kind) /\ UNCHANGED spoken
        \/ Continues
    BY DEF waitForJoinAck, m
  <2> QED
    BY <1>0, <1>4, <1>5, <1>6, <2>1 DEF Speaks, Continues

\* How a message looks in the handshake.
LEMMA LooksLike ==
    ASSUME NEW m \in Message
    PROVE  /\ Looks(m) = "untyped" => m.kind \in {"handshake", "delivery"}
           /\ Looks(m) \in {"session-ended", "session-not-found"} =>
                \/ m.kind = "session-ended" /\ Looks(m) = "session-ended"
                \/ Looks(m) = confirmA
           /\ Looks(m) = "skipped" => m.kind # "delivery"
  BY Fields DEF Looks

\* recvHandshakeMsg takes msg_a, confirm_a and the delivery in this order, or
\* what looks like the end of the session, and skips the rest.
LEMMA HandshakeIInv ==
    ASSUME TypeOK, IInv, Recv, recvHandshakeMsg(inbox[1])
    PROVE  TypeOK' /\ IInv'
<1> DEFINE m == inbox[1]
<1>0. /\ pc \in {"msgA", "confirmA", "delivery"} /\ pc \notin Done
      /\ inbox # <<>> /\ inbox' = Tail(inbox)
      /\ UNCHANGED <<cancelled, late, conn, peerVars>> /\ UNCHANGED <<lastNonce, failures>>
      /\ result = "none" /\ failures < Threshold /\ streamKey = 0
      /\ pc = "msgA" => spoken = 1
      /\ pc = "confirmA" => spoken = 2 /\ answered >= 2
      /\ pc = "delivery" => spoken = 3 /\ answered >= 3
      /\ key >= 1 /\ (answered = 4 => sentKey >= 1)
      /\ answered = 4 \/ wrapped # 0 => spoken = 3
  BY DEF recvHandshakeMsg, Recv, Done, IInv, Progress
<1>1. UNCHANGED <<answered, ended, lost, revoked, key, wrapped, due, sentKey, sealed, held,
                  sentNonce, unlucky, confirmA, genuine>>
  BY <1>0 DEF peerVars, sharerVars, keyVars
<1>2. /\ m \in Message /\ inbox' \in Seq(Message)
      /\ m.kind = "handshake" =>
           (pc = "msgA" /\ answered = 2) \/ (pc = "confirmA" /\ answered = 3)
      /\ IsKey(m) => pc = "delivery" /\ m.kind # "rekey"
      /\ m.kind = "session-ended" => ended
  BY <1>0, AnswersTail
<1>d. pc = "delivery" <=> spoken = 3
  BY <1>0
<1>3. /\ \A i \in 1..Len(inbox') : inbox'[i].kind = "handshake" =>
           /\ m.kind # "handshake"
           /\ (pc = "msgA" /\ answered = 2) \/ (pc = "confirmA" /\ answered = 3)
           /\ \A j \in 1..Len(inbox') : inbox'[j].kind = "handshake" => i = j
      /\ \A i \in 1..Len(inbox') : IsKey(inbox'[i]) => pc = "delivery"
      /\ pc = "delivery" /\ m.kind # "delivery" =>
           \A i \in 1..Len(inbox') : inbox'[i].kind = "rekey" =>
             \E j \in 1..(i - 1) : inbox'[j].kind = "delivery"
  BY <1>0, <1>d, AnswersTail, Zenon
<1>4. /\ Looks(m) = "untyped" => m.kind \in {"handshake", "delivery"}
      /\ Looks(m) \in {"session-ended", "session-not-found"} =>
           \/ m.kind = "session-ended" /\ Looks(m) = "session-ended"
           \/ Looks(m) = confirmA
      /\ Looks(m) = "skipped" => m.kind # "delivery"
  BY <1>2, LooksLike
<1>t. ASSUME pc' \in PC, result' \in Result, spoken' \in 0..3, streamKey' \in Nat PROVE TypeOK'
  <2>1. lastNonce' \in Nat /\ failures' \in 0..Threshold
    BY <1>0, Numbers
  <2>2. UNCHANGED <<cancelled, late, conn, peerVars>>
    BY <1>0, Zenon
  <2> QED
    BY <1>2, <1>t, <2>1, <2>2, RecvTypes, Zenon
<1>5. ASSUME UNCHANGED result, Follows
      PROVE  Notices' /\ HeldOK' /\ NoncesOK' /\ FailuresAreUnlucky' /\ ReportIsTrue'
  BY <1>0, <1>5, ReadKeeps
<1>k. m.kind = "delivery" => m.key \in Nat
  BY <1>2, Fields
<1> HIDE DEF m
<1>6. CASE /\ Looks(m) = "untyped" /\ pc # "delivery" /\ UNCHANGED <<result, streamKey>>
           /\ pc' = NextStep[pc] /\ spoken' = spoken + 1
  <2>0. m.kind = "handshake"
    BY <1>0, <1>2, <1>4, <1>6 DEF IsKey
  <2>1. TypeOK'
    <3>1. pc' \in PC /\ result' \in Result /\ spoken' \in 0..3 /\ streamKey' \in Nat
      BY <1>0, <1>6 DEF PC, Handshake, Result, NextStep
    <3> QED
      BY <1>t, <3>1, Zenon
  <2>2. Progress'
    BY <1>0, <1>1, <1>2, <1>6, <2>0 DEF Progress, Done, NextStep
  <2>3. Answers'
    BY <1>3, <1>6, <2>0 DEF Answers, IsKey
  <2>4. Follows
    BY <1>0, <1>6, <2>0 DEF Follows, IsKey, m
  <2> QED
    BY <1>5, <1>6, <2>1, <2>2, <2>3, <2>4 DEF IInv
<1>7. CASE /\ Looks(m) = "untyped" /\ pc = "delivery"
           /\ streamKey' = m.key /\ pc' = "stream" /\ UNCHANGED <<result, spoken>>
  <2>0. m.kind = "delivery"
    BY <1>2, <1>4, <1>7
  <2>1. TypeOK'
    <3>1. pc' \in PC /\ result' \in Result /\ spoken' \in 0..3 /\ streamKey' \in Nat
      BY <1>0, <1>7, <1>k, <2>0 DEF PC, Result
    <3> QED
      BY <1>t, <3>1, Zenon
  <2>2. Progress'
    BY <1>0, <1>1, <1>7 DEF Progress, Done
  <2>3. Answers'
    BY <1>0, <1>3, <1>7 DEF Answers
  <2>4. Follows
    BY <1>0, <1>7, <2>0 DEF Follows, IsKey, m
  <2> QED
    BY <1>5, <1>7, <2>1, <2>2, <2>3, <2>4 DEF IInv
<1>8. CASE Looks(m) = "skipped" /\ UNCHANGED <<pc, result, spoken, streamKey>>
  <2>0. ~IsKey(m)
    BY <1>2, <1>4, <1>8 DEF IsKey
  <2>1. TypeOK'
    <3>1. pc' \in PC /\ result' \in Result /\ spoken' \in 0..3 /\ streamKey' \in Nat
      BY <1>0, <1>8 DEF PC, Result, Handshake
    <3> QED
      BY <1>t, <3>1, Zenon
  <2>2. Progress'
    BY <1>0, <1>1, <1>8 DEF Progress, Done
  <2>3. Answers'
    BY <1>0, <1>1, <1>3, <1>4, <1>8 DEF Answers
  <2>4. Follows
    BY <1>0, <1>8, <2>0 DEF Follows, m
  <2> QED
    BY <1>5, <1>8, <2>1, <2>2, <2>3, <2>4 DEF IInv
<1>9. CASE /\ Returns("failed") /\ UNCHANGED <<spoken, streamKey>>
           /\ conn = "down" \/ CtxDone \/ ~genuine
  <2>1. TypeOK'
    <3>1. pc' \in PC /\ result' \in Result /\ spoken' \in 0..3 /\ streamKey' \in Nat
      BY <1>0, <1>9 DEF PC, Result, Returns
    <3> QED
      BY <1>t, <3>1, Zenon
  <2>2. ReportIsTrue'
    BY <1>0, <1>1, <1>9 DEF ReportIsTrue, CtxDone, Returns
  <2> QED
    BY <1>0, <1>1, <1>9, <2>1, <2>2, ReturnKeeps
<1>10. CASE /\ Looks(m) \in {"session-ended", "session-not-found"}
            /\ Returns(Looks(m)) /\ UNCHANGED <<spoken, streamKey>>
  <2>0. result' \in {"session-ended", "session-not-found"} /\ result' = Looks(m)
    BY <1>10 DEF Returns
  <2>1. TypeOK'
    <3>1. pc' \in PC /\ spoken' \in 0..3 /\ streamKey' \in Nat
      BY <1>0, <1>10 DEF PC, Returns
    <3>2. result' \in Result
      BY <2>0, Zenon DEF Result
    <3> QED
      BY <1>t, <3>1, <3>2, Zenon
  <2>2. ReportIsTrue'
    BY <1>0, <1>1, <1>2, <1>4, <1>10, <2>0 DEF ReportIsTrue
  <2> QED
    BY <1>0, <1>1, <1>10, <2>1, <2>2, ReturnKeeps
<1> QED
  <2>1. \/ Looks(m) = "untyped" /\ pc # "delivery" /\ Speaks(NextStep[pc]) /\ UNCHANGED streamKey
        \/ ~Verifies /\ Returns("failed") /\ UNCHANGED <<spoken, streamKey>>
        \/ /\ Looks(m) = "untyped" /\ pc = "delivery"
           /\ streamKey' = m.key /\ pc' = "stream" /\ UNCHANGED <<result, spoken>>
        \/ /\ Looks(m) \in {"session-ended", "session-not-found"}
           /\ Returns(Looks(m)) /\ UNCHANGED <<spoken, streamKey>>
        \/ Looks(m) = "skipped" /\ Continues /\ UNCHANGED streamKey
    BY DEF recvHandshakeMsg, m
  <2> QED
    BY <1>6, <1>7, <1>8, <1>9, <1>10, <2>1 DEF Speaks, Continues, Verifies

\* The larger of two nonces.
LEMMA Larger ==
    ASSUME NEW a \in Nat, NEW b \in Nat
    PROVE  Max({a, b}) = IF a >= b THEN a ELSE b
<1> DEFINE c == IF a >= b THEN a ELSE b
<1>1. c \in {a, b} /\ \A y \in {a, b} : c >= y
  OBVIOUS
<1>2. \A x \in {a, b} : (\A y \in {a, b} : x >= y) => x = c
  OBVIOUS
<1> HIDE DEF c
<1>3. Max({a, b}) = c
  BY <1>1, <1>2 DEF Max
<1> QED
  BY <1>3 DEF c

\* With the failure at hand there are enough unlucky frames.
LEMMA FailsIsUnlucky ==
    ASSUME TypeOK, IInv, pc \notin Done, inbox # <<>>, Fails
    PROVE  failures + 1 <= unlucky
<1>1. PICK bad \in SUBSET (1..sealed) :
        failures + Cardinality(bad) <= unlucky /\ Opened(inbox, streamKey, lastNonce, bad)
  BY DEF IInv, FailuresAreUnlucky, Failing
<1>2. inbox[1].nonce \in bad
  BY <1>1, FailsIsBad
<1>3. failures \in Nat /\ sealed \in Nat /\ unlucky \in Nat
  BY Numbers
<1> DEFINE x == inbox[1].nonce
<1>4. /\ bad \ {x} \in SUBSET (1..sealed) /\ Cardinality(bad) \in Nat
      /\ Cardinality(bad \ {x}) = Cardinality(bad) - 1
  BY <1>2, <1>3, OneLess
<1>5. Cardinality(bad \ {x}) \in Nat
  BY <1>3, <1>4, Countable
<1> QED
  BY <1>1, <1>3, <1>4, <1>5

\* streamLoop takes stream and size frames, rekeys and the end.
LEMMA StreamIInv ==
    ASSUME TypeOK, IInv, Recv, streamLoop(inbox[1])
    PROVE  TypeOK' /\ IInv'
<1> DEFINE m == inbox[1]
<1>0. /\ pc = "stream" /\ pc \notin Done /\ inbox # <<>> /\ inbox' = Tail(inbox)
      /\ UNCHANGED <<cancelled, late, conn, peerVars>> /\ UNCHANGED spoken
      /\ result = "none" /\ failures < Threshold /\ spoken = 3 /\ answered >= 3
      /\ key >= 1 /\ (answered = 4 => sentKey >= 1)
      /\ answered = 4 \/ wrapped # 0 => spoken = 3
  BY DEF streamLoop, Recv, Done, IInv, Progress
<1>1. UNCHANGED <<answered, ended, lost, revoked, key, wrapped, due, sentKey, sealed, held,
                  sentNonce, unlucky, confirmA, genuine>>
  BY <1>0 DEF peerVars, sharerVars, keyVars
<1>2. /\ m \in Message /\ inbox' \in Seq(Message)
      /\ m.kind = "session-ended" => ended
      /\ \A i \in 1..Len(inbox') : inbox'[i].kind # "handshake"
  BY <1>0, AnswersTail
<1>3. /\ streamKey \in Nat /\ lastNonce \in Nat /\ failures \in Nat
      /\ IsFrame(m) => m.nonce \in Nat
      /\ m.kind = "rekey" => m.key \in Nat
  BY <1>2, Numbers, Fields
<1>t. ASSUME pc' \in PC, result' \in Result, streamKey' \in Nat, lastNonce' \in Nat,
             failures' \in 0..Threshold
      PROVE  TypeOK'
  <2>1. spoken' \in 0..3
    BY <1>0
  <2>2. UNCHANGED <<cancelled, late, conn, peerVars>>
    BY <1>0, Zenon
  <2> QED
    BY <1>2, <1>t, <2>1, <2>2, RecvTypes, Zenon
<1>4. ASSUME pc' \in {"stream", "resize"}, UNCHANGED result, Follows,
             failures' < Threshold, streamKey' \in Nat, lastNonce' \in Nat, failures' \in Nat
      PROVE  TypeOK' /\ IInv'
  <2>1. TypeOK'
    <3>1. pc' \in PC /\ result' \in Result /\ failures' \in 0..Threshold
      BY <1>0, <1>4 DEF PC, Result
    <3> QED
      BY <1>4, <1>t, <3>1, Zenon
  <2>2. Progress'
    BY <1>0, <1>1, <1>4 DEF Progress, Done
  <2>3. Answers'
    BY <1>0, <1>2, <1>4 DEF Answers
  <2>4. Notices' /\ HeldOK' /\ NoncesOK' /\ FailuresAreUnlucky' /\ ReportIsTrue'
    BY <1>0, <1>4, ReadKeeps
  <2> QED
    BY <2>1, <2>2, <2>3, <2>4 DEF IInv
<1>5. CASE StreamFrame(m)
  <2>0. m.kind = "stream" /\ IsFrame(m) /\ ~IsKey(m)
    BY <1>5 DEF StreamFrame, IsFrame, IsKey
  <2>1. CASE UNCHANGED <<pc, result, viewVars>>
    <3>1. UNCHANGED <<pc, result, streamKey, lastNonce, failures>>
      BY <2>1 DEF viewVars
    <3>2. Follows
      BY <2>0, <3>1 DEF Follows
    <3> QED
      BY <1>0, <1>3, <1>4, <3>1, <3>2
  <2>2. CASE /\ lastNonce' = Max({lastNonce, m.nonce})
             /\ failures' = IF Fresh(m) /\ Opens(m) THEN 0 ELSE failures + 1
             /\ IF TooMany(failures') THEN Returns("access revoked") ELSE UNCHANGED <<pc, result>>
             /\ UNCHANGED streamKey
    <3>1. lastNonce' = lastNonce \/ lastNonce' = m.nonce
      BY <1>3, <2>0, <2>2, Larger
    <3>n. lastNonce' \in Nat /\ streamKey' \in Nat
      BY <1>3, <2>0, <2>2, <3>1
    <3>2. failures' = 0 \/ (Fails /\ failures' = failures + 1)
      BY <2>0, <2>2 DEF Fails, Fresh, Opens
    <3>3. Follows
      BY <2>0, <2>2, <3>1, <3>2 DEF Follows
    <3>4. CASE ~TooMany(failures')
      <4>1. failures' \in Nat /\ failures' < Threshold
        BY <1>3, <3>2, <3>4 DEF TooMany
      <4>2. UNCHANGED <<pc, result>>
        BY <2>2, <3>4
      <4> QED
        BY <1>0, <1>4, <3>3, <3>n, <4>1, <4>2
    <3>5. CASE TooMany(failures')
      <4>1. Fails /\ failures' = failures + 1 /\ failures' = Threshold
        BY <1>0, <1>3, <3>2, <3>5 DEF TooMany
      <4>2. Returns("access revoked")
        BY <2>2, <3>5
      <4>3. unlucky >= Threshold /\ unlucky' = unlucky
        BY <1>0, <1>1, <4>1, FailsIsUnlucky
      <4>4. TypeOK'
        <5>1. pc' \in PC /\ result' \in Result
          BY <4>2, Zenon DEF PC, Result, Returns
        <5>2. failures' \in 0..Threshold
          BY <4>1
        <5> QED
          BY <1>t, <3>n, <5>1, <5>2, Zenon
      <4>5. ReportIsTrue'
        BY <4>2, <4>3 DEF ReportIsTrue, Returns
      <4> QED
        BY <1>0, <1>1, <4>2, <4>3, <4>4, <4>5, ReturnKeeps
    <3> QED
      BY <3>4, <3>5
  <2> QED
    BY <1>5, <2>1, <2>2 DEF StreamFrame
<1>6. CASE SizeFrame(m)
  <2>0. m.kind = "size" /\ IsFrame(m) /\ ~IsKey(m)
    BY <1>6 DEF SizeFrame, IsFrame, IsKey
  <2>1. /\ UNCHANGED <<result, streamKey, failures>> /\ lastNonce' \in {lastNonce, m.nonce}
        /\ pc' \in {"stream", "resize"}
    BY <1>0, <1>6 DEF SizeFrame
  <2>2. Follows
    BY <2>0, <2>1 DEF Follows
  <2> QED
    BY <1>0, <1>3, <1>4, <2>0, <2>1, <2>2
<1>7. CASE processRekey(m)
  <2>1. /\ m.kind = "rekey" /\ IsKey(m) /\ streamKey' = m.key /\ failures' = 0
        /\ UNCHANGED <<pc, result, lastNonce>>
    BY <1>7 DEF processRekey, IsKey
  <2>2. Follows
    BY <2>1 DEF Follows
  <2> QED
    BY <1>0, <1>3, <1>4, <2>1, <2>2
<1>8. CASE EndFrame(m)
  <2>1. /\ ended /\ Returns("session-ended") /\ UNCHANGED <<streamKey, lastNonce, failures>>
    BY <1>2, <1>8 DEF EndFrame, viewVars
  <2>2. TypeOK'
    <3>1. pc' \in PC /\ result' \in Result /\ failures' \in 0..Threshold
          /\ streamKey' \in Nat /\ lastNonce' \in Nat
      BY <1>0, <1>3, <2>1 DEF PC, Result, Returns
    <3> QED
      BY <1>t, <3>1, Zenon
  <2>3. ReportIsTrue'
    BY <1>1, <2>1 DEF ReportIsTrue, Returns
  <2> QED
    BY <1>0, <1>1, <2>1, <2>2, <2>3, ReturnKeeps
<1> QED
  BY <1>5, <1>6, <1>7, <1>8 DEF streamLoop

\* Reading a message preserves the invariant.
LEMMA RecvIInv ==
    ASSUME TypeOK, IInv, Recv
    PROVE  TypeOK' /\ IInv'
<1>1. inbox # <<>> /\ inbox \in Seq(Message)
  BY Numbers DEF Recv
<1>2. Head(inbox) = inbox[1]
  BY <1>1, Popped
<1> QED
  BY <1>2, JoinAckIInv, HandshakeIInv, StreamIInv DEF Recv

-----------------------------------------------------------------------------
\* The other steps of the viewer.

\* A step on the way that touches neither messages nor keys.
LEMMA GoesOn ==
    ASSUME IInv, pc \notin Done, pc' \notin Done,
           UNCHANGED <<result, viewVars, inbox, peerVars, spoken>>,
           conn' = "down" <=> conn = "down", Progress',
           pc \in {"msgA", "confirmA"} => pc' = pc, pc' = "delivery" => pc = "delivery"
    PROVE  IInv'
<1>0. /\ UNCHANGED <<answered, ended, lost, revoked, key, wrapped, due, sentKey, sealed, held,
                     sentNonce, unlucky, confirmA, genuine, streamKey, lastNonce, failures, inbox,
                     result, spoken>>
      /\ result = "none"
  BY DEF peerVars, sharerVars, keyVars, viewVars, IInv, Progress
<1>1. Notices' /\ HeldOK'
  BY <1>0 DEF IInv, Notices, HeldOK, IsFrame, Refused
<1>2. Answers'
  BY <1>0 DEF IInv, Answers, IsKey
<1>3. NoncesOK'
  BY <1>0 DEF IInv, NoncesOK, IsFrame
<1>4. FailuresAreUnlucky'
  <2>1. InStep /\ Failing
    BY DEF IInv, FailuresAreUnlucky
  <2>2. InStep'
    BY <1>0, <2>1 DEF InStep, KeyInForce, IsKey
  <2>3. Failing'
    BY <1>0, <2>1 DEF Failing, Opened, KeyInForce, IsKey, IsFrame
  <2> QED
    BY <1>0, <2>2, <2>3 DEF FailuresAreUnlucky
<1>5. ReportIsTrue'
  BY <1>0 DEF ReportIsTrue
<1> QED
  BY <1>1, <1>2, <1>3, <1>4, <1>5 DEF IInv

\* The steps before the handshake.
LEMMA StepsAre ==
    /\ DOMAIN Steps = {"start", "dial", "raw"}
    /\ Steps["start"].fails = "invalid code" /\ Steps["start"].next = "dial"
    /\ Steps["dial"].fails = "could not reach relay" /\ Steps["dial"].next = "raw"
    /\ Steps["raw"].fails = "setting raw mode" /\ Steps["raw"].next = "join"
  BY DEF Steps

\* The checks, the dial and the raw mode.
LEMMA StartUpIInv ==
    ASSUME TypeOK, IInv, StartUp
    PROVE  TypeOK' /\ IInv'
<1>0. /\ pc \in {"start", "dial", "raw"} /\ pc \notin Done
      /\ UNCHANGED <<cancelled, late, viewVars, spoken, inbox, peerVars>>
  BY StepsAre DEF StartUp, Done
<1>1. UNCHANGED <<answered, ended, lost, revoked, key, wrapped, due, sentKey, sealed, held,
                  sentNonce, unlucky, confirmA, genuine, streamKey, lastNonce, failures, inbox>>
  BY <1>0 DEF peerVars, sharerVars, keyVars, viewVars
<1>2. \/ /\ Returns(Steps[pc].fails) /\ UNCHANGED conn
         /\ Steps[pc].fails \in {"invalid code", "could not reach relay", "setting raw mode"}
      \/ /\ pc' \in {"dial", "raw", "join"} /\ UNCHANGED result /\ conn' \in {"up", conn}
         /\ pc' = "dial" => pc = "start" /\ UNCHANGED conn
         /\ pc = "dial" \/ UNCHANGED conn
  <2>1. CASE Returns(Steps[pc].fails) /\ UNCHANGED conn
    BY <1>0, <2>1, StepsAre
  <2>2. CASE /\ pc' = Steps[pc].next /\ UNCHANGED result
             /\ conn' = IF pc = "dial" THEN "up" ELSE conn
    BY <1>0, <2>2, StepsAre
  <2> QED
    BY <2>1, <2>2 DEF StartUp
<1>3. TypeOK'
  <2>1. pc' \in PC /\ result' \in Result
    <3>1. pc' \in {"report", "dial", "raw", "join"}
      BY <1>2 DEF Returns
    <3>2. result' \in {"invalid code", "could not reach relay", "setting raw mode", result}
      BY <1>2 DEF Returns
    <3>3. result \in Result
      BY Zenon DEF TypeOK, Result
    <3> QED
      BY <3>1, <3>2, <3>3, Zenon DEF PC, Handshake, Result
  <2>2. conn' \in {"none", "up", "down", "closed"}
    <3>1. conn \in {"none", "up", "down", "closed"}
      BY Zenon DEF TypeOK
    <3> QED
      BY <1>2, <3>1
  <2>3. cancelled' \in BOOLEAN /\ late' \in BOOLEAN
    BY <1>0, Zenon DEF TypeOK
  <2>4. /\ streamKey' \in Nat /\ lastNonce' \in Nat /\ failures' \in 0..Threshold
        /\ spoken' \in 0..3 /\ inbox' \in Seq(Message)
    BY <1>0, <1>1, Numbers
  <2>5. UNCHANGED peerVars
    BY <1>0, Zenon
  <2> QED
    BY <2>1, <2>2, <2>3, <2>4, <2>5, ViewerTypes, Zenon
<1>4. CASE /\ Returns(Steps[pc].fails)
           /\ Steps[pc].fails \in {"invalid code", "could not reach relay", "setting raw mode"}
  <2> DEFINE r == Steps[pc].fails
  <2>1. Returns(r) /\ r \in {"invalid code", "could not reach relay", "setting raw mode"}
    BY <1>4
  <2> HIDE DEF r
  <2>2. ReportIsTrue'
    BY <2>1 DEF ReportIsTrue, Returns
  <2> QED
    BY <1>0, <1>1, <1>3, <2>1, <2>2, ReturnKeeps
<1>5. CASE /\ pc' \in {"dial", "raw", "join"} /\ UNCHANGED result /\ conn' \in {"up", conn}
           /\ pc' = "dial" => pc = "start" /\ UNCHANGED conn
           /\ pc = "dial" \/ UNCHANGED conn
  <2>1. Progress'
    BY <1>0, <1>1, <1>5 DEF IInv, Progress, Done
  <2>2. pc' \notin Done
    BY <1>5 DEF Done
  <2>3. conn' = "down" <=> conn = "down"
    BY <1>0, <1>5 DEF IInv, Progress
  <2> QED
    BY <1>0, <1>3, <1>5, <2>1, <2>2, <2>3, GoesOn
<1> QED
  BY <1>2, <1>4, <1>5

\* The types after a step that changes neither keys nor messages said.
LEMMA OutsideTypes ==
    ASSUME TypeOK, pc' \in PC, result' \in Result, cancelled' \in BOOLEAN, late' \in BOOLEAN,
           conn' \in {"none", "up", "down", "closed"}, inbox' \in Seq(Message),
           UNCHANGED <<viewVars, spoken, peerVars>>
    PROVE  TypeOK'
<1>1. UNCHANGED <<streamKey, lastNonce, failures, spoken>> /\ UNCHANGED peerVars
  BY DEF viewVars
<1>2. /\ streamKey' \in Nat /\ lastNonce' \in Nat /\ failures' \in 0..Threshold
      /\ spoken' \in 0..3
  BY <1>1, Numbers
<1> QED
  BY <1>1, <1>2, ViewerTypes, Zenon

\* The types of the flags.
LEMMA Flags ==
    ASSUME TypeOK
    PROVE  /\ pc \in PC /\ result \in Result /\ cancelled \in BOOLEAN /\ late \in BOOLEAN
           /\ conn \in {"none", "up", "down", "closed"}
  BY Zenon DEF TypeOK, PC, Result

\* Recv fails: its context is done or the connection is down.
LEMMA RecvFailsIInv ==
    ASSUME TypeOK, IInv, RecvFails
    PROVE  TypeOK' /\ IInv'
<1>0. /\ pc \in Handshake \cup {"stream"} /\ pc \notin Done
      /\ CtxDone \/ conn = "down"
      /\ UNCHANGED <<cancelled, late, conn, viewVars, spoken, inbox, peerVars>>
  BY DEF RecvFails, Handshake, Done
<1>1. UNCHANGED <<answered, ended, lost, revoked, key, wrapped, due, sentKey, sealed, held,
                  sentNonce, unlucky, confirmA, genuine>>
  BY <1>0 DEF peerVars, sharerVars, keyVars
<1> DEFINE r == RecvError
<1>2. /\ r \in {"quit", "timeout", "connection lost", "failed"}
      /\ r = "quit" => CtxDone /\ pc = "stream"
      /\ r = "timeout" => CtxDone
      /\ r = "connection lost" => ~CtxDone
      /\ r = "failed" => ~CtxDone
  BY DEF RecvError
<1>3. pc' = "report" /\ result' = r /\ Returns(r)
  BY DEF RecvFails, Returns
<1> HIDE DEF r
<1>4. TypeOK'
  <2>1. pc' \in PC
    BY <1>3 DEF PC
  <2>2. result' \in Result
    BY <1>2, <1>3, Zenon DEF Result
  <2>3. /\ cancelled' \in BOOLEAN /\ late' \in BOOLEAN
        /\ conn' \in {"none", "up", "down", "closed"}
    BY <1>0, Flags, Zenon
  <2>4. inbox' \in Seq(Message)
    BY <1>0, Numbers
  <2>5. UNCHANGED <<viewVars, spoken, peerVars>>
    BY <1>0, Zenon
  <2> QED
    BY <2>1, <2>2, <2>3, <2>4, <2>5, OutsideTypes, Zenon
<1>5. ReportIsTrue'
  BY <1>0, <1>1, <1>2, <1>3 DEF ReportIsTrue, CtxDone, Handshake
<1> QED
  BY <1>0, <1>1, <1>2, <1>3, <1>4, <1>5, ReturnKeeps

\* The resize handler returns.
LEMMA ResizeIInv ==
    ASSUME TypeOK, IInv, ResizeHandled
    PROVE  TypeOK' /\ IInv'
<1>0. /\ pc = "resize" /\ pc' = "stream" /\ pc \notin Done /\ pc' \notin Done
      /\ UNCHANGED <<result, viewVars, inbox, peerVars, spoken, conn>>
      /\ UNCHANGED <<cancelled, late>>
  BY DEF ResizeHandled, Done
<1>1. TypeOK'
  <2>1. pc' \in PC
    BY <1>0 DEF PC
  <2>2. /\ cancelled' \in BOOLEAN /\ late' \in BOOLEAN /\ result' \in Result
        /\ conn' \in {"none", "up", "down", "closed"}
    BY <1>0, Flags, Zenon
  <2>3. inbox' \in Seq(Message)
    BY <1>0, Numbers
  <2>4. UNCHANGED <<viewVars, spoken, peerVars>>
    BY <1>0, Zenon
  <2> QED
    BY <2>1, <2>2, <2>3, <2>4, OutsideTypes, Zenon
<1>2. Progress'
  BY <1>0 DEF IInv, Progress, Done, viewVars, peerVars, sharerVars, keyVars
<1> QED
  BY <1>0, <1>1, <1>2, GoesOn

\* The process ends.
LEMMA ReportIInv ==
    ASSUME TypeOK, IInv, Report
    PROVE  TypeOK' /\ IInv'
<1>0. /\ pc = "report" /\ pc' = "exited"
      /\ conn' = IF conn = "up" THEN "closed" ELSE conn
      /\ inbox' = <<>>
      /\ UNCHANGED <<result, cancelled, late, viewVars, spoken, peerVars>>
  BY DEF Report
<1>1. UNCHANGED <<answered, ended, lost, revoked, key, wrapped, due, sentKey, sealed, held,
                  sentNonce, unlucky, confirmA, genuine, result, cancelled, late>>
  BY <1>0 DEF peerVars, sharerVars, keyVars
<1>2. TypeOK'
  <2>1. pc' \in PC
    BY <1>0 DEF PC
  <2>2. cancelled' \in BOOLEAN /\ late' \in BOOLEAN /\ result' \in Result
    BY <1>0, Flags, Zenon
  <2>3. conn' \in {"none", "up", "down", "closed"}
    BY <1>0, Flags
  <2>4. inbox' \in Seq(Message)
    BY <1>0
  <2>5. UNCHANGED <<viewVars, spoken, peerVars>>
    BY <1>0, Zenon
  <2> QED
    BY <2>1, <2>2, <2>3, <2>4, <2>5, OutsideTypes, Zenon
<1>3. Progress'
  BY <1>0, <1>1 DEF IInv, Progress, Done
<1>4. Notices'
  <2>1. Len(inbox') = 0
    BY <1>0
  <2> QED
    BY <2>1 DEF Notices
<1>5. HeldOK'
  BY <1>1 DEF IInv, HeldOK, IsFrame
<1>6. ReportIsTrue'
  <2>1. ReportIsTrue
    BY DEF IInv
  <2>2. (conn = "down" => conn' = "down") /\ (conn # "up" => conn' # "up") /\ conn' # "up"
    BY <1>0
  <2>3. (unlucky >= Threshold)' <=> unlucky >= Threshold
    BY <1>1
  <2> QED
    BY <1>1, <2>1, <2>2, <2>3, Zenon DEF ReportIsTrue, Refused
<1>7. FailuresAreUnlucky'
  BY <1>0, <1>1 DEF IInv, FailuresAreUnlucky, Done
<1> QED
  BY <1>0, <1>2, <1>3, <1>4, <1>5, <1>6, <1>7 DEF IInv, Answers, NoncesOK, Done

\* Ctrl-C, a signal or the 15 s of the handshake.
LEMMA ContextIInv ==
    ASSUME TypeOK, IInv, Interrupt \/ HandshakeDeadline
    PROVE  TypeOK' /\ IInv'
<1>0. /\ pc \notin Done
      /\ UNCHANGED <<conn, viewVars, spoken, inbox, peerVars>>
      /\ cancelled' \in BOOLEAN /\ late' \in BOOLEAN
      /\ \/ pc' = "exited" /\ result' = "killed"
         \/ UNCHANGED <<pc, result>>
  <2>1. cancelled \in BOOLEAN /\ late \in BOOLEAN
    BY Flags
  <2>2. CASE Interrupt
    BY <2>1, <2>2, Zenon DEF Interrupt, Done
  <2>3. CASE HandshakeDeadline
    BY <2>1, <2>3 DEF HandshakeDeadline, Handshake, Done
  <2> QED
    BY <2>2, <2>3
<1>1. UNCHANGED <<answered, ended, lost, revoked, key, wrapped, due, sentKey, sealed, held,
                  sentNonce, unlucky, confirmA, genuine, inbox, streamKey, lastNonce, failures>>
  BY <1>0 DEF peerVars, sharerVars, keyVars, viewVars
<1>2. TypeOK'
  <2>1. pc' \in PC /\ result' \in Result
    BY <1>0, Flags DEF PC, Result
  <2>3. conn' \in {"none", "up", "down", "closed"}
    BY <1>0, Flags
  <2>4. inbox' \in Seq(Message)
    BY <1>1, Numbers
  <2>5. UNCHANGED <<viewVars, spoken, peerVars>>
    BY <1>0, Zenon
  <2> QED
    BY <1>0, <2>1, <2>3, <2>4, <2>5, OutsideTypes, Zenon
<1>3. CASE pc' = "exited" /\ result' = "killed"
  <2>1. Progress'
    BY <1>1, <1>3 DEF IInv, Progress, Done
  <2>2. Notices' /\ HeldOK'
    BY <1>1 DEF IInv, Notices, HeldOK, IsFrame, Refused
  <2>3. ReportIsTrue'
    BY <1>3 DEF ReportIsTrue
  <2> QED
    BY <1>2, <1>3, <2>1, <2>2, <2>3 DEF IInv, Answers, NoncesOK, FailuresAreUnlucky, Done
<1>4. CASE UNCHANGED <<pc, result>>
  <2>1. Progress'
    BY <1>0, <1>1, <1>4 DEF IInv, Progress, Done
  <2>2. pc' \notin Done /\ UNCHANGED <<result, viewVars, inbox, peerVars, spoken>>
    BY <1>0, <1>4
  <2> QED
    BY <1>0, <1>2, <1>4, <2>1, <2>2, GoesOn
<1> QED
  BY <1>0, <1>3, <1>4

\* The connection breaks: the rest of the messages may never arrive.
LEMMA LostIInv ==
    ASSUME TypeOK, IInv, ConnectionLost
    PROVE  TypeOK' /\ IInv'
<1>0. /\ conn = "up" /\ result = "none" /\ conn' = "down" /\ pc \notin Done
      /\ UNCHANGED <<pc, result, cancelled, late, viewVars, spoken, peerVars>>
  BY DEF ConnectionLost, IInv, Progress
<1>1. UNCHANGED <<answered, ended, lost, revoked, key, wrapped, due, sentKey, sealed, held,
                  sentNonce, unlucky, confirmA, genuine, streamKey, lastNonce, failures, pc, result,
                  spoken>>
  BY <1>0 DEF peerVars, sharerVars, keyVars, viewVars
<1>2. PICK n \in 0..Len(inbox) : inbox' = SubSeq(inbox, 1, n)
  BY DEF ConnectionLost
<1>3. inbox \in Seq(Message)
  BY Numbers
<1>4. /\ inbox' \in Seq(Message) /\ Len(inbox') = n
      /\ \A i \in 1..n : inbox'[i] = inbox[i]
  BY <1>2, <1>3, Cut
<1>5. \A i \in 1..n : i \in 1..Len(inbox) /\ \A j \in 1..(i - 1) : j \in 1..n
  BY <1>3
<1>6. TypeOK'
  <2>1. pc' \in PC /\ result' \in Result /\ cancelled' \in BOOLEAN /\ late' \in BOOLEAN
    BY <1>0, Flags, Zenon
  <2>2. conn' \in {"none", "up", "down", "closed"}
    BY <1>0
  <2>3. UNCHANGED <<viewVars, spoken, peerVars>>
    BY <1>0, Zenon
  <2> QED
    BY <1>4, <2>1, <2>2, <2>3, OutsideTypes, Zenon
<1>7. Progress'
  BY <1>0, <1>1 DEF IInv, Progress, Done
<1>8. Notices'
  BY <1>1, <1>4, <1>5 DEF IInv, Notices, Refused
<1>9. HeldOK'
  BY <1>1 DEF IInv, HeldOK, IsFrame
<1>10. Answers'
  <2>1. /\ \A i \in 1..Len(inbox) : inbox[i].kind = "handshake" =>
             /\ (pc = "msgA" /\ answered = 2) \/ (pc = "confirmA" /\ answered = 3)
             /\ \A j \in 1..Len(inbox) : inbox[j].kind = "handshake" => i = j
        /\ \A i \in 1..Len(inbox) : IsKey(inbox[i]) => spoken = 3
        /\ pc = "delivery" => \A i \in 1..Len(inbox) : inbox[i].kind = "rekey" =>
             \E j \in 1..(i - 1) : inbox[j].kind = "delivery"
    BY <1>0 DEF IInv, Answers
  <2> QED
    BY <1>1, <1>4, <1>5, <2>1 DEF Answers, IsKey
<1>11. NoncesOK'
  <2>1. /\ lastNonce <= sentNonce
        /\ \A i \in 1..Len(inbox) : IsFrame(inbox[i]) =>
             /\ inbox[i].nonce <= sentNonce
             /\ \A f \in held : f.nonce # inbox[i].nonce
             /\ \A j \in 1..Len(inbox) : IsFrame(inbox[j]) /\ inbox[j].nonce = inbox[i].nonce
                  => i = j
    BY <1>0 DEF IInv, NoncesOK
  <2> QED
    BY <1>1, <1>4, <1>5, <2>1 DEF NoncesOK, IsFrame
<1>12. FailuresAreUnlucky'
  <2>1. PICK bad \in SUBSET (1..sealed) :
          failures + Cardinality(bad) <= unlucky /\ Opened(inbox, streamKey, lastNonce, bad)
    BY <1>0 DEF IInv, FailuresAreUnlucky, Failing
  <2>2. Opened(inbox', streamKey, lastNonce, bad)
    BY <1>2, <1>3, <2>1, OpenedCut
  <2>3. Failing'
    BY <1>1, <2>1, <2>2 DEF Failing
  <2> QED
    BY <1>0, <2>3 DEF FailuresAreUnlucky, InStep
<1>13. ReportIsTrue'
  BY <1>0 DEF ReportIsTrue
<1> QED
  BY <1>6, <1>7, <1>8, <1>9, <1>10, <1>11, <1>12, <1>13 DEF IInv

-----------------------------------------------------------------------------
\* The relay and the sharer.

\* What no step of a peer touches.
Own == <<pc, result, cancelled, late, conn, viewVars, spoken, confirmA, genuine>>

\* The types after a step of a peer.
LEMMA PeerTypes ==
    ASSUME TypeOK, UNCHANGED Own, inbox' \in Seq(Message),
           answered' \in 0..5, ended' \in BOOLEAN, lost' \in BOOLEAN, revoked' \in BOOLEAN,
           key' \in Nat, wrapped' \in 0..key', due' \in SUBSET (1..key'), sentKey' \in 0..key',
           sealed' \in Nat, held' \in SUBSET Frame, sentNonce' \in 0..sealed',
           unlucky' \in 0..sealed'
    PROVE  TypeOK'
<1>1. UNCHANGED <<pc, result, cancelled, late, conn, streamKey, lastNonce, failures, spoken,
                  confirmA, genuine>>
  BY DEF Own, viewVars
<1>2. pc' \in PC /\ result' \in Result /\ cancelled' \in BOOLEAN /\ late' \in BOOLEAN
  BY <1>1, Flags, Zenon
<1>3. /\ conn' \in {"none", "up", "down", "closed"} /\ genuine' \in BOOLEAN
      /\ confirmA' \in {"untyped", "skipped", "session-ended", "session-not-found"}
  BY <1>1, Zenon DEF TypeOK
<1>4. streamKey' \in Nat /\ lastNonce' \in Nat /\ failures' \in 0..Threshold /\ spoken' \in 0..3
  BY <1>1, Numbers, Zenon
<1> QED
  BY <1>2, <1>3, <1>4, Zenon DEF TypeOK, PC, Result

\* A message of the relay or the sharer and what it says.
LEMMA SendNotices ==
    ASSUME TypeOK, IInv, NEW m \in Message, Sends(m), ended => ended',
           answered = Refused => answered' = Refused,
           m.kind = "session-ended" => ended',
           m.kind \in {"session-not-found", "session-full"} => answered' = Refused
    PROVE  Notices'
<1>1. /\ Len(inbox) \in Nat /\ Len(inbox') = Len(inbox) + 1 /\ inbox'[Len(inbox) + 1] = m
      /\ \A i \in 1..Len(inbox) : inbox'[i] = inbox[i]
  BY Numbers, Appended DEF Sends
<1>2. \A i \in 1..Len(inbox) :
        /\ inbox[i].kind = "session-ended" => ended
        /\ inbox[i].kind \in {"session-not-found", "session-full"} => answered = Refused
  BY DEF IInv, Notices
<1> SUFFICES ASSUME NEW i \in 1..Len(inbox')
             PROVE  /\ inbox'[i].kind = "session-ended" => ended'
                    /\ inbox'[i].kind \in {"session-not-found", "session-full"} =>
                         answered' = Refused
  BY DEF Notices, Refused
<1>3. CASE i \in 1..Len(inbox)
  BY <1>1, <1>2, <1>3
<1>4. CASE i = Len(inbox) + 1
  BY <1>1, <1>4
<1> QED
  BY <1>1, <1>3, <1>4

\* A message of the handshake, or a key, comes when it is due.
LEMMA SendAnswers ==
    ASSUME TypeOK, IInv, pc \notin Done, NEW m \in Message, Sends(m), UNCHANGED <<pc, spoken>>,
           answered' = answered \/ \A i \in 1..Len(inbox) : inbox[i].kind # "handshake",
           m.kind = "handshake" =>
               /\ \A i \in 1..Len(inbox) : inbox[i].kind # "handshake"
               /\ (pc = "msgA" /\ answered' = 2) \/ (pc = "confirmA" /\ answered' = 3),
           IsKey(m) => spoken = 3,
           m.kind = "rekey" /\ pc = "delivery" =>
               \E j \in 1..Len(inbox) : inbox[j].kind = "delivery"
    PROVE  Answers'
<1> DEFINE q == inbox
           r == inbox'
<1>1. /\ Len(q) \in Nat /\ Len(r) = Len(q) + 1 /\ r[Len(q) + 1] = m
      /\ \A i \in 1..Len(q) : r[i] = q[i]
      /\ \A i \in 1..Len(r) : i \in 1..Len(q) \/ i = Len(q) + 1
  BY Numbers, Appended DEF Sends
<1>2. /\ \A i \in 1..Len(q) : q[i].kind = "handshake" =>
           /\ (pc = "msgA" /\ answered = 2) \/ (pc = "confirmA" /\ answered = 3)
           /\ \A j \in 1..Len(q) : q[j].kind = "handshake" => i = j
      /\ \A i \in 1..Len(q) : IsKey(q[i]) => spoken = 3
      /\ pc = "delivery" => \A i \in 1..Len(q) : q[i].kind = "rekey" =>
           \E j \in 1..(i - 1) : q[j].kind = "delivery"
  BY DEF IInv, Answers
<1> HIDE DEF q, r
<1>3. ASSUME NEW i \in 1..Len(r), r[i].kind = "handshake"
      PROVE  /\ (pc = "msgA" /\ answered' = 2) \/ (pc = "confirmA" /\ answered' = 3)
             /\ \A j \in 1..Len(r) : r[j].kind = "handshake" => i = j
  BY <1>1, <1>2, <1>3 DEF q
<1>4. \A i \in 1..Len(r) : IsKey(r[i]) => spoken = 3
  BY <1>1, <1>2
<1>5. ASSUME pc = "delivery", NEW i \in 1..Len(r), r[i].kind = "rekey"
      PROVE  \E j \in 1..(i - 1) : r[j].kind = "delivery"
  <2>1. CASE i \in 1..Len(q)
    <3>1. PICK j \in 1..(i - 1) : q[j].kind = "delivery"
      BY <1>1, <1>2, <1>5, <2>1
    <3>2. j \in 1..Len(q)
      BY <1>1, <2>1
    <3> QED
      BY <1>1, <3>1, <3>2
  <2>2. CASE i = Len(q) + 1
    <3>1. PICK j \in 1..Len(q) : q[j].kind = "delivery"
      BY <1>1, <1>5, <2>2 DEF q
    <3> QED
      BY <1>1, <2>2, <3>1
  <2> QED
    BY <1>1, <2>1, <2>2
<1> QED
  BY <1>3, <1>4, <1>5 DEF Answers, r, IsKey

\* The last key under way stays the one sent last.
LEMMA SendInStep ==
    ASSUME TypeOK, IInv, pc \notin Done, conn = "up", NEW m \in Message, Sends(m),
           UNCHANGED <<conn, streamKey>>,
           IF IsKey(m) THEN sentKey' = m.key ELSE sentKey' = sentKey
    PROVE  InStep'
<1>1. /\ Len(inbox) \in Nat /\ Len(inbox') = Len(inbox) + 1 /\ inbox'[Len(inbox) + 1] = m
      /\ \A i \in 1..Len(inbox) : inbox'[i] = inbox[i]
  BY Numbers, Appended DEF Sends
<1>2. KeyInForce(inbox, streamKey, Len(inbox) + 1, sentKey)
  BY DEF IInv, FailuresAreUnlucky, InStep
<1>3. KeyInForce(inbox', streamKey, Len(inbox) + 1, sentKey)
  <2>1. Len(inbox) + 1 \in Nat /\ \A j \in 1..((Len(inbox) + 1) - 1) : inbox'[j] = inbox[j]
    BY <1>1
  <2> QED
    BY <1>2, <2>1, SameKey
<1>4. KeyInForce(inbox', streamKey, (Len(inbox) + 1) + 1, sentKey')
  <2>1. Len(inbox) + 1 \in Nat \ {0}
    BY <1>1
  <2>2. IF IsKey(inbox'[Len(inbox) + 1]) THEN sentKey' = inbox'[Len(inbox) + 1].key
                                         ELSE sentKey' = sentKey
    BY <1>1
  <2> QED
    BY <1>3, <2>1, <2>2, NextKey
<1> QED
  BY <1>1, <1>4 DEF InStep

\* A message that is not a frame leaves the frames as they are.
LEMMA SendKeeps ==
    ASSUME TypeOK, IInv, pc \notin Done, conn = "up", NEW m \in Message, Sends(m), ~IsFrame(m),
           UNCHANGED Own, UNCHANGED <<sealed, held, sentNonce, unlucky>>,
           IF IsKey(m) THEN sentKey' = m.key ELSE sentKey' = sentKey
    PROVE  HeldOK' /\ NoncesOK' /\ FailuresAreUnlucky' /\ ReportIsTrue'
<1>0. /\ UNCHANGED <<pc, result, conn, streamKey, lastNonce, failures, confirmA>>
      /\ result = "none"
  BY DEF Own, viewVars, IInv, Progress
<1>1. /\ inbox \in Seq(Message) /\ inbox' = Append(inbox, m)
      /\ Len(inbox) \in Nat /\ Len(inbox') = Len(inbox) + 1 /\ inbox'[Len(inbox) + 1] = m
      /\ \A i \in 1..Len(inbox) : inbox'[i] = inbox[i]
      /\ \A i \in 1..Len(inbox') : i \in 1..Len(inbox) \/ i = Len(inbox) + 1
  BY Numbers, Appended DEF Sends
<1>2. HeldOK'
  BY DEF IInv, HeldOK, IsFrame
<1>3. NoncesOK'
  <2>1. /\ lastNonce <= sentNonce
        /\ \A i \in 1..Len(inbox) : IsFrame(inbox[i]) =>
             /\ inbox[i].nonce <= sentNonce
             /\ \A f \in held : f.nonce # inbox[i].nonce
             /\ \A j \in 1..Len(inbox) : IsFrame(inbox[j]) /\ inbox[j].nonce = inbox[i].nonce
                  => i = j
    BY DEF IInv, NoncesOK
  <2>2. \A i \in 1..Len(inbox') : IsFrame(inbox'[i]) => i \in 1..Len(inbox) /\ inbox'[i] = inbox[i]
    BY <1>1
  <2>3. /\ lastNonce' <= sentNonce'
        /\ \A i \in 1..Len(inbox') : IsFrame(inbox'[i]) =>
             /\ inbox'[i].nonce <= sentNonce'
             /\ \A f \in held' : f.nonce # inbox'[i].nonce
             /\ \A j \in 1..Len(inbox') : IsFrame(inbox'[j]) /\ inbox'[j].nonce = inbox'[i].nonce
                  => i = j
    BY <1>0, <2>1, <2>2
  <2> QED
    BY <2>3 DEF NoncesOK, IsFrame
<1>4. FailuresAreUnlucky'
  <2>1. PICK bad \in SUBSET (1..sealed) :
          failures + Cardinality(bad) <= unlucky /\ Opened(inbox, streamKey, lastNonce, bad)
    BY DEF IInv, FailuresAreUnlucky, Failing
  <2>2. m.kind # "stream"
    BY DEF IsFrame
  <2>3. Opened(inbox', streamKey, lastNonce, bad)
    BY <1>1, <2>1, <2>2, OpenedAppend
  <2>4. Failing'
    BY <1>0, <2>1, <2>3 DEF Failing
  <2>5. InStep'
    BY <1>0, SendInStep
  <2> QED
    BY <1>0, <2>4, <2>5 DEF FailuresAreUnlucky
<1>5. ReportIsTrue'
  BY <1>0 DEF ReportIsTrue
<1> QED
  BY <1>2, <1>3, <1>4, <1>5

\* What every step of a peer finds and leaves alone.
LEMMA PeerFrame ==
    ASSUME TypeOK, IInv, Peers
    PROVE  /\ UNCHANGED Own
           /\ UNCHANGED <<pc, result, cancelled, late, conn, streamKey, lastNonce, failures,
                          spoken, confirmA, genuine>>
           /\ conn = "up" /\ result = "none" /\ pc \notin Done
<1>1. UNCHANGED Own /\ conn = "up" /\ result = "none"
  BY DEF Peers, Own
<1>2. pc \notin Done
  BY <1>1 DEF IInv, Progress
<1> QED
  BY <1>1, <1>2 DEF Own, viewVars

\* The handshake messages under way, before the viewer is done.
LEMMA NoHandshake ==
    ASSUME IInv, pc \notin Done, answered \notin {2, 3} \/ spoken \notin {1, 2}
                                 \/ answered = spoken
    PROVE  \A i \in 1..Len(inbox) : inbox[i].kind # "handshake"
  BY DEF IInv, Answers, Progress

\* handleWatch answers.
LEMMA RelayAnswersIInv ==
    ASSUME TypeOK, IInv, Peers, RelayAnswers
    PROVE  TypeOK' /\ IInv'
<1>0. /\ UNCHANGED Own /\ conn = "up" /\ result = "none" /\ pc \notin Done
      /\ UNCHANGED <<pc, result, cancelled, late, conn, streamKey, lastNonce, failures, spoken,
                     confirmA, genuine>>
  BY PeerFrame
<1>1. /\ answered = 0 /\ answered' \in {1, Refused}
      /\ UNCHANGED <<ended, lost, revoked, key, wrapped, due, sentKey, sealed, held, sentNonce,
                     unlucky>>
  BY DEF RelayAnswers, keyVars
<1>2. PICK m \in [kind : {"join-ack", "session-not-found", "session-full"}] :
        Sends(m) /\ (m.kind # "join-ack" => answered' = Refused)
  BY DEF RelayAnswers
<1>3. m \in Message /\ ~IsFrame(m) /\ ~IsKey(m) /\ m.kind \notin {"handshake", "session-ended"}
  BY DEF Message, IsFrame, IsKey
<1>4. inbox' \in Seq(Message)
  BY <1>2, <1>3, Numbers, Appended DEF Sends
<1>5. TypeOK'
  <2>1. answered' \in 0..5
    BY <1>1 DEF Refused
  <2>2. /\ ended' \in BOOLEAN /\ lost' \in BOOLEAN /\ revoked' \in BOOLEAN
        /\ key' \in Nat /\ wrapped' \in 0..key' /\ due' \in SUBSET (1..key')
        /\ sentKey' \in 0..key' /\ sealed' \in Nat /\ held' \in SUBSET Frame
        /\ sentNonce' \in 0..sealed' /\ unlucky' \in 0..sealed'
    BY <1>1, Zenon DEF TypeOK
  <2> QED
    BY <1>0, <1>4, <2>1, <2>2, PeerTypes, Zenon
<1>6. Progress'
  BY <1>0, <1>1 DEF IInv, Progress, Done, Refused
<1>7. Notices'
  BY <1>1, <1>2, <1>3, SendNotices DEF Refused
<1>8. Answers'
  <2>1. \A i \in 1..Len(inbox) : inbox[i].kind # "handshake"
    BY <1>0, <1>1, NoHandshake
  <2> QED
    BY <1>0, <1>2, <1>3, <2>1, SendAnswers
<1>9. HeldOK' /\ NoncesOK' /\ FailuresAreUnlucky' /\ ReportIsTrue'
  BY <1>0, <1>1, <1>2, <1>3, SendKeeps
<1> QED
  BY <1>5, <1>6, <1>7, <1>8, <1>9 DEF IInv

\* handleSPAKE2 answers msg_a or confirm_a.
LEMMA SharerAnswersIInv ==
    ASSUME TypeOK, IInv, Peers, SharerAnswers
    PROVE  TypeOK' /\ IInv'
<1>0. /\ UNCHANGED Own /\ conn = "up" /\ result = "none" /\ pc \notin Done
      /\ UNCHANGED <<pc, result, cancelled, late, conn, streamKey, lastNonce, failures, spoken,
                     confirmA, genuine>>
  BY PeerFrame
<1> DEFINE m == [kind |-> "handshake", key |-> 0]
<1>1. /\ answered \in 1..spoken /\ answered < 3 /\ answered' = answered + 1 /\ Sends(m)
      /\ UNCHANGED <<ended, lost, revoked, key, wrapped, due, sentKey, sealed, held, sentNonce,
                     unlucky>>
      /\ spoken \in 0..3
  BY Numbers DEF SharerAnswers, keyVars
<1>2. m.kind = "handshake"
  OBVIOUS
<1>3. m \in Message /\ ~IsFrame(m) /\ ~IsKey(m)
  BY DEF Message, IsFrame, IsKey
<1> HIDE DEF m
<1>4. inbox' \in Seq(Message)
  BY <1>1, <1>3, Numbers, Appended DEF Sends
<1>5. TypeOK'
  <2>1. answered' \in 0..5
    BY <1>1
  <2>2. /\ ended' \in BOOLEAN /\ lost' \in BOOLEAN /\ revoked' \in BOOLEAN
        /\ key' \in Nat /\ wrapped' \in 0..key' /\ due' \in SUBSET (1..key')
        /\ sentKey' \in 0..key' /\ sealed' \in Nat /\ held' \in SUBSET Frame
        /\ sentNonce' \in 0..sealed' /\ unlucky' \in 0..sealed'
    BY <1>1, Zenon DEF TypeOK
  <2> QED
    BY <1>0, <1>4, <2>1, <2>2, PeerTypes, Zenon
<1>6. Progress'
  BY <1>0, <1>1 DEF IInv, Progress, Done
<1>7. Notices'
  <2>1. answered # Refused
    BY <1>1 DEF Refused
  <2> QED
    BY <1>1, <1>2, <1>3, <2>1, SendNotices
<1>8. Answers'
  <2>0. /\ pc = "msgA" => spoken = 1
        /\ pc = "confirmA" => spoken = 2 /\ answered >= 2
        /\ pc \in {"start", "dial", "raw", "join"} => spoken = 0
        /\ pc \in {"delivery", "stream", "resize"} => spoken = 3 /\ answered >= 3
        /\ pc \in PC
    BY Flags DEF IInv, Progress
  <2>1. \A i \in 1..Len(inbox) : inbox[i].kind # "handshake"
    BY <1>0, <1>1, <2>0, NoHandshake DEF PC, Handshake, Done
  <2>2. (pc = "msgA" /\ answered' = 2) \/ (pc = "confirmA" /\ answered' = 3)
    BY <1>0, <1>1, <2>0 DEF PC, Handshake, Done
  <2> QED
    BY <1>0, <1>1, <1>2, <1>3, <2>1, <2>2, SendAnswers
<1>9. HeldOK' /\ NoncesOK' /\ FailuresAreUnlucky' /\ ReportIsTrue'
  BY <1>0, <1>1, <1>2, <1>3, SendKeeps
<1> QED
  BY <1>5, <1>6, <1>7, <1>8, <1>9 DEF IInv

\* A step of the sharer that sends nothing and only concerns its keys.
LEMMA KeysOnly ==
    ASSUME TypeOK, IInv, Peers,
           UNCHANGED <<inbox, answered, ended, lost, sentKey, sealed, held, sentNonce, unlucky>>,
           revoked \in BOOLEAN => revoked' \in BOOLEAN, key' \in Nat, key' >= key,
           wrapped' \in 0..key', due' \in SUBSET (1..key'),
           wrapped' # 0 => wrapped # 0 \/ spoken = 3,
           revoked => revoked'
    PROVE  TypeOK' /\ IInv'
<1>0. /\ UNCHANGED Own /\ conn = "up" /\ result = "none" /\ pc \notin Done
      /\ UNCHANGED <<pc, result, cancelled, late, conn, streamKey, lastNonce, failures, spoken,
                     confirmA, genuine>>
  BY PeerFrame
<1>1. TypeOK'
  <2>1. sentKey' \in 0..key' /\ revoked' \in BOOLEAN
    <3>1. sentKey \in 0..key /\ key \in Nat /\ revoked \in BOOLEAN
      BY Zenon DEF TypeOK
    <3> QED
      BY <3>1
  <2>2. /\ inbox' \in Seq(Message) /\ answered' \in 0..5 /\ ended' \in BOOLEAN
        /\ lost' \in BOOLEAN /\ sealed' \in Nat /\ held' \in SUBSET Frame
        /\ sentNonce' \in 0..sealed' /\ unlucky' \in 0..sealed'
    BY Zenon DEF TypeOK
  <2> QED
    BY <1>0, <2>1, <2>2, PeerTypes, Zenon
<1>2. Progress'
  BY <1>0, Numbers DEF IInv, Progress, Done
<1>3. Notices' /\ Answers'
  BY <1>0 DEF IInv, Notices, Answers, Done, IsKey, Refused
<1>4. HeldOK' /\ NoncesOK'
  BY <1>0 DEF IInv, HeldOK, NoncesOK, Done, IsFrame
<1>5. InStep' /\ Failing'
  <2>1. InStep /\ Failing
    BY <1>0 DEF IInv, FailuresAreUnlucky
  <2>2. UNCHANGED <<conn, inbox, streamKey, sentKey, sealed, failures, unlucky, lastNonce>>
    BY <1>0
  <2> QED
    BY <2>1, <2>2 DEF InStep, Failing, KeyInForce, Opened, IsKey, IsFrame
<1>6. FailuresAreUnlucky' /\ ReportIsTrue'
  BY <1>0, <1>5 DEF FailuresAreUnlucky, ReportIsTrue
<1> QED
  BY <1>1, <1>2, <1>3, <1>4, <1>6 DEF IInv

\* The key is sealed for the viewer.
LEMMA RegisterViewerIInv ==
    ASSUME TypeOK, IInv, Peers, RegisterViewer
    PROVE  TypeOK' /\ IInv'
<1>1. /\ wrapped' = key /\ spoken = 3 /\ key \in Nat /\ due \in SUBSET (1..key)
      /\ UNCHANGED <<inbox, answered, ended, lost, revoked, key, due, sentKey, sealed, held,
                     sentNonce, unlucky>>
  BY DEF RegisterViewer, TypeOK
<1> QED
  BY <1>1, KeysOnly

\* Revoke changes the key before anyone is told.
LEMMA SharerRevokesIInv ==
    ASSUME TypeOK, IInv, Peers, SharerRevokes
    PROVE  TypeOK' /\ IInv'
<1>0. key \in Nat /\ wrapped \in 0..key /\ due \in SUBSET (1..key) /\ revoked \in BOOLEAN
  BY Zenon DEF TypeOK
<1>1. /\ key' = key + 1
      /\ revoked' \in BOOLEAN /\ (revoked => revoked') /\ due' \in SUBSET (due \cup {key + 1})
      /\ UNCHANGED <<inbox, answered, ended, lost, wrapped, sentKey, sealed, held, sentNonce,
                     unlucky>>
  BY <1>0 DEF SharerRevokes
<1>2. wrapped' \in 0..key' /\ due' \in SUBSET (1..key') /\ key' \in Nat /\ key' >= key
  BY <1>0, <1>1
<1> QED
  BY <1>1, <1>2, KeysOnly

\* A key is sent under which frames will be opened: the delivery, or a rekey
\* that has the delivery before it.
LEMMA KeySent ==
    ASSUME TypeOK, IInv, Peers, NEW m \in Message, IsKey(m), Sends(m), sentKey' = m.key,
           m.key \in 1..key, spoken = 3, due' \in SUBSET due,
           answered = answered' \/ (answered = 3 /\ answered' = 4),
           m.kind = "rekey" => answered = 4,
           UNCHANGED <<ended, lost, revoked, key, wrapped, sealed, held, sentNonce, unlucky>>
    PROVE  TypeOK' /\ IInv'
<1>0. /\ UNCHANGED Own /\ conn = "up" /\ result = "none" /\ pc \notin Done
      /\ UNCHANGED <<pc, result, cancelled, late, conn, streamKey, lastNonce, failures, spoken,
                     confirmA, genuine>>
  BY PeerFrame
<1>1. /\ ~IsFrame(m) /\ m.kind \in {"delivery", "rekey"} /\ key \in Nat
      /\ m.kind \notin {"handshake", "session-ended", "session-not-found", "session-full"}
  BY Numbers DEF IsKey, IsFrame
<1>2. inbox' \in Seq(Message)
  BY Numbers, Appended DEF Sends
<1>3. TypeOK'
  <2>1. answered' \in 0..5 /\ sentKey' \in 0..key' /\ due' \in SUBSET (1..key')
    <3>1. due \in SUBSET (1..key) /\ key \in Nat /\ answered \in 0..5
      BY Zenon DEF TypeOK
    <3> QED
      BY <3>1
  <2>2. /\ ended' \in BOOLEAN /\ lost' \in BOOLEAN /\ revoked' \in BOOLEAN
        /\ key' \in Nat /\ wrapped' \in 0..key' /\ sealed' \in Nat /\ held' \in SUBSET Frame
        /\ sentNonce' \in 0..sealed' /\ unlucky' \in 0..sealed'
    BY Zenon DEF TypeOK
  <2> QED
    BY <1>0, <1>2, <2>1, <2>2, PeerTypes, Zenon
<1>4. Progress'
  BY <1>0, <1>1 DEF IInv, Progress, Done
<1>5. Notices'
  BY <1>1, SendNotices DEF Refused
<1>6. Answers'
  <2>1. ASSUME m.kind = "rekey", pc = "delivery"
        PROVE  \E j \in 1..Len(inbox) : inbox[j].kind = "delivery"
    <3>1. streamKey = 0 /\ Len(inbox) \in Nat /\ sentKey >= 1
      BY <2>1, Numbers DEF IInv, Progress, Done
    <3>2. KeyInForce(inbox, streamKey, Len(inbox) + 1, sentKey)
      BY <1>0 DEF IInv, FailuresAreUnlucky, InStep
    <3>3. PICK j \in 1..Len(inbox) : IsKey(inbox[j])
      BY <3>1, <3>2 DEF KeyInForce
    <3>4. CASE inbox[j].kind = "rekey"
      <4>1. PICK l \in 1..(j - 1) : inbox[l].kind = "delivery"
        BY <1>0, <2>1, <3>4 DEF IInv, Answers
      <4> QED
        BY <3>1, <4>1
    <3> QED
      BY <3>3, <3>4 DEF IsKey
  <2>2. ASSUME answered' # answered
        PROVE  \A i \in 1..Len(inbox) : inbox[i].kind # "handshake"
    <3>1. answered = 3 /\ spoken = 3
      BY <2>2
    <3> QED
      BY <1>0, <3>1, NoHandshake
  <2> QED
    BY <1>0, <1>1, <2>1, <2>2, SendAnswers
<1>7. HeldOK' /\ NoncesOK' /\ FailuresAreUnlucky' /\ ReportIsTrue'
  BY <1>0, <1>1, SendKeeps
<1> QED
  BY <1>3, <1>4, <1>5, <1>6, <1>7 DEF IInv

\* The key that RegisterViewer has sealed is sent.
LEMMA SharerDeliversIInv ==
    ASSUME TypeOK, IInv, Peers, SharerDelivers
    PROVE  TypeOK' /\ IInv'
<1> DEFINE m == [kind |-> "delivery", key |-> wrapped]
<1>1. /\ answered = 3 /\ wrapped # 0 /\ answered' = 4 /\ Sends(m) /\ sentKey' = wrapped
      /\ wrapped \in 0..key /\ key \in Nat
      /\ UNCHANGED <<ended, lost, revoked, key, wrapped, due, sealed, held, sentNonce, unlucky>>
  BY DEF SharerDelivers, TypeOK
<1>2. spoken = 3
  BY <1>1, PeerFrame DEF IInv, Progress
<1>3. /\ m \in Message /\ IsKey(m) /\ m.kind # "rekey" /\ m.key = wrapped
      /\ m.key \in 1..key
  BY <1>1 DEF Message, IsKey
<1> HIDE DEF m
<1> QED
  BY <1>1, <1>2, <1>3, KeySent

\* The new key after a revocation is sent, or not.
LEMMA SharerSendsRekeyIInv ==
    ASSUME TypeOK, IInv, Peers, NEW k \in due, SharerSendsRekey(k)
    PROVE  TypeOK' /\ IInv'
<1> DEFINE m == [kind |-> "rekey", key |-> k]
<1>1. /\ due' = due \ {k} /\ due \in SUBSET (1..key) /\ key \in Nat /\ wrapped \in 0..key
      /\ UNCHANGED <<answered, ended, lost, revoked, key, wrapped, sealed, held, sentNonce,
                     unlucky>>
  BY DEF SharerSendsRekey, TypeOK
<1>2. CASE answered = 4 /\ Sends(m) /\ sentKey' = k
  <2>1. spoken = 3
    BY <1>2, PeerFrame DEF IInv, Progress
  <2>2. m \in Message /\ IsKey(m) /\ m.key = k /\ m.key \in 1..key
    BY <1>1 DEF Message, IsKey
  <2> HIDE DEF m
  <2> QED
    BY <1>1, <1>2, <2>1, <2>2, KeySent
<1>3. CASE UNCHANGED <<inbox, sentKey>>
  <2>1. due' \in SUBSET (1..key') /\ wrapped' \in 0..key' /\ key' \in Nat /\ key' >= key
    BY <1>1
  <2> QED
    BY <1>1, <1>3, <2>1, KeysOnly
<1> QED
  BY <1>2, <1>3 DEF SharerSendsRekey

\* The sharer is gone.
LEMMA SharerEndsIInv ==
    ASSUME TypeOK, IInv, Peers, SharerEnds
    PROVE  TypeOK' /\ IInv'
<1>0. /\ UNCHANGED Own /\ conn = "up" /\ result = "none" /\ pc \notin Done
      /\ UNCHANGED <<pc, result, cancelled, late, conn, streamKey, lastNonce, failures, spoken,
                     confirmA, genuine>>
  BY PeerFrame
<1> DEFINE m == [kind |-> "session-ended"]
<1>1. /\ ended' = TRUE /\ lost' \in BOOLEAN /\ Sends(m)
      /\ UNCHANGED <<answered, revoked, key, wrapped, due, sentKey, sealed, held, sentNonce,
                     unlucky>>
  BY DEF SharerEnds, keyVars
<1>3. m \in Message /\ ~IsFrame(m) /\ ~IsKey(m) /\ m.kind = "session-ended"
  BY DEF Message, IsFrame, IsKey
<1> HIDE DEF m
<1>4. inbox' \in Seq(Message)
  BY <1>1, <1>3, Numbers, Appended DEF Sends
<1>5. TypeOK'
  <2>1. ended' \in BOOLEAN /\ lost' \in BOOLEAN
    BY <1>1
  <2>2. /\ answered' \in 0..5 /\ revoked' \in BOOLEAN
        /\ key' \in Nat /\ wrapped' \in 0..key' /\ due' \in SUBSET (1..key')
        /\ sentKey' \in 0..key' /\ sealed' \in Nat /\ held' \in SUBSET Frame
        /\ sentNonce' \in 0..sealed' /\ unlucky' \in 0..sealed'
    BY <1>1, Zenon DEF TypeOK
  <2> QED
    BY <1>0, <1>4, <2>1, <2>2, PeerTypes, Zenon
<1>6. Progress'
  BY <1>0, <1>1 DEF IInv, Progress, Done
<1>7. Notices'
  BY <1>1, <1>3, SendNotices DEF Refused
<1>8. Answers'
  BY <1>0, <1>1, <1>3, SendAnswers
<1>9. HeldOK' /\ NoncesOK' /\ FailuresAreUnlucky' /\ ReportIsTrue'
  BY <1>0, <1>1, <1>3, SendKeeps
<1> QED
  BY <1>5, <1>6, <1>7, <1>8, <1>9 DEF IInv

\* A frame is sealed under the next nonce.
LEMMA SharerSealsIInv ==
    ASSUME TypeOK, IInv, Peers, NEW kind \in {"stream", "size"}, SharerSeals(kind)
    PROVE  TypeOK' /\ IInv'
<1>0. /\ UNCHANGED Own /\ conn = "up" /\ result = "none" /\ pc \notin Done
      /\ UNCHANGED <<pc, result, cancelled, late, conn, streamKey, lastNonce, failures, spoken,
                     confirmA, genuine>>
  BY PeerFrame
<1> DEFINE g == [kind |-> kind, nonce |-> sealed + 1, key |-> key, expired |-> FALSE]
<1>1. /\ sealed' = sealed + 1 /\ held' = held \cup {g} /\ \A f \in held : f.kind # kind
      /\ UNCHANGED <<inbox, answered, ended, lost, revoked, key, wrapped, due, sentKey, sentNonce,
                     unlucky>>
  BY DEF SharerSeals, keyVars
<1>2. /\ sealed \in Nat /\ key \in Nat /\ sentNonce \in Nat /\ unlucky \in Nat
      /\ held \in SUBSET Frame /\ inbox \in Seq(Message) /\ lastNonce \in Nat
  BY Numbers
<1>3. g \in Frame /\ IsFrame(g) /\ g.nonce = sealed + 1 /\ g.kind = kind
  BY <1>2 DEF Frame, IsFrame
<1> HIDE DEF g
<1>4. /\ sentNonce <= sealed /\ unlucky <= sealed
      /\ \A f \in held : IsFrame(f) /\ f.nonce \in 1..sealed /\ f.nonce # sentNonce
      /\ \A f, h \in held : f.kind = h.kind \/ f.nonce = h.nonce => f = h
  <2>1. unlucky \in 0..sealed
    BY Zenon DEF TypeOK
  <2>2. HeldOK
    BY DEF IInv
  <2>3. unlucky <= sealed
    BY <1>2, <2>1
  <2> QED
    BY <2>2, <2>3, Zenon DEF HeldOK
<1>5. TypeOK'
  <2>1. /\ sealed' \in Nat /\ held' \in SUBSET Frame /\ sentNonce' \in 0..sealed'
        /\ unlucky' \in 0..sealed'
    BY <1>1, <1>2, <1>3, <1>4
  <2>2. /\ inbox' \in Seq(Message) /\ answered' \in 0..5 /\ ended' \in BOOLEAN
        /\ lost' \in BOOLEAN /\ revoked' \in BOOLEAN /\ key' \in Nat
        /\ wrapped' \in 0..key' /\ due' \in SUBSET (1..key') /\ sentKey' \in 0..key'
    BY <1>1, Zenon DEF TypeOK
  <2> QED
    BY <1>0, <2>1, <2>2, PeerTypes, Zenon
<1>6. Progress'
  BY <1>0, <1>1 DEF IInv, Progress, Done
<1>7. Notices' /\ Answers'
  BY <1>0, <1>1 DEF IInv, Notices, Answers, Done, IsKey, Refused
<1>8. HeldOK'
  <2>1. \A f \in held' : IsFrame(f) /\ f.nonce \in 1..sealed' /\ f.nonce # sentNonce'
    BY <1>1, <1>2, <1>3, <1>4
  <2>2. \A f \in held : f.kind # g.kind /\ f.nonce # g.nonce
    BY <1>1, <1>2, <1>3, <1>4
  <2>3. \A f, h \in held' : f.kind = h.kind \/ f.nonce = h.nonce => f = h
    BY <1>1, <1>4, <2>2
  <2>4. /\ sentNonce' <= sealed'
        /\ unlucky' + (IF \E f \in held' : f.kind = "stream" THEN 1 ELSE 0) <= sealed'
    BY <1>1, <1>2, <1>4
  <2> QED
    BY <2>1, <2>3, <2>4 DEF HeldOK, IsFrame
<1>9. NoncesOK'
  <2>1. /\ lastNonce <= sentNonce
        /\ \A i \in 1..Len(inbox) : IsFrame(inbox[i]) =>
             /\ inbox[i].nonce <= sentNonce
             /\ \A f \in held : f.nonce # inbox[i].nonce
             /\ \A j \in 1..Len(inbox) : IsFrame(inbox[j]) /\ inbox[j].nonce = inbox[i].nonce
                  => i = j
    BY <1>0 DEF IInv, NoncesOK
  <2>2. ASSUME NEW i \in 1..Len(inbox), IsFrame(inbox[i]), NEW f \in held'
        PROVE  f.nonce # inbox[i].nonce
    <3>1. inbox[i] \in Message
      BY <1>2
    <3>2. inbox[i].nonce \in Nat /\ inbox[i].nonce <= sentNonce
      BY <2>1, <2>2, <3>1, Fields
    <3> QED
      BY <1>1, <1>2, <1>3, <1>4, <2>1, <2>2, <3>2
  <2> QED
    BY <1>0, <1>1, <2>1, <2>2 DEF NoncesOK, IsFrame
<1>10. InStep' /\ Failing'
  <2>1. InStep
    BY <1>0 DEF IInv, FailuresAreUnlucky
  <2>2. UNCHANGED <<conn, inbox, streamKey, sentKey, failures, unlucky, lastNonce>>
    BY <1>0, <1>1
  <2>3. InStep'
    BY <2>1, <2>2 DEF InStep, KeyInForce, IsKey
  <2>4. PICK bad \in SUBSET (1..sealed) :
          failures + Cardinality(bad) <= unlucky /\ Opened(inbox, streamKey, lastNonce, bad)
    BY <1>0 DEF IInv, FailuresAreUnlucky, Failing
  <2>5. bad \in SUBSET (1..sealed')
    BY <1>1, <1>2
  <2> QED
    BY <2>2, <2>3, <2>4, <2>5 DEF Failing
<1>11. FailuresAreUnlucky' /\ ReportIsTrue'
  BY <1>0, <1>10 DEF FailuresAreUnlucky, ReportIsTrue
<1> QED
  BY <1>5, <1>6, <1>7, <1>8, <1>9, <1>11 DEF IInv

\* A frame is sent; it counts as unlucky if it is overtaken or under a key
\* that is not the viewer's.
LEMMA SharerSendsFrameIInv ==
    ASSUME TypeOK, IInv, Peers, NEW f \in held, SharerSendsFrame(f)
    PROVE  TypeOK' /\ IInv'
<1>0. /\ UNCHANGED Own /\ conn = "up" /\ result = "none" /\ pc \notin Done
      /\ UNCHANGED <<pc, result, cancelled, late, conn, streamKey, lastNonce, failures, spoken,
                     confirmA, genuine>>
  BY PeerFrame
<1>1. /\ held' = held \ {f} /\ sentNonce' = Max({sentNonce, f.nonce})
      /\ unlucky' = IF f.kind = "stream" /\ (f.nonce < sentNonce \/ f.key # sentKey)
                    THEN unlucky + 1 ELSE unlucky
      /\ UNCHANGED <<answered, ended, lost, revoked, key, wrapped, due, sentKey, sealed>>
  BY DEF SharerSendsFrame, keyVars
<1>2. /\ sealed \in Nat /\ sentNonce \in Nat /\ unlucky \in Nat /\ failures \in Nat
      /\ held \in SUBSET Frame /\ inbox \in Seq(Message) /\ lastNonce \in Nat
  BY Numbers
<1>3. PICK e \in BOOLEAN : Sends([f EXCEPT !.expired = e])
  BY DEF SharerSendsFrame
<1> DEFINE m == [f EXCEPT !.expired = e]
<1>4. /\ m \in Message /\ IsFrame(m) /\ ~IsKey(m) /\ m.nonce = f.nonce /\ m.key = f.key
      /\ m.kind = f.kind /\ f.nonce \in Nat
  <2>1. f \in Frame
    BY <1>2
  <2> QED
    BY <2>1 DEF Frame, Message, IsFrame, IsKey
<1>5. Sends(m)
  BY <1>3
<1> HIDE DEF m
<1>6. /\ inbox' \in Seq(Message) /\ inbox' = Append(inbox, m)
      /\ Len(inbox) \in Nat /\ Len(inbox') = Len(inbox) + 1 /\ inbox'[Len(inbox) + 1] = m
      /\ \A i \in 1..Len(inbox) : inbox'[i] = inbox[i] /\ inbox[i] \in Message
      /\ \A i \in 1..Len(inbox') : i \in 1..Len(inbox) \/ i = Len(inbox) + 1
  BY <1>2, <1>4, <1>5, Appended DEF Sends
<1>7. /\ sentNonce <= sealed /\ f.nonce \in 1..sealed /\ f.nonce # sentNonce
      /\ \A g \in held : IsFrame(g) /\ g.nonce \in 1..sealed /\ g.nonce # sentNonce
      /\ \A g, h \in held : g.kind = h.kind \/ g.nonce = h.nonce => g = h
      /\ unlucky + (IF \E g \in held : g.kind = "stream" THEN 1 ELSE 0) <= sealed
  BY Zenon DEF IInv, HeldOK
<1>8. /\ sentNonce' \in Nat /\ sentNonce <= sentNonce' /\ f.nonce <= sentNonce'
      /\ sentNonce' \in {sentNonce, f.nonce}
  BY <1>1, <1>2, <1>4, Larger
<1>9. unlucky' + (IF \E g \in held' : g.kind = "stream" THEN 1 ELSE 0) <= sealed'
  <2>1. CASE f.kind = "stream"
    <3>1. ~\E g \in held' : g.kind = "stream"
      BY <1>1, <1>7, <2>1
    <3> QED
      BY <1>1, <1>2, <1>7, <2>1, <3>1
  <2>2. CASE f.kind # "stream"
    BY <1>1, <1>2, <1>7, <2>2
  <2> QED
    BY <2>1, <2>2
<1>10. TypeOK'
  <2>1. /\ held' \in SUBSET Frame /\ sentNonce' \in 0..sealed'
        /\ unlucky' \in 0..sealed'
    BY <1>1, <1>2, <1>7, <1>8, <1>9
  <2>2. /\ answered' \in 0..5 /\ ended' \in BOOLEAN /\ lost' \in BOOLEAN
        /\ revoked' \in BOOLEAN /\ key' \in Nat /\ wrapped' \in 0..key'
        /\ due' \in SUBSET (1..key') /\ sentKey' \in 0..key' /\ sealed' \in Nat
    BY <1>1, Zenon DEF TypeOK
  <2> QED
    BY <1>0, <1>6, <2>1, <2>2, PeerTypes, Zenon
<1>11. Progress'
  BY <1>0, <1>1 DEF IInv, Progress, Done
<1>12. m.kind \in {"stream", "size"}
  BY <1>4 DEF IsFrame
<1>13. Notices'
  BY <1>1, <1>4, <1>5, <1>12, SendNotices
<1>14. Answers'
  BY <1>0, <1>1, <1>4, <1>5, <1>12, SendAnswers
<1>15. HeldOK'
  <2>1. \A g \in held' : IsFrame(g) /\ g.nonce \in 1..sealed' /\ g.nonce # sentNonce'
    BY <1>1, <1>7, <1>8
  <2>2. \A g, h \in held' : g.kind = h.kind \/ g.nonce = h.nonce => g = h
    BY <1>1, <1>7
  <2>3. sentNonce' <= sealed'
    BY <1>1, <1>2, <1>7, <1>8
  <2> QED
    BY <1>9, <2>1, <2>2, <2>3 DEF HeldOK, IsFrame
<1>16. /\ lastNonce <= sentNonce
       /\ \A i \in 1..Len(inbox) : IsFrame(inbox[i]) =>
            /\ inbox[i].nonce <= sentNonce
            /\ \A g \in held : g.nonce # inbox[i].nonce
            /\ \A j \in 1..Len(inbox) : IsFrame(inbox[j]) /\ inbox[j].nonce = inbox[i].nonce
                 => i = j
  BY <1>0 DEF IInv, NoncesOK
<1>17. NoncesOK'
  <2>1. lastNonce' <= sentNonce'
    BY <1>0, <1>2, <1>8, <1>16
  <2>2. ASSUME NEW i \in 1..Len(inbox'), IsFrame(inbox'[i])
        PROVE  /\ inbox'[i].nonce <= sentNonce'
               /\ \A g \in held' : g.nonce # inbox'[i].nonce
    <3>1. CASE i \in 1..Len(inbox)
      <4>1. inbox'[i] = inbox[i] /\ inbox[i] \in Message /\ IsFrame(inbox[i])
        BY <1>6, <2>2, <3>1
      <4>2. inbox[i].nonce \in Nat
        BY <4>1, Fields
      <4> QED
        BY <1>1, <1>2, <1>8, <1>16, <3>1, <4>1, <4>2
    <3>2. CASE i = Len(inbox) + 1
      BY <1>1, <1>4, <1>6, <1>7, <1>8, <3>2
    <3> QED
      BY <1>6, <3>1, <3>2
  <2>3. ASSUME NEW i \in 1..Len(inbox'), IsFrame(inbox'[i]), NEW j \in 1..Len(inbox'),
               IsFrame(inbox'[j]), inbox'[j].nonce = inbox'[i].nonce
        PROVE  i = j
    <3>1. \A l \in 1..Len(inbox) : IsFrame(inbox'[l]) => inbox'[l].nonce # m.nonce
      BY <1>4, <1>6, <1>16
    <3>2. CASE i \in 1..Len(inbox) /\ j \in 1..Len(inbox)
      BY <1>6, <1>16, <2>3, <3>2
    <3> QED
      BY <1>6, <2>3, <3>1, <3>2
  <2> QED
    BY <2>1, <2>2, <2>3 DEF NoncesOK, IsFrame
<1>18. InStep'
  BY <1>0, <1>1, <1>4, <1>5, SendInStep
<1>19. Failing'
  <2>1. PICK bad \in SUBSET (1..sealed) :
          failures + Cardinality(bad) <= unlucky /\ Opened(inbox, streamKey, lastNonce, bad)
    BY <1>0 DEF IInv, FailuresAreUnlucky, Failing
  <2>2. CASE f.kind = "stream" /\ (f.nonce < sentNonce \/ f.key # sentKey)
    <3> DEFINE worse == bad \cup {f.nonce}
    <3>1. /\ worse \in SUBSET (1..sealed) /\ Cardinality(bad) \in Nat
          /\ Cardinality(worse) \in Nat /\ Cardinality(worse) <= Cardinality(bad) + 1
      BY <1>2, <1>7, OneMore
    <3>2. bad \subseteq worse /\ m.nonce \in worse
      BY <1>4
    <3> HIDE DEF worse
    <3>3. Opened(inbox', streamKey, lastNonce, worse)
      BY <1>2, <1>4, <1>6, <2>1, <3>2, OpenedAppend
    <3>4. failures + Cardinality(worse) <= unlucky'
      BY <1>1, <1>2, <2>1, <2>2, <3>1
    <3> QED
      BY <1>0, <1>1, <3>1, <3>3, <3>4 DEF Failing
  <2>3. CASE ~(f.kind = "stream" /\ (f.nonce < sentNonce \/ f.key # sentKey))
    <3>1. ASSUME m.kind = "stream"
          PROVE  /\ m.nonce > lastNonce
                 /\ \A j \in 1..Len(inbox) : IsFrame(inbox[j]) => inbox[j].nonce < m.nonce
                 /\ KeyInForce(inbox, streamKey, Len(inbox) + 1, m.key)
      <4>1. f.nonce > sentNonce /\ f.key = sentKey
        BY <1>2, <1>4, <1>7, <2>3, <3>1
      <4>2. KeyInForce(inbox, streamKey, Len(inbox) + 1, sentKey)
        BY <1>0 DEF IInv, FailuresAreUnlucky, InStep
      <4>3. ASSUME NEW j \in 1..Len(inbox), IsFrame(inbox[j]) PROVE inbox[j].nonce < m.nonce
        <5>1. inbox[j].nonce \in Nat
          BY <1>6, <4>3, Fields
        <5> QED
          BY <1>2, <1>4, <1>16, <4>1, <4>3, <5>1
      <4>4. m.nonce > lastNonce
        BY <1>2, <1>4, <1>16, <4>1
      <4> QED
        BY <1>4, <4>1, <4>2, <4>3, <4>4
    <3>2. Opened(inbox', streamKey, lastNonce, bad)
      BY <1>2, <1>4, <1>6, <2>1, <3>1, OpenedAppend
    <3>3. unlucky' = unlucky
      BY <1>1, <2>3
    <3> QED
      BY <1>0, <1>1, <2>1, <3>2, <3>3 DEF Failing
  <2> QED
    BY <2>2, <2>3
<1>20. FailuresAreUnlucky' /\ ReportIsTrue'
  BY <1>0, <1>18, <1>19 DEF FailuresAreUnlucky, ReportIsTrue
<1> QED
  BY <1>10, <1>11, <1>13, <1>14, <1>15, <1>17, <1>20 DEF IInv

\* Every step of the relay and the sharer.
LEMMA PeersIInv ==
    ASSUME TypeOK, IInv, Peers
    PROVE  TypeOK' /\ IInv'
<1>1. \/ RelayAnswers \/ SharerAnswers \/ RegisterViewer \/ SharerDelivers
      \/ SharerRevokes \/ SharerEnds
      \/ \E k \in due : SharerSendsRekey(k)
      \/ \E kind \in {"stream", "size"} : SharerSeals(kind)
      \/ \E f \in held : SharerSendsFrame(f)
  BY DEF Peers
<1> QED
  BY <1>1, RelayAnswersIInv, SharerAnswersIInv, RegisterViewerIInv, SharerDeliversIInv,
     SharerRevokesIInv, SharerSendsRekeyIInv, SharerEndsIInv, SharerSealsIInv,
     SharerSendsFrameIInv, Zenon

-----------------------------------------------------------------------------
\* The theorems.

\* At the start nothing has been said.
LEMMA InitIInv == Init => TypeOK /\ IInv
<1> SUFFICES ASSUME Init PROVE TypeOK /\ IInv
  OBVIOUS
<1>1. pc = "start" /\ result = "none" /\ conn = "none" /\ spoken = 0 /\ failures = 0
  BY DEF Init
<1>2. /\ streamKey = 0 /\ lastNonce = 0 /\ inbox = <<>> /\ answered = 0 /\ key = 1 /\ sealed = 0
      /\ wrapped = 0 /\ due = {}
      /\ held = {} /\ sentKey = 0 /\ sentNonce = 0 /\ unlucky = 0 /\ Threshold \in Nat \ {0}
  BY DEF Init
<1>3. TypeOK
  <2>1. /\ streamKey \in Nat /\ lastNonce \in Nat /\ failures \in 0..Threshold
        /\ spoken \in 0..3 /\ answered \in 0..5
        /\ key \in Nat /\ wrapped \in 0..key /\ due \in SUBSET (1..key) /\ sealed \in Nat
        /\ sentKey \in 0..key /\ sentNonce \in 0..sealed /\ unlucky \in 0..sealed
    BY <1>1, <1>2
  <2>2. inbox \in Seq(Message) /\ held \in SUBSET Frame
    BY <1>2
  <2>3. /\ cancelled \in BOOLEAN /\ late \in BOOLEAN /\ ended \in BOOLEAN
        /\ lost \in BOOLEAN /\ revoked \in BOOLEAN /\ genuine \in BOOLEAN
        /\ confirmA \in {"untyped", "skipped", "session-ended", "session-not-found"}
    BY Zenon DEF Init
  <2>4. /\ pc \in PC /\ result \in Result /\ conn \in {"none", "up", "down", "closed"}
    BY <1>1 DEF PC, Result
  <2> QED
    BY <2>1, <2>2, <2>3, <2>4, Zenon DEF TypeOK, PC, Result
<1>4. Len(inbox) = 0
  BY <1>2
<1>5. Progress /\ Notices /\ Answers /\ ReportIsTrue
  BY <1>1, <1>2, <1>4 DEF Progress, Notices, Answers, ReportIsTrue, Done
<1>6. HeldOK /\ NoncesOK
  BY <1>1, <1>2, <1>4 DEF HeldOK, NoncesOK
<1>7. FailuresAreUnlucky
  <2>1. InStep
    BY <1>2, <1>4 DEF InStep, KeyInForce
  <2>2. Cardinality({}) = 0
    BY FS_EmptySet
  <2>3. Opened(inbox, streamKey, lastNonce, {})
    BY <1>4 DEF Opened
  <2>4. Failing
    BY <1>1, <1>2, <2>2, <2>3 DEF Failing
  <2> QED
    BY <1>1, <2>1, <2>4 DEF FailuresAreUnlucky
<1> QED
  BY <1>3, <1>5, <1>6, <1>7 DEF IInv

\* A step that changes nothing.
LEMMA StutterIInv ==
    ASSUME TypeOK, IInv, UNCHANGED vars
    PROVE  TypeOK' /\ IInv'
<1>0. UNCHANGED <<pc, result, cancelled, late, conn, streamKey, lastNonce, failures, spoken,
                  inbox, answered, ended, lost, revoked, key, wrapped, due, sentKey, sealed, held,
                  sentNonce, unlucky, confirmA, genuine>>
  BY DEF vars, viewVars, peerVars, sharerVars, keyVars
<1>1. TypeOK'
  <2>1. /\ pc' \in PC /\ result' \in Result /\ cancelled' \in BOOLEAN /\ late' \in BOOLEAN
        /\ conn' \in {"none", "up", "down", "closed"}
    BY <1>0, Flags, Zenon
  <2>2. inbox' \in Seq(Message)
    BY <1>0, Numbers
  <2>3. UNCHANGED <<viewVars, spoken, peerVars>>
    BY <1>0 DEF viewVars, peerVars, sharerVars, keyVars
  <2> QED
    BY <2>1, <2>2, <2>3, OutsideTypes, Zenon
<1>2. Progress'
  BY <1>0 DEF IInv, Progress, Done
<1>3. Notices' /\ Answers'
  BY <1>0 DEF IInv, Notices, Answers, Done, IsKey, Refused
<1>4. HeldOK' /\ NoncesOK'
  BY <1>0 DEF IInv, HeldOK, NoncesOK, Done, IsFrame
<1>5. InStep' <=> InStep
  BY <1>0 DEF InStep, KeyInForce, IsKey
<1>6. Failing' <=> Failing
  BY <1>0 DEF Failing
<1>7. FailuresAreUnlucky'
  BY <1>0, <1>5, <1>6 DEF IInv, FailuresAreUnlucky, Done
<1>8. ReportIsTrue'
  BY <1>0 DEF IInv, ReportIsTrue, Refused
<1> QED
  BY <1>1, <1>2, <1>3, <1>4, <1>7, <1>8 DEF IInv

\* Every step of `lw join` and of its peers keeps the invariant.
LEMMA NextIInv ==
    ASSUME TypeOK, IInv, [Next]_vars
    PROVE  TypeOK' /\ IInv'
<1>1. \/ StartUp \/ Recv \/ RecvFails \/ ResizeHandled \/ Report
      \/ Interrupt \/ HandshakeDeadline
      \/ ConnectionLost \/ Peers \/ UNCHANGED vars
  BY DEF Next, Process
<1> QED
  BY <1>1, StartUpIInv, RecvIInv, RecvFailsIInv, ResizeIInv, ReportIInv, ContextIInv, LostIInv,
     PeersIInv, StutterIInv, Zenon

\* The viewer, the queue and the sharer stay as IInv says: answers come when
\* they are due, nonces are used once, and the failures that the viewer has
\* counted and will count are among the frames sent too early or too late.
THEOREM Inductive == Spec => [](TypeOK /\ IInv)
  BY InitIInv, NextIInv, PTL DEF Spec

\* Every variable of a join has its type, for every threshold.
THEOREM TypeCorrect == Spec => []TypeOK
  BY Inductive, PTL

\* What `lw join` says when it exits is true, whatever is lost or misread.
THEOREM ReportsAreTrue == Spec => []ReportIsTrue
<1>1. IInv => ReportIsTrue
  BY DEF IInv
<1> QED
  BY <1>1, Inductive, PTL

\* More than ReportIsTrue asks: "access revoked" takes Threshold frames that
\* were sent before their key or out of order, also when the viewer was
\* revoked.
UnluckyWhenRevoked == result = "access revoked" => unlucky >= Threshold

\* A viewer gives up only after Threshold such frames: no other order of
\* frames, keys and revocations makes decryptAndWrite count to the threshold.
THEOREM GivesUpForCause == Spec => []UnluckyWhenRevoked
<1>1. IInv => UnluckyWhenRevoked
  BY DEF IInv, FailuresAreUnlucky, UnluckyWhenRevoked
<1> QED
  BY <1>1, Inductive, PTL

=============================================================================
