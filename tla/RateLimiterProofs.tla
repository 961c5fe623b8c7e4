------------------------- MODULE RateLimiterProofs -------------------------
(***************************************************************************)
(* RateLimiter: type correctness, the bound on the requests let through,   *)
(* what a ban in force forbids and how it ends, for every set of IPs,      *)
(* events and goroutines and all limits, windows and durations that        *)
(* satisfy the assumptions.                                                *)
(***************************************************************************)
EXTENDS RateLimiter, FiniteSetTheorems, TLAPS

USE IdleAssumption, LimitAssumption, BanAssumption, DurationAssumption

-----------------------------------------------------------------------------
\* The inductive invariant.

\* No counter and no violation is from the future.
PastOnly ==
    /\ clock > 0
    /\ \A ip \in IP : /\ \A e \in Event : counters[ip][e].windowStart <= clock
                      /\ \A v \in violations[ip] : v.at <= clock

\* The ban that silenced an IP outlasts its windows and its violations.
BanOutlasts ==
    \A ip \in IP : quiet[ip] /\ ~permanent[ip] =>
        /\ banExpiry[ip] # 0
        /\ \A e \in Event : counters[ip][e].windowStart + Window[e] <= banExpiry[ip]
        /\ \A v \in violations[ip] : v.at + ViolationWindow <= banExpiry[ip]

\* Of the requests let through, those of the current counting window have
\* different places in it, and so have those of the one before that a window
\* ending now can still see.
PlacesTaken(S, c, e) ==
    /\ \A r \in S : r.place \in 1..Limit[e] /\ r.at < c.windowStart + Window[e] /\ c.count > 0
    /\ \A r \in S : r.at >= c.windowStart => r.place <= c.count
    /\ \A r, q \in S : r.at >= c.windowStart /\ q.at >= c.windowStart /\ r.place = q.place => r = q
    /\ \A r, q \in S :
          /\ r.at < c.windowStart /\ r.at + Window[e] > c.windowStart
          /\ q.at < c.windowStart /\ q.at + Window[e] > c.windowStart
          /\ r.place = q.place
          => r = q
Places == \A ip \in IP, e \in Event : PlacesTaken(served[ip][e], counters[ip][e], e)

IInv == PastOnly /\ BanOutlasts /\ Places

-----------------------------------------------------------------------------

\* What Allow does to a banned IP: nothing.
Refused == UNCHANGED limiter

\* What a ban, or its absence, does to the fields of ip.
BanFields(ip) ==
    /\ banCount' = [banCount EXCEPT ![ip] = banCount'[ip]] /\ banCount'[ip] \in Nat
    /\ banExpiry' = [banExpiry EXCEPT ![ip] = banExpiry'[ip]] /\ banExpiry'[ip] \in Nat
    /\ permanent' = [permanent EXCEPT ![ip] = permanent'[ip]] /\ permanent'[ip] \in BOOLEAN
    /\ quiet' = [quiet EXCEPT ![ip] = quiet'[ip]] /\ quiet'[ip] \in BOOLEAN
    /\ quiet'[ip] /\ ~permanent'[ip] =>
          \/ banExpiry'[ip] = clock + BanDurationFirst
          \/ banExpiry'[ip] = clock + BanDurationSecond

\* ban moves the counter and sets an expiry or makes the ban permanent.
LEMMA BanEffect ==
    ASSUME TypeOK, NEW ip \in IP, ban(ip) \/ NoBan(ip)
    PROVE  BanFields(ip)
<1>1. CASE ban(ip)
  <2>1. /\ banCount' = [banCount EXCEPT ![ip] = banCount[ip] + 1]
        /\ quiet' = [quiet EXCEPT ![ip] = TRUE]
    BY <1>1 DEF ban
  <2>2. banCount' = [banCount EXCEPT ![ip] = banCount'[ip]] /\ banCount'[ip] \in Nat
    BY <2>1 DEF TypeOK
  <2>3. quiet' = [quiet EXCEPT ![ip] = quiet'[ip]] /\ quiet'[ip] = TRUE
    BY <2>1 DEF TypeOK
  <2>4. CASE permanent' = [permanent EXCEPT ![ip] = TRUE] /\ banExpiry' = banExpiry
    <3>1. permanent' = [permanent EXCEPT ![ip] = permanent'[ip]] /\ permanent'[ip] = TRUE
      BY <2>4 DEF TypeOK
    <3>2. banExpiry' = [banExpiry EXCEPT ![ip] = banExpiry'[ip]] /\ banExpiry'[ip] \in Nat
      BY <2>4 DEF TypeOK
    <3> QED
      BY <2>2, <2>3, <3>1, <3>2 DEF BanFields
  <2>5. ASSUME NEW d \in {BanDurationFirst, BanDurationSecond},
               banExpiry' = [banExpiry EXCEPT ![ip] = clock + d], permanent' = permanent
        PROVE  BanFields(ip)
    <3>1. permanent' = [permanent EXCEPT ![ip] = permanent'[ip]] /\ permanent'[ip] \in BOOLEAN
      BY <2>5 DEF TypeOK
    <3>2. /\ banExpiry' = [banExpiry EXCEPT ![ip] = banExpiry'[ip]]
          /\ banExpiry'[ip] = clock + d /\ clock + d \in Nat
      BY <2>5 DEF TypeOK
    <3> QED
      BY <2>2, <2>3, <3>1, <3>2 DEF BanFields
  <2> QED
    BY <1>1, <2>4, <2>5 DEF ban, Expiry
<1>2. CASE NoBan(ip)
  <2>1. /\ quiet' = [quiet EXCEPT ![ip] = FALSE]
        /\ banCount' = banCount /\ banExpiry' = banExpiry /\ permanent' = permanent
    BY <1>2 DEF NoBan
  <2>2. quiet' = [quiet EXCEPT ![ip] = quiet'[ip]] /\ quiet'[ip] = FALSE
    BY <2>1 DEF TypeOK
  <2>3. /\ banCount' = [banCount EXCEPT ![ip] = banCount'[ip]] /\ banCount'[ip] \in Nat
        /\ banExpiry' = [banExpiry EXCEPT ![ip] = banExpiry'[ip]] /\ banExpiry'[ip] \in Nat
    BY <2>1 DEF TypeOK
  <2>4. permanent' = [permanent EXCEPT ![ip] = permanent'[ip]] /\ permanent'[ip] \in BOOLEAN
    BY <2>1 DEF TypeOK
  <2> QED
    BY <2>2, <2>3, <2>4 DEF BanFields
<1> QED
  BY <1>1, <1>2

\* What Allow does for an IP that is not banned: the request is counted, the
\* violations are those kept and perhaps a new one, and the request is let
\* through within the limit or not at all.
CountedEffect(ip, e) ==
    LET c == Counted(ip, e)
    IN  /\ counters' = [counters EXCEPT ![ip][e] = c]
        /\ BanFields(ip)
        /\ \/ violations' = violations
           \/ violations' = [violations EXCEPT ![ip] =
                               Recent(ip) \cup {[at |-> clock, event |-> e]}]
        /\ \/ served' = served
           \/ c.count <= Limit[e] /\ served' = LetThrough(ip, e, c.count)

\* A call of Allow is refused for a ban in force, or counts the event in its window.
LEMMA AllowEffect ==
    ASSUME TypeOK, NEW ip \in IP, NEW e \in Event, Allow(ip, e)
    PROVE  \/ Refused
           \/ ~IsBannedLocked(ip) /\ CountedEffect(ip, e)
<1>1. CASE AllowBanned(ip) /\ UNCHANGED limiter
  BY <1>1 DEF Refused
<1>2. ASSUME ~AllowBanned(ip), Allow(ip, e)
      PROVE  ~IsBannedLocked(ip) /\ CountedEffect(ip, e)
  <2>0. ~IsBannedLocked(ip)
    BY <1>2 DEF AllowBanned
  <2>1. counters' = [counters EXCEPT ![ip][e] = Counted(ip, e)]
    BY <1>2 DEF Allow
  <2>2. ban(ip) \/ NoBan(ip)
    BY <1>2 DEF Allow, recordViolation
  <2>3. \/ violations' = violations
        \/ violations' = [violations EXCEPT ![ip] =
                            Recent(ip) \cup {[at |-> clock, event |-> e]}]
    BY <1>2 DEF Allow, recordViolation
  <2>4. \/ served' = served
        \/ Counted(ip, e).count <= Limit[e] /\ served' = LetThrough(ip, e, Counted(ip, e).count)
    BY <1>2 DEF Allow, UnderLimit
  <2>5. BanFields(ip)
    BY <2>2, BanEffect
  <2> QED
    BY <2>0, <2>1, <2>3, <2>4, <2>5 DEF CountedEffect
<1> QED
  BY <1>1, <1>2 DEF Allow

\* The counter after a request: the next place of a running window or the
\* first of a new one.
LEMMA CountedType ==
    ASSUME TypeOK, NEW ip \in IP, NEW e \in Event
    PROVE  LET o == counters[ip][e]
               c == Counted(ip, e)
           IN  /\ o \in Counter /\ c \in Counter /\ c.count > 0
               /\ \/ /\ c.count = 1 /\ c.windowStart = clock
                     /\ (o.count = 0 \/ o.windowStart + Window[e] <= clock)
                  \/ /\ c.count = o.count + 1 /\ c.windowStart = o.windowStart
                     /\ clock < o.windowStart + Window[e]
<1>1. counters[ip][e] \in Counter /\ clock \in Nat /\ Window[e] \in Nat
  BY DEF TypeOK
<1> QED
  BY <1>1 DEF Counted, WindowOver, Counter

-----------------------------------------------------------------------------

\* Type correctness: every request leaves each field in its type.
THEOREM TypeCorrect == Spec => []TypeOK
<1>1. NewRateLimiter => TypeOK
  BY DEF NewRateLimiter, TypeOK, Counter, Served
<1>2. TypeOK /\ [Next]_vars => TypeOK'
  <2> SUFFICES ASSUME TypeOK, [Next]_vars PROVE TypeOK'
    OBVIOUS
  <2>1. ASSUME NEW g \in Request, NEW ip \in IP, NEW e \in Event, WrapIsBanned(g, ip, e)
        PROVE  TypeOK'
    BY <2>1 DEF WrapIsBanned, limiter, TypeOK
  <2>2. ASSUME NEW g \in Request, WrapAllow(g) PROVE TypeOK'
    <3> DEFINE ip == request[g].ip
               e == request[g].event
    <3>1. /\ ip \in IP /\ e \in Event /\ Allow(ip, e)
          /\ request' = [request EXCEPT ![g] = Idle] /\ clock' = clock
      BY <2>2 DEF WrapAllow, TypeOK
    <3>2. request' \in [Request -> [ip : IP, event : Event] \cup {Idle}] /\ clock' \in Nat
      BY <3>1 DEF TypeOK
    <3> HIDE DEF ip, e
    <3>3. CASE Refused
      BY <3>2, <3>3 DEF Refused, limiter, TypeOK
    <3>4. CASE CountedEffect(ip, e)
      <4> DEFINE c == Counted(ip, e)
      <4>1. c \in Counter
        BY <3>1, CountedType
      <4> HIDE DEF c
      <4>2. counters' \in [IP -> [Event -> Counter]]
        BY <3>1, <3>4, <4>1 DEF CountedEffect, TypeOK, c
      <4>3. /\ banCount' \in [IP -> Nat] /\ banExpiry' \in [IP -> Nat]
        BY <3>1, <3>4 DEF CountedEffect, BanFields, TypeOK
      <4>4. permanent' \in [IP -> BOOLEAN]
        BY <3>1, <3>4, Zenon DEF CountedEffect, BanFields, TypeOK
      <4>5. quiet' \in [IP -> BOOLEAN]
        BY <3>1, <3>4, Zenon DEF CountedEffect, BanFields, TypeOK
      <4>6. violations' \in [IP -> SUBSET [at : Nat, event : Event]]
        <5>1. Recent(ip) \cup {[at |-> clock, event |-> e]} \in SUBSET [at : Nat, event : Event]
          BY <3>1 DEF Recent, TypeOK
        <5>2. \/ violations' = violations
              \/ violations' = [violations EXCEPT ![ip] =
                                  Recent(ip) \cup {[at |-> clock, event |-> e]}]
          BY <3>4 DEF CountedEffect
        <5> QED
          BY <3>1, <5>1, <5>2, Zenon DEF TypeOK
      <4>7. served' \in [IP -> [Event -> SUBSET Served]]
        <5>1. [at |-> clock, place |-> c.count] \in Served
          BY <4>1 DEF Counter, Served, TypeOK
        <5>2. {r \in served[ip][e] : r.at + Window[e] > clock} \cup
                {[at |-> clock, place |-> c.count]} \in SUBSET Served
          BY <3>1, <5>1 DEF TypeOK
        <5> DEFINE T == {r \in served[ip][e] : r.at + Window[e] > clock} \cup
                          {[at |-> clock, place |-> c.count]}
        <5>3. served' = served \/ served' = [served EXCEPT ![ip][e] = T]
          BY <3>4 DEF CountedEffect, LetThrough, c
        <5>4. T \in SUBSET Served
          BY <5>2
        <5> HIDE DEF T
        <5>5. [served[ip] EXCEPT ![e] = T] \in [Event -> SUBSET Served]
          BY <3>1, <5>4 DEF TypeOK
        <5> QED
          BY <3>1, <5>3, <5>5, Zenon DEF TypeOK
      <4> QED
        BY <3>2, <4>2, <4>3, <4>4, <4>5, <4>6, <4>7 DEF TypeOK
    <3> QED
      BY <3>1, <3>3, <3>4, AllowEffect
  <2>3. CASE Tick
    BY <2>3 DEF Tick, limiter, TypeOK
  <2>4. CASE UNCHANGED vars
    BY <2>4 DEF vars, limiter, TypeOK
  <2> QED
    BY <2>1, <2>2, <2>3, <2>4 DEF Next
<1> QED
  BY <1>1, <1>2, PTL DEF Spec

\* While an IP is banned a step leaves all that the limiter keeps about it.
LEMMA BannedUntouched ==
    ASSUME TypeOK, [Next]_vars, NEW ip \in IP, IsBannedLocked(ip)
    PROVE  /\ served'[ip] = served[ip] /\ banCount'[ip] = banCount[ip]
           /\ banExpiry'[ip] = banExpiry[ip] /\ permanent'[ip] = permanent[ip]
<1>1. CASE UNCHANGED limiter
  BY <1>1 DEF limiter
<1>2. ASSUME NEW g \in Request, WrapAllow(g)
      PROVE  /\ served'[ip] = served[ip] /\ banCount'[ip] = banCount[ip]
             /\ banExpiry'[ip] = banExpiry[ip] /\ permanent'[ip] = permanent[ip]
  <2> DEFINE i == request[g].ip
             e == request[g].event
  <2>1. i \in IP /\ e \in Event /\ Allow(i, e)
    BY <1>2 DEF WrapAllow, TypeOK
  <2> HIDE DEF i, e
  <2>2. CASE ~IsBannedLocked(i) /\ CountedEffect(i, e)
    <3>1. i # ip
      BY <2>2
    <3>2. served'[ip] = served[ip]
      BY <2>1, <2>2, <3>1 DEF CountedEffect, LetThrough, TypeOK
    <3>3. /\ banCount'[ip] = banCount[ip] /\ banExpiry'[ip] = banExpiry[ip]
          /\ permanent'[ip] = permanent[ip]
      BY <2>1, <2>2, <3>1 DEF CountedEffect, BanFields, TypeOK
    <3> QED
      BY <3>2, <3>3
  <2>3. CASE Refused
    BY <2>3 DEF Refused, limiter
  <2> QED
    BY <2>1, <2>2, <2>3, AllowEffect
<1> QED
  BY <1>1, <1>2 DEF Next, WrapIsBanned, Tick, vars

\* No request is let through while its IP is banned, also one that passed
\* IsBanned before the ban.
THEOREM BanIsEnforced == Spec => BannedNeverServed
<1>1. TypeOK /\ [Next]_vars =>
        [\A ip \in IP : IsBannedLocked(ip) => served'[ip] = served[ip]]_vars
  BY BannedUntouched
<1> QED
  BY <1>1, TypeCorrect, PTL DEF Spec, BannedNeverServed

\* A ban in force is neither shortened, lifted nor counted again.
THEOREM BansDoNotStack == Spec => OneBanAtATime
<1>1. TypeOK /\ [Next]_vars =>
        [\A ip \in IP : IsBannedLocked(ip) =>
           /\ banCount'[ip] = banCount[ip]
           /\ banExpiry'[ip] = banExpiry[ip]
           /\ permanent'[ip] = permanent[ip]]_vars
  BY BannedUntouched
<1> QED
  BY <1>1, TypeCorrect, PTL DEF Spec, OneBanAtATime

-----------------------------------------------------------------------------

\* Counting a request keeps the places distinct, whether it is let through
\* or not.
LEMMA PlacesCounted ==
    ASSUME TypeOK, NEW ip \in IP, NEW e \in Event, NEW S \in SUBSET Served,
           counters[ip][e].windowStart <= clock,
           PlacesTaken(S, counters[ip][e], e),
           NEW T, \/ T \subseteq S
                  \/ /\ Counted(ip, e).count <= Limit[e]
                     /\ T \subseteq S \cup {[at |-> clock, place |-> Counted(ip, e).count]}
    PROVE  PlacesTaken(T, Counted(ip, e), e)
<1> DEFINE o == counters[ip][e]
           c == Counted(ip, e)
           W == Window[e]
           new == [at |-> clock, place |-> c.count]
<1>1. /\ o \in Counter /\ c \in Counter /\ c.count > 0
      /\ \/ c.count = 1 /\ c.windowStart = clock /\ (o.count = 0 \/ o.windowStart + W <= clock)
         \/ /\ c.count = o.count + 1 /\ c.windowStart = o.windowStart
            /\ clock < o.windowStart + W
  BY CountedType
<1>2. /\ PlacesTaken(S, o, e) /\ o.windowStart <= clock /\ W \in Nat \ {0} /\ Limit[e] \in Nat
      /\ clock \in Nat
  BY DEF TypeOK
<1>3. T \subseteq S \/ (c.count <= Limit[e] /\ T \subseteq S \cup {new})
  OBVIOUS
<1>4. new.at = clock /\ new.place = c.count
  OBVIOUS
<1>5. /\ o.count \in Nat /\ o.windowStart \in Nat /\ c.count \in Nat /\ c.windowStart \in Nat
      /\ \A r \in S : r.at \in Nat /\ r.place \in Nat
  BY <1>1 DEF Counter, Served
<1> HIDE DEF o, c, W, new
<1>6. \A r \in T : r \in S \/ (r = new /\ c.count <= Limit[e])
  BY <1>3
<1>7. \A r \in S : /\ r.place \in 1..Limit[e] /\ r.at < o.windowStart + W /\ o.count > 0
                   /\ r.at >= o.windowStart => r.place <= o.count
  BY <1>2 DEF PlacesTaken, W
<1>8. \A r, q \in S : r.at >= o.windowStart /\ q.at >= o.windowStart /\ r.place = q.place => r = q
  BY <1>2 DEF PlacesTaken
<1>9. CASE c.count = 1 /\ c.windowStart = clock /\ (o.count = 0 \/ o.windowStart + W <= clock)
  <2>1. \A r \in S : r.at < clock /\ (r.at + W > clock => r.at >= o.windowStart)
    <3> SUFFICES ASSUME NEW r \in S
                 PROVE  r.at < clock /\ (r.at + W > clock => r.at >= o.windowStart)
      OBVIOUS
    <3>1. r.at \in Nat /\ r.at < o.windowStart + W /\ o.count > 0
      BY <1>5, <1>7
    <3>2. o.windowStart + W <= clock
      BY <1>5, <1>9, <3>1
    <3> QED
      BY <1>2, <1>5, <3>1, <3>2
  <2>2. \A r \in T : /\ r.place \in 1..Limit[e] /\ r.at < c.windowStart + W
                     /\ r.at >= c.windowStart => r.place <= c.count /\ r = new
    BY <1>2, <1>4, <1>5, <1>6, <1>7, <1>9, <2>1
  <2>3. \A r \in T : r.at < c.windowStart /\ r.at + W > c.windowStart =>
          r \in S /\ r.at >= o.windowStart
    BY <1>2, <1>4, <1>5, <1>6, <1>9, <2>1
  <2>4. \A r, q \in T :
          r.at >= c.windowStart /\ q.at >= c.windowStart /\ r.place = q.place => r = q
    BY <2>2
  <2>5. \A r, q \in T :
          /\ r.at < c.windowStart /\ r.at + W > c.windowStart
          /\ q.at < c.windowStart /\ q.at + W > c.windowStart
          /\ r.place = q.place
          => r = q
    BY <1>8, <2>3
  <2> QED
    BY <1>1, <2>2, <2>4, <2>5 DEF PlacesTaken, W, c
<1>10. CASE /\ c.count = o.count + 1 /\ c.windowStart = o.windowStart
            /\ clock < o.windowStart + W
  <2>1. \A r \in T : /\ r.place \in 1..Limit[e] /\ r.at < c.windowStart + W
                     /\ r.at >= c.windowStart => r.place <= c.count
    <3> SUFFICES ASSUME NEW r \in T
                 PROVE  /\ r.place \in 1..Limit[e] /\ r.at < c.windowStart + W
                        /\ r.at >= c.windowStart => r.place <= c.count
      OBVIOUS
    <3>1. CASE r \in S
      <4>1. /\ r.at \in Nat /\ r.place \in 1..Limit[e] /\ r.at < o.windowStart + W
            /\ r.at >= o.windowStart => r.place <= o.count
        BY <1>5, <1>7, <3>1
      <4> QED
        BY <1>2, <1>5, <1>10, <4>1
    <3>2. CASE r = new /\ c.count <= Limit[e]
      BY <1>1, <1>2, <1>4, <1>5, <1>10, <3>2
    <3> QED
      BY <1>6, <3>1, <3>2
  <2>2. \A r, q \in T :
          r.at >= c.windowStart /\ q.at >= c.windowStart /\ r.place = q.place => r = q
    <3> SUFFICES ASSUME NEW r \in T, NEW q \in T, r.at >= c.windowStart, q.at >= c.windowStart,
                        r.place = q.place
                 PROVE  r = q
      OBVIOUS
    <3>1. CASE r \in S /\ q \in S
      BY <1>8, <1>10, <3>1
    <3>2. CASE r = new /\ q \in S
      <4>1. q.place \in Nat /\ q.place <= o.count /\ r.place = o.count + 1
        BY <1>4, <1>5, <1>7, <1>10, <3>2
      <4> QED
        BY <1>5, <4>1
    <3>3. CASE r \in S /\ q = new
      <4>1. r.place \in Nat /\ r.place <= o.count /\ q.place = o.count + 1
        BY <1>4, <1>5, <1>7, <1>10, <3>3
      <4> QED
        BY <1>5, <4>1
    <3> QED
      BY <1>6, <3>1, <3>2, <3>3
  <2>3. \A r \in T : r.at < c.windowStart => r \in S
    BY <1>2, <1>4, <1>5, <1>6, <1>10
  <2> QED
    <3>1. \A r, q \in S :
            /\ r.at < o.windowStart /\ r.at + W > o.windowStart
            /\ q.at < o.windowStart /\ q.at + W > o.windowStart
            /\ r.place = q.place
            => r = q
      BY <1>2 DEF PlacesTaken, W
    <3>2. \A r, q \in T :
            /\ r.at < c.windowStart /\ r.at + W > c.windowStart
            /\ q.at < c.windowStart /\ q.at + W > c.windowStart
            /\ r.place = q.place
            => r = q
      BY <1>10, <2>3, <3>1
    <3> QED
      BY <1>1, <2>1, <2>2, <3>2 DEF PlacesTaken, W, c
<1> QED
  BY <1>1, <1>9, <1>10 DEF o, c, W

\* A request keeps the invariant.
LEMMA WrapAllowIInv ==
    ASSUME TypeOK, TypeOK', IInv, NEW g \in Request, WrapAllow(g)
    PROVE  IInv'
<1> DEFINE ip == request[g].ip
           e == request[g].event
<1>1. ip \in IP /\ e \in Event /\ Allow(ip, e) /\ clock' = clock
  BY DEF WrapAllow, TypeOK
<1> HIDE DEF ip, e
<1>2. CASE Refused
  BY <1>1, <1>2 DEF Refused, limiter, IInv, PastOnly, BanOutlasts, Places
<1>3. CASE CountedEffect(ip, e)
  <2> DEFINE o == counters[ip][e]
             c == Counted(ip, e)
  <2>1. counters' = [counters EXCEPT ![ip][e] = c] /\ BanFields(ip)
    BY <1>3 DEF CountedEffect
  <2>2. /\ o \in Counter /\ c \in Counter
        /\ c.windowStart = clock \/ c.windowStart = o.windowStart
    BY <1>1, CountedType
  <2> HIDE DEF o, c
  <2>3. /\ counters'[ip][e] = c
        /\ \A i \in IP, f \in Event : i # ip \/ f # e => counters'[i][f] = counters[i][f]
    BY <1>1, <2>1 DEF TypeOK
  <2>4. \A i \in IP : \A v \in violations'[i] :
          /\ v \in violations[i] \/ v.at = clock
          /\ i # ip => v \in violations[i]
    BY <1>1, <1>3 DEF CountedEffect, Recent, TypeOK
  <2>5. PastOnly'
    <3>1. \A i \in IP, f \in Event : counters'[i][f].windowStart <= clock
      <4>1. c.windowStart <= clock
        BY <1>1, <2>2 DEF IInv, PastOnly, TypeOK, o
      <4> QED
        BY <2>3, <4>1 DEF IInv, PastOnly
    <3> QED
      BY <1>1, <2>4, <3>1 DEF IInv, PastOnly, TypeOK
  <2>6. BanOutlasts'
    <3> SUFFICES ASSUME NEW i \in IP, quiet'[i], ~permanent'[i]
                 PROVE  /\ banExpiry'[i] # 0
                        /\ \A f \in Event : counters'[i][f].windowStart + Window[f] <= banExpiry'[i]
                        /\ \A v \in violations'[i] : v.at + ViolationWindow <= banExpiry'[i]
      BY DEF BanOutlasts
    <3>1. CASE i = ip
      <4>1. PICK d \in {BanDurationFirst, BanDurationSecond} : banExpiry'[i] = clock + d
        BY <2>1, <3>1 DEF BanFields
      <4>2. d \in Nat /\ d >= ViolationWindow /\ \A f \in Event : d >= Window[f]
        OBVIOUS
      <4>3. /\ clock > 0 /\ clock \in Nat
            /\ \A f \in Event : counters'[i][f].windowStart \in 0..clock
        BY <1>1, <2>5 DEF PastOnly, TypeOK, Counter
      <4>4. \A v \in violations'[i] : v.at <= clock /\ v.at \in Nat
        BY <1>1, <2>5 DEF PastOnly, TypeOK
      <4> QED
        BY <4>1, <4>2, <4>3, <4>4
    <3>2. CASE i # ip
      <4>1. /\ quiet'[i] = quiet[i] /\ permanent'[i] = permanent[i]
            /\ banExpiry'[i] = banExpiry[i]
        BY <1>1, <2>1, <3>2 DEF BanFields, TypeOK
      <4>2. /\ \A f \in Event : counters'[i][f] = counters[i][f]
            /\ \A v \in violations'[i] : v \in violations[i]
        BY <2>3, <2>4, <3>2
      <4> QED
        BY <4>1, <4>2 DEF IInv, BanOutlasts
    <3> QED
      BY <3>1, <3>2
  <2>7. Places'
    <3> SUFFICES ASSUME NEW i \in IP, NEW f \in Event
                 PROVE  PlacesTaken(served'[i][f], counters'[i][f], f)
      BY DEF Places
    <3>0. PlacesTaken(served[i][f], counters[i][f], f)
      BY DEF IInv, Places
    <3>1. CASE i = ip /\ f = e
      <4>1. served[i][f] \in SUBSET Served /\ counters[i][f].windowStart <= clock
        BY DEF TypeOK, IInv, PastOnly
      <4>2. \/ served'[i][f] \subseteq served[i][f]
            \/ /\ c.count <= Limit[e]
               /\ served'[i][f] \subseteq served[i][f] \cup {[at |-> clock, place |-> c.count]}
        BY <1>1, <1>3, <3>1 DEF CountedEffect, LetThrough, TypeOK, c
      <4>3. PlacesTaken(served'[i][f], c, e)
        BY <1>1, <3>0, <3>1, <4>1, <4>2, PlacesCounted DEF c
      <4> QED
        BY <2>3, <3>1, <4>3
    <3>2. CASE i # ip \/ f # e
      <4>1. served'[i][f] = served[i][f] /\ counters'[i][f] = counters[i][f]
        BY <1>1, <1>3, <2>3, <3>2 DEF CountedEffect, LetThrough, TypeOK
      <4> QED
        BY <3>0, <4>1
    <3> QED
      BY <3>1, <3>2
  <2> QED
    BY <2>5, <2>6, <2>7 DEF IInv
<1> QED
  BY <1>1, <1>2, <1>3, AllowEffect

\* The inductive invariant holds in every reachable state of the limiter.
THEOREM Inductive == Spec => [](TypeOK /\ IInv)
<1>1. NewRateLimiter => IInv
  BY DEF NewRateLimiter, IInv, PastOnly, BanOutlasts, Places, PlacesTaken
<1>2. TypeOK /\ TypeOK' /\ IInv /\ [Next]_vars => IInv'
  <2> SUFFICES ASSUME TypeOK, TypeOK', IInv, [Next]_vars PROVE IInv'
    OBVIOUS
  <2>1. CASE Tick
    <3>1. clock' = clock + 1 /\ UNCHANGED limiter /\ clock \in Nat
      BY <2>1 DEF Tick, TypeOK
    <3>2. PastOnly'
      BY <3>1 DEF limiter, IInv, PastOnly, TypeOK, Counter
    <3>3. BanOutlasts' /\ Places'
      BY <3>1 DEF limiter, IInv, BanOutlasts, Places
    <3> QED
      BY <3>2, <3>3 DEF IInv
  <2>2. CASE UNCHANGED <<clock, limiter>>
    BY <2>2 DEF limiter, IInv, PastOnly, BanOutlasts, Places
  <2> QED
    BY <2>1, <2>2, WrapAllowIInv DEF Next, WrapIsBanned, vars
<1> QED
  BY <1>1, <1>2, TypeCorrect, PTL DEF Spec

\* When a ban runs out every counting window is over and no violation that
\* led to it still counts.
THEOREM FreshAfterBan == Spec => []BanStartsAfresh
<1>1. TypeOK /\ IInv => BanStartsAfresh
  <2> SUFFICES ASSUME TypeOK, IInv, NEW ip \in IP, quiet[ip], ~IsBannedLocked(ip)
               PROVE  (\A e \in Event : WindowOver(counters[ip][e], e)) /\ Recent(ip) = {}
    BY DEF BanStartsAfresh
  <2>1. banExpiry[ip] <= clock /\ ~permanent[ip] /\ clock \in Nat /\ banExpiry[ip] \in Nat
    BY DEF IsBannedLocked, IInv, BanOutlasts, TypeOK
  <2>2. \A e \in Event : clock - counters[ip][e].windowStart >= Window[e]
    BY <2>1 DEF IInv, BanOutlasts, TypeOK, Counter
  <2>3. \A v \in violations[ip] : clock - v.at >= ViolationWindow
    BY <2>1 DEF IInv, BanOutlasts, TypeOK
  <2>4. \A v \in violations[ip] : ~(clock - v.at < ViolationWindow)
    BY <2>1, <2>3 DEF TypeOK
  <2> QED
    BY <2>2, <2>4 DEF WindowOver, Recent
<1> QED
  BY <1>1, Inductive, PTL

\* However requests straddle a window boundary, an interval as long as a
\* window sees at most twice the limit: those of the current counting window
\* and those of the one before have a place each.
THEOREM ServedBound == Spec => []ServedAtMostTwiceTheLimit
<1>1. TypeOK /\ IInv => ServedAtMostTwiceTheLimit
  <2> SUFFICES ASSUME TypeOK, IInv, NEW ip \in IP, NEW e \in Event
               PROVE  ServedInPastWindow(ip, e) <= 2 * Limit[e]
    BY DEF ServedAtMostTwiceTheLimit
  <2> DEFINE S == {r \in served[ip][e] : r.at + Window[e] > clock}
             c == counters[ip][e]
             L == Limit[e]
             f == [r \in S |-> IF r.at >= c.windowStart THEN r.place ELSE L + r.place]
  <2>1. /\ L \in Nat /\ Window[e] \in Nat /\ clock \in Nat /\ c.windowStart \in Nat
        /\ c.windowStart <= clock
    BY DEF TypeOK, Counter, IInv, PastOnly
  <2>2. \A r \in S : r.at \in Nat /\ r.place \in 1..L /\ r.at + Window[e] > clock
    BY DEF TypeOK, Served, IInv, Places, PlacesTaken
  <2>3. /\ \A r, q \in S : r.at >= c.windowStart /\ q.at >= c.windowStart /\ r.place = q.place => r = q
        /\ \A r, q \in S : /\ r.at < c.windowStart /\ r.at + Window[e] > c.windowStart
                           /\ q.at < c.windowStart /\ q.at + Window[e] > c.windowStart
                           /\ r.place = q.place
                           => r = q
    BY DEF IInv, Places, PlacesTaken
  <2> HIDE DEF S, c, L
  <2>4. f \in [S -> 1..(2 * L)]
    BY <2>1, <2>2
  <2>5. ASSUME NEW r \in S, NEW q \in S, f[r] = f[q] PROVE r = q
    <3>1. CASE r.at >= c.windowStart /\ q.at >= c.windowStart
      BY <2>3, <2>5, <3>1
    <3>2. CASE r.at >= c.windowStart /\ ~(q.at >= c.windowStart)
      BY <2>1, <2>2, <2>5, <3>2
    <3>3. CASE ~(r.at >= c.windowStart) /\ q.at >= c.windowStart
      BY <2>1, <2>2, <2>5, <3>3
    <3>4. CASE ~(r.at >= c.windowStart) /\ ~(q.at >= c.windowStart)
      <4>1. r.place = q.place
        BY <2>1, <2>2, <2>5, <3>4
      <4>2. /\ r.at < c.windowStart /\ r.at + Window[e] > c.windowStart
            /\ q.at < c.windowStart /\ q.at + Window[e] > c.windowStart
        BY <2>1, <2>2, <3>4
      <4> QED
        BY <2>3, <4>1, <4>2
    <3> QED
      BY <3>1, <3>2, <3>3, <3>4
  <2>6. f \in Injection(S, 1..(2 * L))
    BY <2>4, <2>5 DEF Injection, IsInjective
  <2>7. IsFiniteSet(1..(2 * L)) /\ Cardinality(1..(2 * L)) <= 2 * L
    <3> DEFINE N == 2 * L
    <3>1. 1 \in Int /\ N \in Int /\ N >= 0
      BY <2>1
    <3> HIDE DEF N
    <3>2. /\ IsFiniteSet(1..N)
          /\ Cardinality(1..N) = IF 1 > N THEN 0 ELSE N - 1 + 1
      BY <3>1, FS_Interval, Zenon
    <3>3. Cardinality(1..N) <= N
      BY <3>1, <3>2
    <3> QED
      BY <3>2, <3>3 DEF N
  <2>8. Cardinality(S) <= Cardinality(1..(2 * L)) /\ Cardinality(S) \in Nat
    BY <2>6, <2>7, FS_Injection, FS_CardinalityType
  <2>9. Cardinality(1..(2 * L)) \in Nat /\ 2 * L \in Nat
    BY <2>1, <2>7, FS_CardinalityType
  <2> QED
    BY <2>7, <2>8, <2>9 DEF ServedInPastWindow, S, L
<1> QED
  BY <1>1, Inductive, PTL

=============================================================================
