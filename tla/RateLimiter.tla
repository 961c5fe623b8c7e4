---------------------------- MODULE RateLimiter ----------------------------
(***************************************************************************)
(* internal/relay/ratelimit.go and the HTTP wrapper that calls it          *)
(* (rateLimitWrap in relay.go): a fixed-window counter per IP and event,   *)
(* violations, and progressive bans.                                       *)
(*                                                                         *)
(* Each request runs in a goroutine of its own.  IsBanned and Allow take   *)
(* RateLimiter.mu one after the other, so a request is two steps and any   *)
(* number of other requests may be decided between them.                   *)
(*                                                                         *)
(* Times are whole seconds.  Time 0 is Go's zero time (no ban yet); the    *)
(* clock starts at 1.  A counter with count 0 is one the map does not hold.*)
(* An event is violated at most once per instant, so the list of violation *)
(* times is a set of (time, event) pairs.                                  *)
(*                                                                         *)
(* The limiter never forgets an IP; the ever-growing map is not modelled.  *)
(* A definition XBug is a plausible mistake in X, used only to see that    *)
(* the properties below notice it.                                         *)
(***************************************************************************)
EXTENDS Naturals, FiniteSets

CONSTANTS
    IP,
    Event,              \* EventConnection, EventRegistration
    Request,            \* goroutines serving a request
    Idle,               \* a goroutine between two requests
    Limit,              \* config.limitFor
    Window,             \* config.windowFor, in seconds
    BanMultiplier,      \* protocol.RateLimitBanMultiplier
    ViolationBanCount,  \* protocol.RateLimitViolationBanCount
    ViolationWindow,    \* protocol.RateLimitViolationWindow
    BanDurationFirst,   \* protocol.BanDurationFirst
    BanDurationSecond,  \* protocol.BanDurationSecond
    MaxTime             \* bound on the clock

ASSUME IdleAssumption  == Idle \notin [ip : IP, event : Event]
ASSUME LimitAssumption == Limit \in [Event -> Nat \ {0}] /\ Window \in [Event -> Nat \ {0}]
ASSUME BanAssumption   == /\ BanMultiplier \in Nat \ {0, 1}
                          /\ ViolationBanCount \in Nat \ {0}
                          /\ ViolationWindow \in Nat \ {0}
                          /\ MaxTime \in Nat
\* The default durations: no ban is shorter than a counting window or than
\* the hour in which violations add up (3600 s, 86400 s; 60 s, 3600 s).
ASSUME DurationAssumption ==
    /\ BanDurationFirst \in Nat /\ BanDurationSecond \in Nat
    /\ \A e \in Event : BanDurationFirst >= Window[e] /\ BanDurationSecond >= Window[e]
    /\ BanDurationFirst >= ViolationWindow /\ BanDurationSecond >= ViolationWindow

VARIABLES
    clock,
    counters,    \* ipState.counters
    violations,  \* ipState.violations
    banCount,    \* ipState.banCount
    banExpiry,   \* ipState.banExpiry
    permanent,   \* ipState.permanent
    request,     \* goroutine -> the request that passed IsBanned
    served,      \* history: requests let through in the past window, as
                 \* (time, place in the counting window)
    quiet        \* history: banned, and nothing counted since the ban

limiter == <<counters, violations, banCount, banExpiry, permanent, served, quiet>>
vars == <<clock, limiter, request>>

Counter == [count : Nat, windowStart : Nat]
Served  == [at : Nat, place : Nat]

-----------------------------------------------------------------------------

NewRateLimiter ==
    /\ clock = 1
    /\ counters = [ip \in IP |-> [e \in Event |-> [count |-> 0, windowStart |-> 0]]]
    /\ violations = [ip \in IP |-> {}]
    /\ banCount = [ip \in IP |-> 0]
    /\ banExpiry = [ip \in IP |-> 0]
    /\ permanent = [ip \in IP |-> FALSE]
    /\ request = [g \in Request |-> Idle]
    /\ served = [ip \in IP |-> [e \in Event |-> {}]]
    /\ quiet = [ip \in IP |-> FALSE]

\* isBannedLocked.
IsBannedLocked(ip) == permanent[ip] \/ (banExpiry[ip] # 0 /\ clock < banExpiry[ip])

\* The window of a counter is over (or the counter does not exist yet).
WindowOver(c, e) == c.count = 0 \/ clock - c.windowStart >= Window[e]

\* The counter of (ip, e) after this request has been counted.
Counted(ip, e) ==
    LET c == counters[ip][e]
    IN  IF WindowOver(c, e) THEN [count |-> 1, windowStart |-> clock]
                            ELSE [c EXCEPT !.count = c.count + 1]

\* The violations that recordViolation keeps.
RecentBug(ip) == {v \in violations[ip] : clock - v.at <= ViolationWindow}
Recent(ip) == {v \in violations[ip] : clock - v.at < ViolationWindow}

\* bannedAt.Add(duration)
ExpiryBug(duration) == clock - duration
Expiry(duration) == clock + duration

ban(ip) ==
    /\ banCount' = [banCount EXCEPT ![ip] = banCount[ip] + 1]
    /\ \/ /\ banCount[ip] = 0
          /\ banExpiry' = [banExpiry EXCEPT ![ip] = Expiry(BanDurationFirst)]
          /\ UNCHANGED permanent
       \/ /\ banCount[ip] = 1
          /\ banExpiry' = [banExpiry EXCEPT ![ip] = Expiry(BanDurationSecond)]
          /\ UNCHANGED permanent
       \/ /\ banCount[ip] > 1
          /\ permanent' = [permanent EXCEPT ![ip] = TRUE]
          /\ UNCHANGED banExpiry
    /\ quiet' = [quiet EXCEPT ![ip] = TRUE]

NoBan(ip) ==
    /\ quiet' = [quiet EXCEPT ![ip] = FALSE]
    /\ UNCHANGED <<banCount, banExpiry, permanent>>

recordViolation(ip, e) ==
    LET recent == Recent(ip) \cup {[at |-> clock, event |-> e]}
    IN  /\ violations' = [violations EXCEPT ![ip] = recent]
        /\ IF Cardinality(recent) >= ViolationBanCount THEN ban(ip) ELSE NoBan(ip)

\* The comparison with the limit once the ban threshold is not reached.
UnderLimitBug(c, e) == c.count < Limit[e] * BanMultiplier
UnderLimit(c, e) == c.count <= Limit[e]

\* Allow refuses a banned IP without counting.
AllowBannedBug(ip) == FALSE
AllowBanned(ip) == IsBannedLocked(ip)

\* The history after a request has been let through as number n.
LetThrough(ip, e, n) ==
    [served EXCEPT ![ip][e] =
        {r \in served[ip][e] : r.at + Window[e] > clock} \cup {[at |-> clock, place |-> n]}]

\* Allow returns true in its last disjunct only.
Allow(ip, e) ==
    \/ /\ AllowBanned(ip)
       /\ UNCHANGED limiter
    \/ /\ ~AllowBanned(ip)
       /\ LET c == Counted(ip, e)
          IN  /\ counters' = [counters EXCEPT ![ip][e] = c]
              /\ \/ /\ c.count >= Limit[e] * BanMultiplier
                    /\ ban(ip)
                    /\ UNCHANGED <<violations, served>>
                 \/ /\ c.count < Limit[e] * BanMultiplier
                    /\ ~UnderLimit(c, e)
                    /\ c.count = Limit[e] + 1
                    /\ recordViolation(ip, e)
                    /\ UNCHANGED served
                 \/ /\ c.count < Limit[e] * BanMultiplier
                    /\ ~UnderLimit(c, e)
                    /\ c.count # Limit[e] + 1
                    /\ NoBan(ip)
                    /\ UNCHANGED <<violations, served>>
                 \/ /\ c.count < Limit[e] * BanMultiplier
                    /\ UnderLimit(c, e)
                    /\ served' = LetThrough(ip, e, c.count)
                    /\ NoBan(ip)
                    /\ UNCHANGED violations

\* rateLimitWrap up to the call of IsBanned; a banned IP is answered with 403
\* and nothing changes ...
WrapIsBanned(g, ip, e) ==
    /\ request[g] = Idle
    /\ ~IsBannedLocked(ip)
    /\ request' = [request EXCEPT ![g] = [ip |-> ip, event |-> e]]
    /\ UNCHANGED <<clock, limiter>>

\* ... and from there on: 429, or the handler of the endpoint.
WrapAllow(g) ==
    /\ request[g] # Idle
    /\ Allow(request[g].ip, request[g].event)
    /\ request' = [request EXCEPT ![g] = Idle]
    /\ UNCHANGED clock

Tick ==
    /\ clock < MaxTime
    /\ clock' = clock + 1
    /\ UNCHANGED <<limiter, request>>

Next ==
    \/ \E g \in Request, ip \in IP, e \in Event : WrapIsBanned(g, ip, e)
    \/ \E g \in Request : WrapAllow(g)
    \/ Tick

Spec == NewRateLimiter /\ [][Next]_vars

-----------------------------------------------------------------------------

\* Every variable has its type.
TypeOK ==
    /\ clock \in Nat
    /\ counters \in [IP -> [Event -> Counter]]
    /\ violations \in [IP -> SUBSET [at : Nat, event : Event]]
    /\ banCount \in [IP -> Nat]
    /\ banExpiry \in [IP -> Nat]
    /\ permanent \in [IP -> BOOLEAN]
    /\ request \in [Request -> [ip : IP, event : Event] \cup {Idle}]
    /\ served \in [IP -> [Event -> SUBSET Served]]
    /\ quiet \in [IP -> BOOLEAN]

\* Requests of (ip, e) let through in the Window[e] seconds that end now.
ServedInPastWindow(ip, e) ==
    Cardinality({r \in served[ip][e] : r.at + Window[e] > clock})

\* What the fixed windows do guarantee: however requests straddle a window
\* boundary, no interval as long as a window sees more than twice the limit.
ServedAtMostTwiceTheLimit ==
    \A ip \in IP, e \in Event : ServedInPastWindow(ip, e) <= 2 * Limit[e]

\* No request is let through while its IP is banned, although the ban may
\* have come after the request passed IsBanned.
BannedNeverServed ==
    [][\A ip \in IP : IsBannedLocked(ip) => served'[ip] = served[ip]]_vars

\* A burst of requests that had all passed IsBanned counts for one ban: the
\* ban counter only moves when no ban is in force, and a ban in force is
\* neither shortened nor lifted by a request.
OneBanAtATime ==
    [][\A ip \in IP : IsBannedLocked(ip) =>
         /\ banCount'[ip] = banCount[ip]
         /\ banExpiry'[ip] = banExpiry[ip]
         /\ permanent'[ip] = permanent[ip]]_vars

\* When a ban runs out the IP starts afresh: every counting window is over
\* and no violation that led to the ban counts towards the next one.
BanStartsAfresh ==
    \A ip \in IP : quiet[ip] /\ ~IsBannedLocked(ip) =>
        /\ \A e \in Event : WindowOver(counters[ip][e], e)
        /\ Recent(ip) = {}

=============================================================================
