----------------------------- MODULE TokenBucket -----------------------------
(***************************************************************************)
(* RateLimitService.checkTokenBucket behind TokenBucketRateLimitGuard, for *)
(* one identifier, hence one Redis key                                     *)
(* rate_limit:token_bucket:<identifier>, which every rate limited route of *)
(* the API shares.                                                         *)
(*                                                                         *)
(* A request samples Date.now() on its own host, then sends a Lua script   *)
(* to Redis, where the script runs atomically some time later.  Several    *)
(* instances of the API do this at once, so samples reach Redis out of     *)
(* order and may be skewed.  Redis expires the key by its own clock, which *)
(* is the clock of this module.                                            *)
(***************************************************************************)
EXTENDS Integers

CONSTANTS
    Callers,         \* requests that may be in the limiter at the same time
    Routes,          \* routes with a @RateLimit decorator
    Watched,         \* the route whose admissions the properties count
    Capacity,        \* Capacity[r]: bucket capacity of route r
    RateNum,         \* RateNum[r] / RateDen: tokens per second of route r
    RateDen,
    Window,          \* Window[r]: windowSeconds of route r
    Sec,             \* clock ticks in a second (1000 in the code)
    SkipIfRedisDown, \* RATE_LIMIT_SKIP_IF_REDIS_DOWN
    MaxBehind,       \* how far a host's clock may be behind Redis' clock
    MaxAhead,        \* how far it may be ahead
    MaxDelay,        \* longest time from sampling now to the script's run
    MaxClock,        \* bound on the clock
    MaxAdmitted,     \* bound on the requests counted without a token
    None             \* absence: no key, no request in flight, no promise

ASSUME LimitsAssumption ==
    /\ Watched \in Routes
    /\ Capacity \in [Routes -> Nat \ {0}]
    /\ RateNum \in [Routes -> Nat \ {0}]
    /\ Window \in [Routes -> Nat \ {0}]
    /\ RateDen \in Nat \ {0}
    /\ Sec \in Nat \ {0}
    /\ SkipIfRedisDown \in BOOLEAN

ASSUME BoundsAssumption ==
    /\ {MaxBehind, MaxAhead, MaxDelay, MaxClock, MaxAdmitted} \subseteq Nat

VARIABLES
    clock,    \* time at Redis
    bucket,   \* the hash at the key, with the time its EXPIRE falls due
    call,     \* call[c]: the script c sent and has no answer to
    healthy,  \* RedisService.isHealthy(), as this module's callers read it
    winStart, \* history: when the observed window began,
    winFull,  \* history: whether the bucket was full then and served in order since,
    spent,    \* history: tokens the watched route took in the window,
    admitted, \* history: its requests let through in the window
    promise   \* history: the latest refusal's retry time, until a token goes

vars == <<clock, bucket, call, healthy, winStart, winFull, spent, admitted, promise>>
observed == <<winStart, winFull>>

-----------------------------------------------------------------------------
(* A token is RateDen * Sec units; a tick of route r refills RateNum[r].   *)
Unit == RateDen * Sec

Bucket == [tokens : Int, lastRefill : Int, expireAt : Int]
Request == [route : Routes, now : Int, sentAt : Int]
Promise == [route : Routes, at : Int]

ASSUME NoneAssumption == None \notin Bucket \cup Request \cup Promise

Least(a, b) == IF a < b THEN a ELSE b
FloorDiv(a, b) == a \div b   \* a seeded fault: see README, mutants
CeilDiv(a, b) == -((-a) \div b)

\* Seeded fault: the time passed is taken in whole seconds.
TokensFor_WholeSeconds(r, passed) == ((passed \div Sec) * Sec * RateNum[r]) \div Unit

\* math.floor(timePassed * refillRate); negative when now precedes lastRefill
TokensFor(r, passed) == (passed * RateNum[r]) \div Unit

\* Seeded fault: the refill is not capped.
Refilled_Uncapped(r, now) ==
    IF bucket = None THEN Capacity[r]
    ELSE bucket.tokens + TokensFor(r, now - bucket.lastRefill)

\* The tokens the script computes for route r at time now.
Refilled(r, now) ==
    IF bucket = None
      THEN Capacity[r]
      ELSE Least(Capacity[r],
                 bucket.tokens + TokensFor(r, now - bucket.lastRefill))

\* The refusal's resetTime: now + timeNeeded * 1000.
RetryAt(r, now) == now + Sec * CeilDiv((1 - Refilled(r, now)) * RateDen, RateNum[r])

\* Seeded faults: a key without expiry; an expiry in the wrong
\* unit; a token charged twice.
Taken_NoExpiry(r, now) == [tokens |-> Refilled(r, now) - 1, lastRefill |-> now]
Taken_ShortExpiry(r, now) ==
    [tokens |-> Refilled(r, now) - 1, lastRefill |-> now, expireAt |-> clock + Window[r]]
Taken_Twice(r, now) ==
    [tokens |-> Refilled(r, now) - 2, lastRefill |-> now, expireAt |-> clock + Window[r] * Sec]

\* What HMSET and EXPIRE leave at the key when the script takes a token.
Taken(r, now) ==
    [tokens |-> Refilled(r, now) - 1,
     lastRefill |-> now,
     expireAt |-> clock + Window[r] * Sec]

Idle(c) == call[c] = None
InFlight(c) == call[c] # None

TypeOK ==
    /\ clock \in Nat
    /\ bucket \in Bucket \cup {None}
    /\ call \in [Callers -> Request \cup {None}]
    /\ healthy \in BOOLEAN
    /\ winStart \in Nat
    /\ winFull \in BOOLEAN
    /\ spent \in Nat
    /\ admitted \in Nat
    /\ promise \in Promise \cup {None}

-----------------------------------------------------------------------------
Init ==
    /\ clock = 0
    /\ bucket = None
    /\ call = [c \in Callers |-> None]
    /\ healthy = TRUE
    /\ winStart = 0
    /\ winFull = TRUE
    /\ spent = 0
    /\ admitted = 0
    /\ promise = None

Counted(r) == IF r = Watched THEN 1 ELSE 0

\* The guard samples now and sends the script.
Check(c, r, skew) ==
    /\ healthy
    /\ Idle(c)
    /\ call' = [call EXCEPT ![c] = [route |-> r, now |-> clock + skew, sentAt |-> clock]]
    /\ UNCHANGED <<clock, bucket, healthy, spent, admitted, promise, observed>>

\* Redis is flagged down: the request passes, or is denied and changes nothing.
Unhealthy(r) ==
    /\ ~healthy
    /\ SkipIfRedisDown => admitted < MaxAdmitted
    /\ admitted' = admitted + IF SkipIfRedisDown THEN Counted(r) ELSE 0
    /\ UNCHANGED <<clock, bucket, call, healthy, spent, promise, observed>>

\* A sample of this window that no later sample has overtaken.
InOrder(now) == winStart <= now /\ (bucket # None => bucket.lastRefill <= now)

\* The script takes a token for c's request and restarts the key's expiry.
TakeToken(c) ==
    LET r == call[c].route
        now == call[c].now
    IN  /\ InFlight(c)
        /\ Refilled(r, now) >= 1
        /\ bucket' = Taken(r, now)
        /\ spent' = spent + Counted(r)
        /\ promise' = None
        /\ winFull' = (winFull /\ InOrder(now))
        /\ UNCHANGED <<clock, healthy, winStart>>

Grant(c) ==
    /\ TakeToken(c)
    /\ admitted' = admitted + Counted(call[c].route)
    /\ call' = [call EXCEPT ![c] = None]

\* The answer is lost with the connection: ioredis sends the script again.
GrantAnswerLost(c) ==
    /\ TakeToken(c)
    /\ UNCHANGED <<admitted, call>>

\* Too few tokens: the script writes nothing and names a time to retry.
Refuse(c) ==
    LET r == call[c].route
        now == call[c].now
    IN  /\ InFlight(c)
        /\ Refilled(r, now) < 1
        /\ call' = [call EXCEPT ![c] = None]
        /\ promise' = [route |-> r, at |-> RetryAt(r, now)]
        /\ UNCHANGED <<clock, bucket, healthy, spent, admitted, observed>>

\* Seeded fault: the catch block always fails open.
EvalFails_Open(c) ==
    /\ InFlight(c)
    /\ call' = [call EXCEPT ![c] = None]
    /\ admitted' = admitted + Counted(call[c].route)
    /\ UNCHANGED <<clock, bucket, healthy, spent, promise, observed>>

\* eval rejects: the catch block fails open or closed.
EvalFails(c) ==
    /\ InFlight(c)
    /\ SkipIfRedisDown => admitted < MaxAdmitted
    /\ call' = [call EXCEPT ![c] = None]
    /\ admitted' = admitted + IF SkipIfRedisDown THEN Counted(call[c].route) ELSE 0
    /\ UNCHANGED <<clock, bucket, healthy, spent, promise, observed>>

LinkChange ==
    /\ healthy' = ~healthy
    /\ UNCHANGED <<clock, bucket, call, spent, admitted, promise, observed>>

\* Time passes; a key whose expiry falls due is gone.
Tick ==
    /\ clock < MaxClock
    /\ \A c \in Callers : InFlight(c) => clock < call[c].sentAt + MaxDelay
    /\ clock' = clock + 1
    /\ bucket' = IF bucket # None /\ bucket.expireAt <= clock + 1 THEN None ELSE bucket
    /\ UNCHANGED <<call, healthy, spent, admitted, promise, observed>>

\* The observer starts a new window: properties hold of every window.
Observe ==
    /\ winStart' = clock
    /\ winFull' = (Refilled(Watched, clock) = Capacity[Watched])
    /\ spent' = 0
    /\ admitted' = 0
    /\ UNCHANGED <<clock, bucket, call, healthy, promise>>

Next ==
    \/ \E c \in Callers, r \in Routes, skew \in -MaxBehind .. MaxAhead : Check(c, r, skew)
    \/ \E r \in Routes : Unhealthy(r)
    \/ \E c \in Callers : Grant(c)
    \/ \E c \in Callers : GrantAnswerLost(c)
    \/ \E c \in Callers : Refuse(c)
    \/ \E c \in Callers : EvalFails(c)
    \/ LinkChange
    \/ Tick
    \/ Observe

Spec == Init /\ [][Next]_vars

-----------------------------------------------------------------------------
(* Limits under which the bucket keeps the watched route's promise: no     *)
(* other route of the identifier refills it faster or holds more, a slower *)
(* one only if samples reach Redis at once (a stale sample of a slower     *)
(* route moves lastRefill back by more than it takes away), and a key      *)
(* expires no sooner than it would have refilled.                          *)
Slack == MaxDelay + MaxBehind
WatchedLargest ==
    \A r \in Routes :
        /\ Capacity[r] <= Capacity[Watched]
        /\ Window[r] >= Window[Watched]
        /\ \/ RateNum[r] = RateNum[Watched]
           \/ RateNum[r] < RateNum[Watched] /\ Slack + MaxAhead = 0
WindowCovers ==
    Unit * Capacity[Watched] <= RateNum[Watched] * (Window[Watched] * Sec - Slack - MaxAhead)

\* What the configured limit allows in the observed window, in units of a
\* token: a full bucket, and the refill of the time that passed, as far as
\* the requests' clocks agree.
Allowance ==
    Unit * Capacity[Watched] + RateNum[Watched] * (clock - winStart + Slack + MaxAhead)

\* In every window the watched route takes at most a full bucket of tokens
\* and the refill of the window (README.md:148-149), whatever the order in
\* which scripts reach Redis, answers are lost and keys expire.
SpendBound == spent * Unit <= Allowance

\* When the limiter fails closed, requests let through are bounded in the
\* same way: no failure path admits a request that took no token.
AdmissionBound == SkipIfRedisDown \/ admitted * Unit <= Allowance

\* The inductive strengthening of the two bounds.  Potential is what the
\* bucket holds now, in units of a token, before it is capped.
Potential == bucket.tokens * Unit + (clock - bucket.lastRefill) * RateNum[Watched]

\* A request in flight was sampled recently, by a host whose clock agrees.
CallsRecent ==
    \A c \in Callers : InFlight(c) =>
        /\ call[c].sentAt <= clock
        /\ clock <= call[c].sentAt + MaxDelay
        /\ call[c].sentAt - MaxBehind <= call[c].now
        /\ call[c].now <= call[c].sentAt + MaxAhead

\* The stored bucket holds less than a capacity, was stamped no later than
\* its expiry allows, and has not expired.
BucketStored ==
    bucket # None =>
        /\ 0 <= bucket.tokens
        /\ bucket.tokens < Capacity[Watched]
        /\ bucket.lastRefill <= clock + MaxAhead
        /\ bucket.lastRefill + Window[Watched] * Sec <= bucket.expireAt + MaxAhead

\* Either the window's tokens are within its refill alone, or they and the
\* bucket's potential are within a capacity and the refill.
SpendAccounted ==
    \/ spent * Unit <= RateNum[Watched] * (clock - winStart)
    \/ /\ bucket # None
       /\ spent * Unit + Potential
              <= Unit * Capacity[Watched] + RateNum[Watched] * (clock - winStart + Slack)

\* What the bounds rest on: requests in flight are recent, the stored bucket
\* outlives its own refill, and tokens taken are accounted for.
IInv ==
    /\ TypeOK
    /\ winStart <= clock
    /\ CallsRecent
    /\ BucketStored
    /\ SpendAccounted
    /\ SkipIfRedisDown \/ admitted <= spent

\* A client refused with retryAfter that retries no sooner is granted, unless
\* somebody took a token in between.
RetryHonoured ==
    promise # None /\ clock >= promise.at => Refilled(promise.route, clock) >= 1

\* "Refills at a constant rate" (README.md:149), as far as the code keeps
\* it: each grant throws a fraction of a token away (rate-limit.service.ts:82),
\* but whoever comes the time of one token after the last grant is never
\* refused, in whatever order scripts ran and were sent again.
SteadyServed ==
    [][\A c \in Callers : Refuse(c) =>
          /\ bucket # None
          /\ call[c].now < bucket.lastRefill + CeilDiv(Unit, RateNum[call[c].route])]_vars

\* "Allows bursts up to bucket capacity" (README.md:148): from a full bucket,
\* no request is refused before a whole capacity of tokens is gone, as long
\* as requests reach Redis in the order they were sampled.
BurstAllowed ==
    [][\A c \in Callers :
          winFull /\ Refuse(c) /\ InOrder(call[c].now) => spent >= Capacity[Watched]]_vars

-----------------------------------------------------------------------------
(* The rate.  Measured in units, the stored tokens are a bucket that fills *)
(* at the constant rate of the limit.                                      *)
StoredUnits ==
    IF bucket = None
      THEN None
      ELSE [units |-> bucket.tokens * Unit,
            stamp |-> bucket.lastRefill,
            forgetAt |-> bucket.expireAt]

Steady == INSTANCE RateBucket WITH
    Token <- Unit,
    Burst <- Capacity,
    Rate <- RateNum,
    Second <- Sec,
    Life <- [r \in Routes |-> Window[r] * Sec],
    store <- StoredUnits

ASSUME StoreAbsenceAssumption == None \notin Steady!Store

\* "Refills at a constant rate" (README.md:149): a request is granted exactly
\* when a bucket of the configured rate holds a whole token for it, each grant
\* costs a token and less than one more (rate-limit.service.ts:82 floors the
\* refill and moves lastRefill), a refusal names a time when the token will be
\* there, and lost answers, failures and other routes' limits change nothing.
ImplementsRateBucket == Steady!Spec
=============================================================================
