----------------------------- MODULE LeakyBucket -----------------------------
(***************************************************************************)
(* RateLimitService.checkLeakyBucket for one identifier and one route: the *)
(* strategy a route picks with strategy: 'leaky_bucket'.  Requests reach   *)
(* Redis as they do in TokenBucket; the script counts the requests in the  *)
(* bucket instead of the tokens left.                                      *)
(*                                                                         *)
(* The abstraction: a bucket of level n is TokenBucket's bucket of         *)
(* Capacity - n tokens, and checkLeakyBucket implements checkTokenBucket.  *)
(***************************************************************************)
EXTENDS Integers

CONSTANTS
    Callers,         \* requests that may be in the limiter at the same time
    Route,           \* the route
    Capacity,        \* its bucket capacity
    LeakNum,         \* LeakNum / LeakDen: leakRate, requests a second
    LeakDen,
    Window,          \* windowSeconds
    Sec,             \* clock ticks in a second
    SkipIfRedisDown, \* RATE_LIMIT_SKIP_IF_REDIS_DOWN
    MaxBehind,       \* the clocks and the bounds, as in TokenBucket
    MaxAhead,
    MaxDelay,
    MaxClock,
    MaxAdmitted,
    None

ASSUME LeakAssumption ==
    /\ {Capacity, LeakNum, LeakDen, Window, Sec} \subseteq Nat \ {0}
    /\ SkipIfRedisDown \in BOOLEAN
    /\ {MaxBehind, MaxAhead, MaxDelay, MaxClock, MaxAdmitted} \subseteq Nat

VARIABLES
    clock,    \* time at Redis
    bucket,   \* the hash at the key, with the time its EXPIRE falls due
    call,     \* call[c]: the script c sent and has no answer to
    healthy,  \* RedisService.isHealthy()
    winStart, \* history: when the observed window began,
    winEmpty, \* history: whether the bucket was empty then and served in order since,
    poured,   \* history: requests put in the bucket in the window,
    admitted, \* history: requests let through in the window
    promise   \* history: the latest refusal's retry time, until one gets in

vars == <<clock, bucket, call, healthy, winStart, winEmpty, poured, admitted, promise>>
observed == <<winStart, winEmpty>>

-----------------------------------------------------------------------------
\* A request in the bucket is LeakDen * Sec units; LeakNum leak in a tick.
Unit == LeakDen * Sec

Bucket == [level : Int, lastLeak : Int, expireAt : Int]
Request == [now : Int, sentAt : Int]

ASSUME AbsenceAssumption == None \notin Bucket \cup Request \cup Int

CeilDiv(a, b) == -((-a) \div b)

\* math.floor(timePassed * leakRate)
Leaked(passed) == (passed * LeakNum) \div Unit

\* Seeded fault: a bucket may hold less than nothing.
LevelAt_BelowZero(now) ==
    IF bucket = None THEN 0 ELSE bucket.level - Leaked(now - bucket.lastLeak)

\* The level the script computes at time now.
LevelAt(now) ==
    LET level == bucket.level - Leaked(now - bucket.lastLeak)
    IN  IF bucket = None \/ level < 0 THEN 0 ELSE level

\* The refusal's resetTime.
RetryAt(now) == now + Sec * CeilDiv((LevelAt(now) - Capacity + 1) * LeakDen, LeakNum)

TypeOK ==
    /\ clock \in Nat
    /\ bucket \in Bucket \cup {None}
    /\ call \in [Callers -> Request \cup {None}]
    /\ healthy \in BOOLEAN
    /\ winStart \in Nat
    /\ winEmpty \in BOOLEAN
    /\ poured \in Nat
    /\ admitted \in Nat
    /\ promise \in Int \cup {None}

Init ==
    /\ clock = 0
    /\ bucket = None
    /\ call = [c \in Callers |-> None]
    /\ healthy = TRUE
    /\ winStart = 0
    /\ winEmpty = TRUE
    /\ poured = 0
    /\ admitted = 0
    /\ promise = None

-----------------------------------------------------------------------------
\* The guard samples now and sends the script.
Check(c, skew) ==
    /\ healthy
    /\ call[c] = None
    /\ call' = [call EXCEPT ![c] = [now |-> clock + skew, sentAt |-> clock]]
    /\ UNCHANGED <<clock, bucket, healthy, poured, admitted, promise, observed>>

\* Redis is flagged down: the request passes, or is denied and changes nothing.
Unhealthy ==
    /\ ~healthy
    /\ SkipIfRedisDown => admitted < MaxAdmitted
    /\ admitted' = admitted + IF SkipIfRedisDown THEN 1 ELSE 0
    /\ UNCHANGED <<clock, bucket, call, healthy, poured, promise, observed>>

\* A sample of this window that no later sample has overtaken.
InOrder(now) == winStart <= now /\ (bucket # None => bucket.lastLeak <= now)

\* Seeded fault: HMSET without EXPIRE.
Pour_NoExpiry(c) ==
    LET now == call[c].now
    IN  /\ call[c] # None
        /\ LevelAt(now) < Capacity
        /\ bucket' = [level |-> LevelAt(now) + 1, lastLeak |-> now]
        /\ poured' = poured + 1
        /\ promise' = None
        /\ winEmpty' = (winEmpty /\ InOrder(now))
        /\ UNCHANGED <<clock, healthy, winStart>>

\* The script puts c's request in the bucket and restarts the key's expiry.
Pour(c) ==
    LET now == call[c].now
    IN  /\ call[c] # None
        /\ LevelAt(now) < Capacity
        /\ bucket' = [level |-> LevelAt(now) + 1,
                      lastLeak |-> now,
                      expireAt |-> clock + Window * Sec]
        /\ poured' = poured + 1
        /\ promise' = None
        /\ winEmpty' = (winEmpty /\ InOrder(now))
        /\ UNCHANGED <<clock, healthy, winStart>>

Grant(c) ==
    /\ Pour(c)
    /\ admitted' = admitted + 1
    /\ call' = [call EXCEPT ![c] = None]

\* The answer is lost with the connection: ioredis sends the script again.
GrantAnswerLost(c) ==
    /\ Pour(c)
    /\ UNCHANGED <<admitted, call>>

\* The bucket is full: the script writes nothing and names a time to retry.
Refuse(c) ==
    LET now == call[c].now
    IN  /\ call[c] # None
        /\ LevelAt(now) >= Capacity
        /\ call' = [call EXCEPT ![c] = None]
        /\ promise' = RetryAt(now)
        /\ UNCHANGED <<clock, bucket, healthy, poured, admitted, observed>>

\* eval rejects: the catch block fails open or closed.
EvalFails(c) ==
    /\ call[c] # None
    /\ SkipIfRedisDown => admitted < MaxAdmitted
    /\ call' = [call EXCEPT ![c] = None]
    /\ admitted' = admitted + IF SkipIfRedisDown THEN 1 ELSE 0
    /\ UNCHANGED <<clock, bucket, healthy, poured, promise, observed>>

LinkChange ==
    /\ healthy' = ~healthy
    /\ UNCHANGED <<clock, bucket, call, poured, admitted, promise, observed>>

\* Time passes; a key whose expiry falls due is gone.
Tick ==
    /\ clock < MaxClock
    /\ \A c \in Callers : call[c] # None => clock < call[c].sentAt + MaxDelay
    /\ clock' = clock + 1
    /\ bucket' = IF bucket # None /\ bucket.expireAt <= clock + 1 THEN None ELSE bucket
    /\ UNCHANGED <<call, healthy, poured, admitted, promise, observed>>

\* The observer starts a new window: properties hold of every window.
Observe ==
    /\ winStart' = clock
    /\ winEmpty' = (LevelAt(clock) = 0)
    /\ poured' = 0
    /\ admitted' = 0
    /\ UNCHANGED <<clock, bucket, call, healthy, promise>>

Next ==
    \/ \E c \in Callers, skew \in -MaxBehind .. MaxAhead : Check(c, skew)
    \/ Unhealthy
    \/ \E c \in Callers : Grant(c)
    \/ \E c \in Callers : GrantAnswerLost(c)
    \/ \E c \in Callers : Refuse(c)
    \/ \E c \in Callers : EvalFails(c)
    \/ LinkChange
    \/ Tick
    \/ Observe

Spec == Init /\ [][Next]_vars

-----------------------------------------------------------------------------
\* The refinement mapping.
TokensLeft ==
    IF bucket = None
      THEN None
      ELSE [tokens |-> Capacity - bucket.level,
            lastRefill |-> bucket.lastLeak,
            expireAt |-> bucket.expireAt]

RequestsTagged ==
    [c \in Callers |->
        IF call[c] = None
          THEN None
          ELSE [route |-> Route, now |-> call[c].now, sentAt |-> call[c].sentAt]]

PromiseTagged == IF promise = None THEN None ELSE [route |-> Route, at |-> promise]

Token == INSTANCE TokenBucket WITH
    Routes <- {Route},
    Watched <- Route,
    Capacity <- [r \in {Route} |-> Capacity],
    RateNum <- [r \in {Route} |-> LeakNum],
    RateDen <- LeakDen,
    Window <- [r \in {Route} |-> Window],
    bucket <- TokensLeft,
    call <- RequestsTagged,
    winFull <- winEmpty,
    spent <- poured,
    promise <- PromiseTagged

ASSUME TokenAbsenceAssumption ==
    None \notin Token!Bucket \cup Token!Request \cup Token!Promise \cup Token!Steady!Store

\* The leaky bucket admits and refuses exactly when a token bucket of the
\* same capacity and rate may, and names the same time to retry, whatever
\* the order of requests, lost answers and expiries.
ImplementsTokenBucket == Token!Spec
=============================================================================
