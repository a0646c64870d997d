-------------------------- MODULE LeakyBucketProofs --------------------------
(***************************************************************************)
(* Proof that LeakyBucket implements TokenBucket, for any number of        *)
(* callers, any capacity, rate, window and clock skew: every step of the   *)
(* leaky bucket is a step of the token bucket whose tokens are the room    *)
(* left in it.                                                             *)
(***************************************************************************)
EXTENDS LeakyBucket, TLAPS

-----------------------------------------------------------------------------
\* Both scripts leak, or refill, the same amount.
LEMMA SameAmount ==
    ASSUME NEW passed \in Int
    PROVE  /\ Token!TokensFor(Route, passed) = Leaked(passed)
           /\ Leaked(passed) \in Int
<1>1. Unit \in Nat \ {0} /\ Token!Unit = Unit
  BY LeakAssumption DEF Unit, Token!Unit
<1>. QED
  BY <1>1, LeakAssumption DEF Token!TokensFor, Leaked

\* The mapped bucket is there exactly when the bucket is.
LEMMA SamePresence ==
    ASSUME TypeOK
    PROVE  /\ bucket = None <=> TokensLeft = None
           /\ bucket # None =>
                /\ bucket \in Bucket
                /\ TokensLeft.tokens = Capacity - bucket.level
                /\ TokensLeft.lastRefill = bucket.lastLeak
                /\ TokensLeft.expireAt = bucket.expireAt
<1>1. CASE bucket = None
  BY <1>1 DEF TokensLeft
<1>2. CASE bucket # None
  <2>1. bucket \in Bucket
    BY <1>2 DEF TypeOK
  <2>2. TokensLeft \in Token!Bucket
    BY <1>2, <2>1, LeakAssumption DEF Bucket, TokensLeft, Token!Bucket
  <2>. QED
    BY <1>2, <2>1, <2>2, TokenAbsenceAssumption DEF TokensLeft
<1>. QED
  BY <1>1, <1>2

\* The room a script computes is the tokens the other computes.
LEMMA SameRoom ==
    ASSUME TypeOK, NEW now \in Int
    PROVE  /\ LevelAt(now) \in Int
           /\ Token!Refilled(Route, now) = Capacity - LevelAt(now)
<1>1. CASE bucket = None
  BY <1>1, SamePresence, LeakAssumption DEF Token!Refilled, LevelAt
<1>2. CASE bucket # None
  <2>. DEFINE passed == now - bucket.lastLeak
              leaked == Leaked(passed)
              level == bucket.level
  <2>1. level \in Int /\ passed \in Int /\ Capacity \in Nat
    BY <1>2, SamePresence, LeakAssumption DEF Bucket
  <2>2. leaked \in Int /\ Token!TokensFor(Route, passed) = leaked
    BY <2>1, SameAmount
  <2>3. LevelAt(now) = IF level - leaked < 0 THEN 0 ELSE level - leaked
    BY <1>2 DEF LevelAt
  <2>4. Token!Refilled(Route, now)
          = IF Capacity < Capacity - level + leaked THEN Capacity ELSE Capacity - level + leaked
    BY <1>2, <2>2, SamePresence DEF Token!Refilled, Token!Least
  <2>. HIDE DEF level, leaked
  <2>. QED
    BY <2>1, <2>2, <2>3, <2>4
<1>. QED
  BY <1>1, <1>2

\* The two retry times agree.
LEMMA SameRetry ==
    ASSUME TypeOK, NEW now \in Int
    PROVE  /\ RetryAt(now) \in Int
           /\ Token!RetryAt(Route, now) = RetryAt(now)
<1>. DEFINE room == Capacity - LevelAt(now)
            short == (LevelAt(now) - Capacity + 1) * LeakDen
<1>1. LevelAt(now) \in Int /\ Capacity \in Int /\ LeakDen \in Int
  BY SameRoom, LeakAssumption
<1>2. short \in Int /\ short = (1 - room) * LeakDen
  BY <1>1
<1>3. Token!RetryAt(Route, now) = now + Sec * Token!CeilDiv((1 - room) * LeakDen, LeakNum)
  BY SameRoom DEF Token!RetryAt
<1>4. RetryAt(now) = now + Sec * CeilDiv(short, LeakNum)
  BY DEF RetryAt
<1>5. CeilDiv(short, LeakNum) \in Int
  BY <1>2, LeakAssumption DEF CeilDiv
<1>6. Token!CeilDiv(short, LeakNum) = CeilDiv(short, LeakNum)
  BY DEF Token!CeilDiv, CeilDiv
<1>. HIDE DEF short, room
<1>. QED
  BY <1>2, <1>3, <1>4, <1>5, <1>6, LeakAssumption

-----------------------------------------------------------------------------
\* A request sent by the leaky bucket is one sent by the token bucket.
LEMMA SameRequest ==
    ASSUME TypeOK, NEW c \in Callers
    PROVE  /\ call[c] = None <=> RequestsTagged[c] = None
           /\ call[c] # None =>
                /\ call[c] \in Request
                /\ RequestsTagged[c].route = Route
                /\ RequestsTagged[c].now = call[c].now
                /\ RequestsTagged[c].sentAt = call[c].sentAt
<1>1. CASE call[c] = None
  BY <1>1 DEF RequestsTagged
<1>2. CASE call[c] # None
  <2>1. call[c] \in Request
    BY <1>2 DEF TypeOK
  <2>2. RequestsTagged[c] = [route |-> Route, now |-> call[c].now, sentAt |-> call[c].sentAt]
    BY <1>2 DEF RequestsTagged
  <2>3. RequestsTagged[c] \in Token!Request
    BY <2>1, <2>2 DEF Request, Token!Request
  <2>. QED
    BY <1>2, <2>1, <2>2, <2>3, TokenAbsenceAssumption
<1>. QED
  BY <1>1, <1>2

\* Every reachable state is well typed.
THEOREM TypeCorrect == Spec => []TypeOK
<1>1. Init => TypeOK
  BY DEF Init, TypeOK
<1>2. TypeOK /\ [Next]_vars => TypeOK'
  <2>. SUFFICES ASSUME TypeOK, [Next]_vars PROVE TypeOK'
    OBVIOUS
  <2>1. ASSUME NEW c \in Callers, NEW skew \in -MaxBehind .. MaxAhead, Check(c, skew)
        PROVE  TypeOK'
    <3>1. clock + skew \in Int /\ clock \in Int
      BY LeakAssumption DEF TypeOK
    <3>2. [now |-> clock + skew, sentAt |-> clock] \in Request
      BY <3>1 DEF Request
    <3>3. call' \in [Callers -> Request \cup {None}]
      BY <2>1, <3>2 DEF Check, TypeOK
    <3>. QED
      BY <2>1, <3>3 DEF Check, TypeOK, observed
  <2>2. ASSUME NEW c \in Callers, Pour(c)
        PROVE  bucket' \in Bucket /\ poured' \in Nat /\ winEmpty' \in BOOLEAN
    <3>1. call[c] \in Request
      BY <2>2 DEF Pour, TypeOK
    <3>2. LevelAt(call[c].now) + 1 \in Int /\ call[c].now \in Int
      BY <3>1, SameRoom DEF Request
    <3>3. clock + Window * Sec \in Int
      BY LeakAssumption DEF TypeOK
    <3>4. winEmpty' \in BOOLEAN
      BY <2>2, Zenon DEF Pour
    <3>. QED
      BY <2>2, <3>2, <3>3, <3>4 DEF Pour, Bucket, TypeOK
  <2>3. ASSUME NEW c \in Callers, Grant(c) \/ GrantAnswerLost(c) PROVE TypeOK'
    <3>1. Pour(c)
      BY <2>3 DEF Grant, GrantAnswerLost
    <3>2. bucket' \in Bucket /\ poured' \in Nat /\ winEmpty' \in BOOLEAN
      BY <2>2, <3>1
    <3>3. call' \in [Callers -> Request \cup {None}]
      BY <2>3 DEF Grant, GrantAnswerLost, TypeOK
    <3>4. admitted' \in Nat
      BY <2>3 DEF Grant, GrantAnswerLost, TypeOK
    <3>. QED
      BY <3>1, <3>2, <3>3, <3>4 DEF Pour, TypeOK
  <2>4. ASSUME NEW c \in Callers, Refuse(c) PROVE TypeOK'
    <3>1. call[c] \in Request
      BY <2>4 DEF Refuse, TypeOK
    <3>2. RetryAt(call[c].now) \in Int
      BY <3>1, SameRetry DEF Request
    <3>3. call' \in [Callers -> Request \cup {None}]
      BY <2>4 DEF Refuse, TypeOK
    <3>. QED
      BY <2>4, <3>2, <3>3 DEF Refuse, TypeOK, observed
  <2>5. ASSUME NEW c \in Callers, EvalFails(c) PROVE TypeOK'
    <3>1. call' \in [Callers -> Request \cup {None}]
      BY <2>5 DEF EvalFails, TypeOK
    <3>2. admitted' \in Nat
      BY <2>5 DEF EvalFails, TypeOK
    <3>. QED
      BY <2>5, <3>1, <3>2 DEF EvalFails, TypeOK, observed
  <2>6. CASE Unhealthy \/ LinkChange
    <3>1. healthy' \in BOOLEAN
      BY <2>6, Zenon DEF Unhealthy, LinkChange, TypeOK
    <3>2. CASE Unhealthy
      <4>1. admitted' \in Nat
        BY <3>2 DEF Unhealthy, TypeOK
      <4>. QED
        BY <3>2, <4>1 DEF Unhealthy, TypeOK, observed
    <3>3. CASE LinkChange
      BY <3>1, <3>3 DEF LinkChange, TypeOK, observed
    <3>. QED
      BY <2>6, <3>2, <3>3
  <2>7. CASE Tick
    BY <2>7 DEF Tick, TypeOK, observed
  <2>8. CASE Observe
    <3>1. winEmpty' \in BOOLEAN
      BY <2>8, Zenon DEF Observe
    <3>2. winStart' = clock /\ poured' = 0 /\ admitted' = 0
          /\ UNCHANGED <<clock, bucket, call, healthy, promise>>
      BY <2>8 DEF Observe
    <3>. QED
      BY <3>1, <3>2 DEF TypeOK
  <2>9. CASE UNCHANGED vars
    BY <2>9 DEF vars, TypeOK
  <2>. QED
    BY <2>1, <2>3, <2>4, <2>5, <2>6, <2>7, <2>8, <2>9 DEF Next
<1>. QED
  BY <1>1, <1>2, PTL DEF Spec

-----------------------------------------------------------------------------
\* Each action of the leaky bucket is the token bucket's action of that name.

\* The mapped variables of callers stay when their own do.
LEMMA SameStutter ==
    /\ UNCHANGED bucket => UNCHANGED TokensLeft
    /\ UNCHANGED call => UNCHANGED RequestsTagged
    /\ UNCHANGED promise => UNCHANGED PromiseTagged
BY DEF TokensLeft, RequestsTagged, PromiseTagged

\* Replacing one request replaces its tagged form.
LEMMA SameUpdate ==
    ASSUME NEW c \in Callers, NEW x, call \in [Callers -> Request \cup {None}],
           call' = [call EXCEPT ![c] = x]
    PROVE  /\ x = None => RequestsTagged' = [RequestsTagged EXCEPT ![c] = None]
           /\ x # None => RequestsTagged' = [RequestsTagged EXCEPT ![c] =
                               [route |-> Route, now |-> x.now, sentAt |-> x.sentAt]]
BY DEF RequestsTagged

\* Sending a script.
LEMMA StepCheck ==
    ASSUME TypeOK, NEW c \in Callers, NEW skew \in -MaxBehind .. MaxAhead, Check(c, skew)
    PROVE  Token!Check(c, Route, skew)
<1>. DEFINE x == [now |-> clock + skew, sentAt |-> clock]
<1>1. x \in Request /\ x.now = clock + skew /\ x.sentAt = clock
  <2>1. clock + skew \in Int /\ clock \in Int
    BY LeakAssumption DEF TypeOK
  <2>. QED
    BY <2>1 DEF Request
<1>2. x # None
  BY <1>1, AbsenceAssumption
<1>3. call' = [call EXCEPT ![c] = x]
  BY DEF Check
<1>. HIDE DEF x
<1>4. RequestsTagged' = [RequestsTagged EXCEPT ![c] =
          [route |-> Route, now |-> clock + skew, sentAt |-> clock]]
  BY <1>1, <1>2, <1>3, SameUpdate DEF TypeOK
<1>. QED
  BY <1>4, SameRequest, SameStutter DEF Check, Token!Check, Token!Idle, observed, Token!observed

\* Putting a request in the bucket takes a token.
LEMMA StepTake ==
    ASSUME TypeOK, NEW c \in Callers, Pour(c)
    PROVE  Token!TakeToken(c)
<1>1. call[c] # None /\ call[c] \in Request /\ RequestsTagged[c] # None
      /\ RequestsTagged[c].route = Route /\ RequestsTagged[c].now = call[c].now
  BY SameRequest DEF Pour
<1>. DEFINE now == call[c].now
<1>2. now \in Int
  BY <1>1 DEF Request
<1>3. /\ LevelAt(now) \in Int
      /\ Capacity \in Int
      /\ Token!Refilled(Route, now) = Capacity - LevelAt(now)
  BY <1>2, SameRoom, LeakAssumption
<1>4. Token!Refilled(Route, now) >= 1
  BY <1>3 DEF Pour
<1>5. bucket' = [level |-> LevelAt(now) + 1, lastLeak |-> now, expireAt |-> clock + Window * Sec]
  BY DEF Pour
<1>6. bucket' # None
  <2>1. LevelAt(now) + 1 \in Int /\ clock + Window * Sec \in Int
    BY <1>3, LeakAssumption DEF TypeOK
  <2>2. bucket' \in Bucket
    BY <1>2, <1>5, <2>1 DEF Bucket
  <2>. QED
    BY <2>2, AbsenceAssumption
<1>7. TokensLeft' = [tokens |-> Capacity - (LevelAt(now) + 1),
                     lastRefill |-> now,
                     expireAt |-> clock + Window * Sec]
  BY <1>5, <1>6 DEF TokensLeft
<1>8. Capacity - (LevelAt(now) + 1) = Token!Refilled(Route, now) - 1
  BY <1>3
<1>9. TokensLeft' = Token!Taken(Route, now)
  BY <1>7, <1>8 DEF Token!Taken
<1>10. promise' = None /\ PromiseTagged' = None
  BY DEF Pour, PromiseTagged
<1>11. poured' = poured + Token!Counted(Route)
  BY DEF Pour, Token!Counted
<1>12. Token!InOrder(now) <=> InOrder(now)
  BY SamePresence DEF InOrder, Token!InOrder
<1>13. winEmpty' = (winEmpty /\ Token!InOrder(now))
  BY <1>12, Zenon DEF Pour
<1>. QED
  BY <1>1, <1>4, <1>9, <1>10, <1>11, <1>13
  DEF Pour, Token!TakeToken, Token!InFlight

\* Grants, with or without their answer.
LEMMA StepGrant ==
    ASSUME TypeOK, NEW c \in Callers
    PROVE  /\ Grant(c) => Token!Grant(c)
           /\ GrantAnswerLost(c) => Token!GrantAnswerLost(c)
<1>1. ASSUME Grant(c) PROVE Token!Grant(c)
  <2>1. RequestsTagged' = [RequestsTagged EXCEPT ![c] = None]
    BY <1>1, SameUpdate DEF Grant, TypeOK
  <2>2. RequestsTagged[c].route = Route
    BY <1>1, SameRequest DEF Grant, Pour
  <2>3. Token!TakeToken(c)
    BY <1>1, StepTake DEF Grant
  <2>4. admitted' = admitted + Token!Counted(Route)
    BY <1>1 DEF Grant, Token!Counted
  <2>. QED
    BY <2>1, <2>2, <2>3, <2>4 DEF Token!Grant
<1>2. ASSUME GrantAnswerLost(c) PROVE Token!GrantAnswerLost(c)
  BY <1>2, StepTake, SameStutter DEF GrantAnswerLost, Token!GrantAnswerLost
<1>. QED
  BY <1>1, <1>2

\* Refusals, and the time they name.
LEMMA StepRefuse ==
    ASSUME TypeOK, NEW c \in Callers, Refuse(c)
    PROVE  Token!Refuse(c)
<1>1. call[c] # None /\ call[c] \in Request /\ RequestsTagged[c] # None
      /\ RequestsTagged[c].route = Route /\ RequestsTagged[c].now = call[c].now
  BY SameRequest DEF Refuse
<1>. DEFINE now == call[c].now
<1>2. now \in Int
  BY <1>1 DEF Request
<1>3. /\ LevelAt(now) \in Int
      /\ Capacity \in Int
      /\ Token!Refilled(Route, now) = Capacity - LevelAt(now)
  BY <1>2, SameRoom, LeakAssumption
<1>4. Token!Refilled(Route, now) < 1
  BY <1>3 DEF Refuse
<1>5. RequestsTagged' = [RequestsTagged EXCEPT ![c] = None]
  BY SameUpdate DEF Refuse, TypeOK
<1>6. promise' = RetryAt(now) /\ RetryAt(now) \in Int
  BY <1>2, SameRetry DEF Refuse
<1>7. PromiseTagged' = [route |-> Route, at |-> Token!RetryAt(Route, now)]
  BY <1>2, <1>6, SameRetry, AbsenceAssumption DEF PromiseTagged
<1>. QED
  BY <1>1, <1>4, <1>5, <1>7, SameStutter
  DEF Refuse, Token!Refuse, Token!InFlight, observed, Token!observed

\* Failures of the script.
LEMMA StepFails ==
    ASSUME TypeOK, NEW c \in Callers, EvalFails(c)
    PROVE  Token!EvalFails(c)
<1>1. RequestsTagged[c] # None /\ RequestsTagged[c].route = Route
  BY SameRequest DEF EvalFails
<1>2. RequestsTagged' = [RequestsTagged EXCEPT ![c] = None]
  BY SameUpdate DEF EvalFails, TypeOK
<1>3. admitted' = admitted + IF SkipIfRedisDown THEN Token!Counted(Route) ELSE 0
  BY DEF EvalFails, Token!Counted
<1>. QED
  BY <1>1, <1>2, <1>3, SameStutter
  DEF EvalFails, Token!EvalFails, Token!InFlight, observed, Token!observed

\* Time and expiry.
LEMMA StepTick ==
    ASSUME TypeOK, Tick
    PROVE  Token!Tick
<1>1. \A c \in Callers : Token!InFlight(c) => clock < RequestsTagged[c].sentAt + MaxDelay
  BY SameRequest DEF Tick, Token!InFlight
<1>2. TokensLeft' = IF TokensLeft # None /\ TokensLeft.expireAt <= clock + 1
                      THEN None ELSE TokensLeft
  <2>1. CASE bucket = None
    BY <2>1, SamePresence DEF Tick, TokensLeft
  <2>2. CASE bucket # None /\ bucket.expireAt <= clock + 1
    BY <2>2, SamePresence DEF Tick, TokensLeft
  <2>3. CASE bucket # None /\ ~(bucket.expireAt <= clock + 1)
    BY <2>3, SamePresence, SameStutter DEF Tick
  <2>. QED
    BY <2>1, <2>2, <2>3
<1>. QED
  BY <1>1, <1>2, SameStutter DEF Tick, Token!Tick, observed, Token!observed

\* The observer's new window.
LEMMA StepObserve ==
    ASSUME TypeOK, Observe
    PROVE  Token!Observe
<1>1. clock \in Int /\ Capacity \in Int
  BY LeakAssumption DEF TypeOK
<1>2. LevelAt(clock) \in Int /\ Token!Refilled(Route, clock) = Capacity - LevelAt(clock)
  BY <1>1, SameRoom
<1>3. (LevelAt(clock) = 0) <=> (Token!Refilled(Route, clock) = Capacity)
  BY <1>1, <1>2
<1>4. winEmpty' = (Token!Refilled(Route, clock) = Capacity)
  BY <1>3, Zenon DEF Observe
<1>. QED
  BY <1>4, SameStutter DEF Observe, Token!Observe

\* The leaky bucket implements the token bucket.
THEOREM LeakyImplementsToken == Spec => ImplementsTokenBucket
<1>1. Init => Token!Init
  BY DEF Init, Token!Init, TokensLeft, RequestsTagged, PromiseTagged
<1>2. TypeOK /\ [Next]_vars => [Token!Next]_(Token!vars)
  <2>. SUFFICES ASSUME TypeOK, [Next]_vars PROVE Token!Next \/ UNCHANGED Token!vars
    OBVIOUS
  <2>1. ASSUME NEW c \in Callers, NEW skew \in -MaxBehind .. MaxAhead, Check(c, skew)
        PROVE  Token!Next
    BY <2>1, StepCheck DEF Token!Next
  <2>2. ASSUME NEW c \in Callers, Grant(c) \/ GrantAnswerLost(c) PROVE Token!Next
    BY <2>2, StepGrant DEF Token!Next
  <2>3. ASSUME NEW c \in Callers, Refuse(c) PROVE Token!Next
    BY <2>3, StepRefuse DEF Token!Next
  <2>4. ASSUME NEW c \in Callers, EvalFails(c) PROVE Token!Next
    BY <2>4, StepFails DEF Token!Next
  <2>5. CASE Unhealthy
    <3>1. Token!Unhealthy(Route)
      BY <2>5, SameStutter
      DEF Unhealthy, Token!Unhealthy, Token!Counted, observed, Token!observed
    <3>. QED
      BY <3>1 DEF Token!Next
  <2>6. CASE LinkChange
    <3>1. Token!LinkChange
      BY <2>6, SameStutter DEF LinkChange, Token!LinkChange, observed, Token!observed
    <3>. QED
      BY <3>1 DEF Token!Next
  <2>7. CASE Tick
    BY <2>7, StepTick DEF Token!Next
  <2>8. CASE Observe
    BY <2>8, StepObserve DEF Token!Next
  <2>9. CASE UNCHANGED vars
    BY <2>9, SameStutter DEF vars, Token!vars
  <2>. QED
    BY <2>1, <2>2, <2>3, <2>4, <2>5, <2>6, <2>7, <2>8, <2>9 DEF Next
<1>. QED
  BY <1>1, <1>2, TypeCorrect, PTL DEF Spec, ImplementsTokenBucket, Token!Spec

-----------------------------------------------------------------------------
(***************************************************************************)
(* What the refinement carries over: the theorems about the token bucket   *)
(* hold of the bucket whose tokens are the room left.                      *)
(***************************************************************************)
Facts == INSTANCE TokenBucketProofs WITH
    Routes <- {Route},
    Watched <- Route,
    Capacity <- [r \in {Route} |-> Capacity],
    RateNum <- [r \in {Route} |-> LeakNum],
    RateDen <- LeakDen,
    Window <- [r \in {Route} |-> Window],
    bucket <- TokensLeft,
    call <- RequestsTagged,
    winFull <- winEmpty,
    spent <- poured,
    promise <- PromiseTagged

\* The key outlives the bucket's draining, less the clocks' slack.
DrainCovered == Unit * Capacity <= LeakNum * (Window * Sec - (MaxDelay + MaxBehind) - MaxAhead)

\* What a window may take: a full bucket and what leaks while it lasts.
LeakAllowance ==
    Unit * Capacity + LeakNum * (clock - winStart + (MaxDelay + MaxBehind) + MaxAhead)

\* The token bucket's assumptions hold of the mapped constants.
LEMMA TokenAssumptions ==
    /\ Facts!LimitsAssumption /\ Facts!BoundsAssumption /\ Facts!NoneAssumption
    /\ Facts!StoreAbsenceAssumption
<1>1. Facts!LimitsAssumption
  BY LeakAssumption DEF Facts!LimitsAssumption
<1>2. Facts!BoundsAssumption
  BY LeakAssumption DEF Facts!BoundsAssumption
<1>3. Facts!NoneAssumption
  BY TokenAbsenceAssumption
  DEF Facts!NoneAssumption, Facts!Bucket, Facts!Request, Facts!Promise, Token!Bucket,
      Token!Request, Token!Promise
<1>4. Facts!StoreAbsenceAssumption
  BY TokenAbsenceAssumption
  DEF Facts!StoreAbsenceAssumption, Facts!Steady!Store, Token!Steady!Store
<1>. QED
  BY <1>1, <1>2, <1>3, <1>4

\* The leaky bucket is the token bucket of which those theorems speak.
LEMMA LeakyIsToken == Spec => Facts!Spec
<1>1. Token!Init => Facts!Init
  BY DEF Facts!Init, Token!Init
<1>2. Token!Next = Facts!Next /\ Token!vars = Facts!vars
  BY DEF Facts!Next, Token!Next, Facts!Check, Token!Check, Facts!Unhealthy,
       Token!Unhealthy, Facts!InOrder, Token!InOrder, Facts!TakeToken,
       Token!TakeToken, Facts!Grant, Token!Grant, Facts!GrantAnswerLost,
       Token!GrantAnswerLost, Facts!Refuse, Token!Refuse, Facts!EvalFails,
       Token!EvalFails, Facts!LinkChange, Token!LinkChange, Facts!Tick, Token!Tick,
       Facts!Observe, Token!Observe, Facts!observed, Token!observed, Facts!vars,
       Token!vars, Facts!Idle, Token!Idle, Facts!InFlight, Token!InFlight,
       Facts!Counted, Token!Counted, Facts!Refilled, Token!Refilled, Facts!TokensFor,
       Token!TokensFor, Facts!Unit, Token!Unit, Facts!Least, Token!Least,
       Facts!CeilDiv, Token!CeilDiv, Facts!RetryAt, Token!RetryAt, Facts!Taken,
       Token!Taken, Facts!Init, Token!Init
<1>3. [Token!Next]_(Token!vars) => [Facts!Next]_(Facts!vars)
  BY <1>2 DEF Facts!vars, Token!vars
<1>. QED
  BY <1>1, <1>3, LeakyImplementsToken, PTL DEF Facts!Spec, Token!Spec, ImplementsTokenBucket

\* In every window the leaky bucket takes in at most its capacity and what
\* leaks in the window; and as many it lets through, when it fails closed.
THEOREM LeakBounded ==
    DrainCovered /\ Spec => [](/\ poured * Unit <= LeakAllowance
                               /\ SkipIfRedisDown \/ admitted * Unit <= LeakAllowance)
<1>. SUFFICES ASSUME DrainCovered
              PROVE  Spec => [](/\ poured * Unit <= LeakAllowance
                                /\ SkipIfRedisDown \/ admitted * Unit <= LeakAllowance)
  OBVIOUS
<1>1. Facts!Unit = Unit
  BY DEF Facts!Unit, Unit
<1>2. Facts!WatchedLargest /\ Facts!WindowCovers
  BY <1>1, LeakAssumption DEF Facts!WatchedLargest, Facts!WindowCovers, Facts!Slack, DrainCovered
<1>3. Facts!SpendBound => poured * Unit <= LeakAllowance
  BY <1>1 DEF Facts!SpendBound, Facts!Allowance, Facts!Slack, LeakAllowance
<1>4. Facts!AdmissionBound => SkipIfRedisDown \/ admitted * Unit <= LeakAllowance
  BY <1>1 DEF Facts!AdmissionBound, Facts!Allowance, Facts!Slack, LeakAllowance
<1>5. Facts!WatchedLargest /\ Facts!WindowCovers /\ Facts!Spec => []Facts!SpendBound
  BY TokenAssumptions, Facts!SpendBounded
<1>6. Facts!WatchedLargest /\ Facts!WindowCovers /\ Facts!Spec => []Facts!AdmissionBound
  BY TokenAssumptions, Facts!AdmissionBounded
<1>. QED
  BY <1>2, <1>3, <1>4, <1>5, <1>6, LeakyIsToken, PTL

\* A client of the leaky bucket that waits out its retryAfter gets in, unless
\* somebody did in between.
THEOREM LeakRetryKept ==
    Spec => [](promise # None /\ clock >= promise => LevelAt(clock) < Capacity)
<1>1. Spec => []Facts!RetryHonoured
  BY LeakyIsToken, TokenAssumptions, Facts!RetryKept, PTL
<1>2. TypeOK /\ Facts!RetryHonoured =>
          (promise # None /\ clock >= promise => LevelAt(clock) < Capacity)
  <2>. SUFFICES ASSUME TypeOK, Facts!RetryHonoured, promise # None, clock >= promise
                PROVE  LevelAt(clock) < Capacity
    OBVIOUS
  <2>1. PromiseTagged # None /\ PromiseTagged.route = Route /\ PromiseTagged.at = promise
    <3>1. [route |-> Route, at |-> promise] \in Token!Promise
      BY DEF TypeOK, Token!Promise
    <3>. QED
      BY <3>1, TokenAbsenceAssumption DEF PromiseTagged
  <2>2. Facts!Refilled(Route, clock) >= 1
    BY <2>1 DEF Facts!RetryHonoured
  <2>3. Facts!Refilled(Route, clock) = Token!Refilled(Route, clock)
    BY DEF Facts!Refilled, Token!Refilled, Facts!TokensFor, Token!TokensFor, Facts!Unit,
           Token!Unit, Facts!Least, Token!Least
  <2>4. clock \in Int /\ Capacity \in Int
    BY LeakAssumption DEF TypeOK
  <2>5. LevelAt(clock) \in Int /\ Token!Refilled(Route, clock) = Capacity - LevelAt(clock)
    BY <2>4, SameRoom
  <2>. QED
    BY <2>2, <2>3, <2>4, <2>5
<1>. QED
  BY <1>1, <1>2, TypeCorrect, PTL

\* The leaky bucket, too, is a bucket of the configured constant rate in which
\* a grant costs a token and less than one more: its room fills as tokens do.
THEOREM LeakRateImplemented == Spec => Facts!ImplementsRateBucket
BY LeakyIsToken, TokenAssumptions, Facts!RateImplemented, PTL

\* A refusal of the leaky bucket is one of the token bucket, and no stutter.
LEMMA RefusalCarriesOver ==
    ASSUME TypeOK, NEW c \in Callers, Refuse(c)
    PROVE  /\ Facts!Refuse(c)
           /\ ~ UNCHANGED Facts!vars
           /\ RequestsTagged[c].route = Route
           /\ RequestsTagged[c].now = call[c].now
           /\ Facts!InOrder(call[c].now) <=> InOrder(call[c].now)
           /\ bucket = None <=> TokensLeft = None
           /\ bucket # None => TokensLeft.lastRefill = bucket.lastLeak
<1>1. Token!Refuse(c)
  BY StepRefuse
<1>2. Facts!Refuse(c)
  BY <1>1
  DEF Facts!Refuse, Token!Refuse, Facts!InFlight, Token!InFlight, Facts!Refilled,
      Token!Refilled, Facts!TokensFor, Token!TokensFor, Facts!Unit, Token!Unit, Facts!Least,
      Token!Least, Facts!RetryAt, Token!RetryAt, Facts!CeilDiv, Token!CeilDiv,
      Facts!observed, Token!observed
<1>3. RequestsTagged[c] # None /\ RequestsTagged[c].route = Route
      /\ RequestsTagged[c].now = call[c].now
  BY SameRequest DEF Refuse
<1>4. RequestsTagged' # RequestsTagged
  <2>1. RequestsTagged'[c] = None
    BY SameUpdate DEF Refuse, TypeOK, RequestsTagged
  <2>. QED
    BY <1>3, <2>1
<1>5. ~ UNCHANGED Facts!vars
  BY <1>4 DEF Facts!vars
<1>6. Facts!InOrder(call[c].now) <=> InOrder(call[c].now)
  BY SamePresence DEF InOrder, Facts!InOrder
<1>. QED
  BY <1>2, <1>3, <1>5, <1>6, SamePresence

\* From an empty bucket no request is refused before a whole capacity has been
\* poured, while requests are served in the order they were sampled: the leaky
\* bucket lets a burst through as the token bucket does.
THEOREM LeakBurstGranted ==
    Spec => [][\A c \in Callers :
                  winEmpty /\ Refuse(c) /\ InOrder(call[c].now) => poured >= Capacity]_vars
<1>1. Facts!SingleRoute
  BY DEF Facts!SingleRoute
<1>2. Facts!SingleRoute /\ Facts!Spec => Facts!BurstAllowed
  BY TokenAssumptions, Facts!BurstGranted
<1>3. TypeOK /\ [\A c \in Callers :
                    winEmpty /\ Facts!Refuse(c) /\ Facts!InOrder(RequestsTagged[c].now)
                        => poured >= [r \in {Route} |-> Capacity][Route]]_(Facts!vars)
          => [\A c \in Callers :
                  winEmpty /\ Refuse(c) /\ InOrder(call[c].now) => poured >= Capacity]_vars
  BY RefusalCarriesOver
<1>. QED
  BY <1>1, <1>2, <1>3, LeakyIsToken, TypeCorrect, PTL DEF Facts!BurstAllowed

\* Who comes the time in which one request leaks after the last that got in is
\* never refused.
THEOREM LeakSteadyServed ==
    Spec => [][\A c \in Callers : Refuse(c) =>
                  /\ bucket # None
                  /\ call[c].now < bucket.lastLeak + CeilDiv(Unit, LeakNum)]_vars
<1>1. Facts!Spec => Facts!SteadyServed
  BY TokenAssumptions, Facts!SteadyClientServed
<1>2. TypeOK /\ [\A c \in Callers : Facts!Refuse(c) =>
                    /\ TokensLeft # None
                    /\ RequestsTagged[c].now <
                          TokensLeft.lastRefill
                            + Facts!CeilDiv(Facts!Unit, [r \in {Route} |-> LeakNum]
                                                            [RequestsTagged[c].route])]_(Facts!vars)
          => [\A c \in Callers : Refuse(c) =>
                  /\ bucket # None
                  /\ call[c].now < bucket.lastLeak + CeilDiv(Unit, LeakNum)]_vars
  BY RefusalCarriesOver DEF Facts!CeilDiv, CeilDiv, Facts!Unit, Unit
<1>. QED
  BY <1>1, <1>2, LeakyIsToken, TypeCorrect, PTL DEF Facts!SteadyServed
=============================================================================
