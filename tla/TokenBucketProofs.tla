-------------------------- MODULE TokenBucketProofs --------------------------
(***************************************************************************)
(* Proofs about TokenBucket for every value of its constants: the bounds   *)
(* on tokens and admissions of any window, and the retry promise.          *)
(***************************************************************************)
EXTENDS TokenBucket, TLAPS

-----------------------------------------------------------------------------
\* Arithmetic the limiter rests on.

\* Rounding the refill down never makes a token out of less than one.
LEMMA FloorBelow ==
    ASSUME NEW a \in Int, NEW b \in Nat \ {0}
    PROVE  a \div b \in Int /\ (a \div b) * b <= a /\ a < (a \div b) * b + b
BY SMT

\* A token is a positive number of units.
LEMMA UnitPositive == Unit \in Nat \ {0}
<1>1. RateDen \in Nat \ {0} /\ Sec \in Nat \ {0}
  BY LimitsAssumption
<1>2. \A a, b \in Nat \ {0} : a * b \in Nat \ {0}
  BY SMT
<1>. QED
  BY <1>1, <1>2 DEF Unit

\* The script never adds more than the time that passed is worth.
LEMMA RefillBelow ==
    ASSUME NEW r \in Routes, NEW passed \in Int
    PROVE  /\ TokensFor(r, passed) \in Int
           /\ TokensFor(r, passed) * Unit <= passed * RateNum[r]
<1>1. passed * RateNum[r] \in Int
  BY LimitsAssumption
<1>. QED
  BY <1>1, UnitPositive, FloorBelow DEF TokensFor

\* What the script computes lies within the capacity and, for a stored
\* bucket, within what it held and the time that passed.
LEMMA RefilledWithin ==
    ASSUME TypeOK, NEW r \in Routes, NEW now \in Int
    PROVE  /\ Refilled(r, now) \in Int
           /\ Refilled(r, now) <= Capacity[r]
           /\ bucket # None =>
                Refilled(r, now) <= bucket.tokens + TokensFor(r, now - bucket.lastRefill)
<1>1. Capacity[r] \in Nat
  BY LimitsAssumption
<1>2. CASE bucket = None
  BY <1>1, <1>2 DEF Refilled
<1>3. CASE bucket # None
  <2>1. bucket.tokens \in Int /\ bucket.lastRefill \in Int
    BY <1>3 DEF TypeOK, Bucket
  <2>2. TokensFor(r, now - bucket.lastRefill) \in Int
    BY <2>1, RefillBelow
  <2>. QED
    BY <1>1, <1>3, <2>1, <2>2 DEF Refilled, Least
<1>. QED
  BY <1>2, <1>3

-----------------------------------------------------------------------------
\* Type correctness, for every choice of limits, delays and skews.

\* Taking a token leaves a well typed bucket.
LEMMA TakeTokenType ==
    ASSUME TypeOK, NEW c \in Callers, TakeToken(c)
    PROVE  /\ bucket' \in Bucket /\ spent' \in Nat /\ promise' = None
           /\ winStart' = winStart /\ winFull' \in BOOLEAN
<1>. DEFINE r == call[c].route
            now == call[c].now
<1>1. r \in Routes /\ now \in Int
  BY DEF TypeOK, Request, TakeToken, InFlight
<1>2. Refilled(r, now) \in Int
  BY <1>1, RefilledWithin
<1>3. Window[r] * Sec \in Int
  BY <1>1, LimitsAssumption
<1>4. bucket' \in Bucket
  BY <1>1, <1>2, <1>3 DEF TakeToken, Taken, Bucket, TypeOK
<1>5. winFull' \in BOOLEAN
  BY ZenonT(30) DEF TakeToken
<1>. QED
  BY <1>4, <1>5 DEF TakeToken, Counted, TypeOK

\* Every reachable state of the limiter is well typed.
THEOREM TypeCorrect == Spec => []TypeOK
<1>1. Init => TypeOK
  BY DEF Init, TypeOK
<1>2. TypeOK /\ [Next]_vars => TypeOK'
  <2>. SUFFICES ASSUME TypeOK, [Next]_vars PROVE TypeOK'
    OBVIOUS
  <2>1. ASSUME NEW c \in Callers, NEW r \in Routes, NEW skew \in -MaxBehind .. MaxAhead,
               Check(c, r, skew)
        PROVE  TypeOK'
    <3>1. clock + skew \in Int
      BY BoundsAssumption DEF TypeOK
    <3>. QED
      BY <2>1, <3>1 DEF TypeOK, Check, Request, observed
  <2>2. ASSUME NEW r \in Routes, Unhealthy(r) PROVE TypeOK'
    <3>1. admitted' \in Nat
      BY <2>2 DEF TypeOK, Unhealthy, Counted
    <3>. QED
      BY <2>2, <3>1 DEF TypeOK, Unhealthy, observed
  <2>3. ASSUME NEW c \in Callers, Grant(c) PROVE TypeOK'
    <3>1. TakeToken(c)
      BY <2>3 DEF Grant
    <3>2. admitted' \in Nat /\ call' \in [Callers -> Request \cup {None}]
      BY <2>3 DEF Grant, Counted, TypeOK
    <3>. QED
      BY <3>1, <3>2, TakeTokenType DEF TypeOK, TakeToken
  <2>4. ASSUME NEW c \in Callers, GrantAnswerLost(c) PROVE TypeOK'
    <3>1. TakeToken(c)
      BY <2>4 DEF GrantAnswerLost
    <3>. QED
      BY <2>4, <3>1, TakeTokenType DEF TypeOK, TakeToken, GrantAnswerLost
  <2>5. ASSUME NEW c \in Callers, Refuse(c) PROVE TypeOK'
    <3>. DEFINE r == call[c].route
                now == call[c].now
    <3>1. r \in Routes /\ now \in Int
      BY <2>5 DEF TypeOK, Request, Refuse, InFlight
    <3>2. Refilled(r, now) \in Int
      BY <3>1, RefilledWithin
    <3>3. CeilDiv((1 - Refilled(r, now)) * RateDen, RateNum[r]) \in Int
      <4>1. (-((1 - Refilled(r, now)) * RateDen)) \in Int /\ RateNum[r] \in Nat \ {0}
        BY <3>1, <3>2, LimitsAssumption
      <4>. QED
        BY <4>1, FloorBelow DEF CeilDiv
    <3>4. RetryAt(r, now) \in Int
      <4>1. \A n \in Int : Sec * n \in Int
        BY LimitsAssumption
      <4>. QED
        BY <3>1, <3>3, <4>1 DEF RetryAt
    <3>. QED
      BY <2>5, <3>1, <3>4 DEF TypeOK, Refuse, Promise, observed
  <2>6. ASSUME NEW c \in Callers, EvalFails(c) PROVE TypeOK'
    BY <2>6 DEF TypeOK, EvalFails, Counted, observed
  <2>7. CASE LinkChange
    BY <2>7 DEF TypeOK, LinkChange, observed
  <2>8. CASE Tick
    BY <2>8 DEF TypeOK, Tick, observed
  <2>9. CASE Observe
    BY <2>9 DEF TypeOK, Observe
  <2>10. CASE UNCHANGED vars
    BY <2>10 DEF TypeOK, vars
  <2>. QED
    BY <2>1, <2>2, <2>3, <2>4, <2>5, <2>6, <2>7, <2>8, <2>9, <2>10 DEF Next
<1>. QED
  BY <1>1, <1>2, PTL DEF Spec

-----------------------------------------------------------------------------
\* The bounds on tokens and admissions of any window.

\* A stored bucket that expires has had the time to refill completely.
LEMMA ExpiredHasRefilled ==
    ASSUME IInv, WindowCovers, bucket # None, bucket.expireAt <= clock + 1
    PROVE  Potential + RateNum[Watched] >=
             Unit * Capacity[Watched] + RateNum[Watched] * Slack
<1>. DEFINE R == RateNum[Watched]
            W == Window[Watched] * Sec
            late == clock - bucket.lastRefill
<1>1. R \in Nat \ {0} /\ W \in Nat /\ Slack \in Nat /\ MaxAhead \in Nat
  <2>1. \A a, b \in Nat \ {0} : a * b \in Nat
    OBVIOUS
  <2>. QED
    BY <2>1, LimitsAssumption, BoundsAssumption DEF Slack
<1>2. late \in Int /\ bucket.tokens * Unit >= 0 /\ bucket.tokens * Unit \in Int
  <2>1. bucket.tokens \in Nat /\ late \in Int
    BY DEF IInv, TypeOK, BucketStored, Bucket
  <2>2. \A a \in Nat, b \in Nat \ {0} : a * b \in Nat
    OBVIOUS
  <2>. QED
    BY <2>1, <2>2, UnitPositive
<1>3. late + 1 >= W - MaxAhead
  BY <1>1 DEF IInv, TypeOK, BucketStored, Bucket
<1>4. (late + 1) * R >= (W - MaxAhead) * R
  BY <1>1, <1>2, <1>3
<1>5. (W - MaxAhead) * R >= Unit * Capacity[Watched] + R * Slack
  <2>1. Unit * Capacity[Watched] \in Int
    BY UnitPositive, LimitsAssumption
  <2>2. R * (W - Slack - MaxAhead) = (W - MaxAhead) * R - R * Slack
    BY <1>1
  <2>. QED
    BY <1>1, <2>1, <2>2 DEF WindowCovers
<1>6. (late + 1) * R = late * R + R
  BY <1>1, <1>2
<1>. HIDE DEF R, W, late
<1>7. Unit * Capacity[Watched] \in Int /\ R * Slack \in Int /\ late * R \in Int
      /\ (W - MaxAhead) * R \in Int /\ R \in Int
  <2>1. Unit * Capacity[Watched] \in Int
    BY UnitPositive, LimitsAssumption
  <2>. QED
    BY <1>1, <1>2, <2>1
<1>8. Potential = bucket.tokens * Unit + late * R
  BY DEF Potential, R, late
<1>. QED
  BY <1>2, <1>4, <1>5, <1>6, <1>7, <1>8 DEF R

\* A token taken by any route lowers what the bucket holds by a token, and
\* leaves at most a capacity less one token.
LEMMA TokenAccounted ==
    ASSUME IInv, WatchedLargest, NEW c \in Callers, TakeToken(c)
    PROVE  /\ bucket' # None
           /\ Potential' + Unit <= Unit * Capacity[Watched] + RateNum[Watched] * Slack
           /\ bucket # None => Potential' + Unit <= Potential
           /\ Potential' \in Int
<1>. DEFINE r == call[c].route
            now == call[c].now
            R == RateNum[Watched]
            K == Capacity[Watched]
            n == Refilled(r, now)
<1>1. r \in Routes /\ now \in Int /\ clock - now <= Slack /\ clock \in Nat
  <2>1. call[c] \in Request
    BY DEF IInv, TypeOK, TakeToken, InFlight
  <2>2. call[c].sentAt \in Int /\ call[c].now \in Int /\ call[c].route \in Routes
    BY <2>1 DEF Request
  <2>3. clock <= call[c].sentAt + MaxDelay /\ call[c].sentAt - MaxBehind <= call[c].now
    BY DEF IInv, CallsRecent, TakeToken
  <2>. QED
    BY <2>2, <2>3, BoundsAssumption DEF Slack, IInv, TypeOK
<1>2. R \in Nat \ {0} /\ K \in Nat /\ Unit \in Nat \ {0} /\ Slack \in Nat
      /\ Capacity[r] \in Nat /\ Capacity[r] <= K
  BY <1>1, UnitPositive, LimitsAssumption, BoundsAssumption DEF WatchedLargest, Slack
<1>3. /\ n \in Int /\ n <= K
      /\ bucket # None => n <= bucket.tokens + TokensFor(r, now - bucket.lastRefill)
  BY <1>1, <1>2, RefilledWithin DEF IInv
<1>4. /\ bucket' = [tokens |-> n - 1, lastRefill |-> now, expireAt |-> clock + Window[r] * Sec]
      /\ clock' = clock
  BY DEF TakeToken, Taken
<1>5. clock + Window[r] * Sec \in Int
  BY <1>1, LimitsAssumption
<1>6. bucket' \in Bucket
  BY <1>1, <1>3, <1>4, <1>5 DEF Bucket
<1>7. bucket' # None
  BY <1>6, NoneAssumption
<1>8. Potential' = (n - 1) * Unit + (clock - now) * R
  BY <1>4 DEF Potential
<1>. HIDE DEF n, R, K
<1>9. (n - 1) * Unit = n * Unit - Unit /\ n * Unit \in Int /\ (clock - now) * R \in Int
  BY <1>1, <1>2, <1>3
<1>10. n * Unit <= Unit * K /\ (clock - now) * R <= R * Slack
      /\ Unit * K \in Int /\ R * Slack \in Int
  BY <1>1, <1>2, <1>3
<1>11. bucket # None => Potential' + Unit <= Potential
  <2>. SUFFICES ASSUME bucket # None PROVE Potential' + Unit <= Potential
    OBVIOUS
  <2>. DEFINE t == bucket.tokens
              d == now - bucket.lastRefill
              q == TokensFor(r, d)
  <2>1. t \in Int /\ d \in Int /\ bucket.lastRefill \in Int
    BY <1>1 DEF IInv, TypeOK, Bucket
  <2>2. q \in Int /\ q * Unit <= d * R
    <3>. DEFINE Rr == RateNum[r]
    <3>1. q \in Int /\ q * Unit <= d * Rr /\ q * Unit \in Int
      BY <1>1, <1>2, <2>1, RefillBelow
    <3>2. Rr \in Nat /\ (Rr = R \/ (Rr < R /\ 0 <= d))
      BY <1>1, <1>2, <2>1, LimitsAssumption, BoundsAssumption
      DEF WatchedLargest, Slack, IInv, BucketStored, R
    <3>. HIDE DEF Rr, d, q
    <3>3. d * Rr <= d * R /\ d * Rr \in Int /\ d * R \in Int
      BY <1>2, <2>1, <3>2
    <3>. QED
      BY <3>1, <3>3
  <2>3. n <= t + q
    BY <1>3
  <2>4. Potential = t * Unit + (clock - bucket.lastRefill) * R
    BY DEF Potential, R
  <2>5. clock - bucket.lastRefill = d + (clock - now)
    BY <1>1, <2>1
  <2>. HIDE DEF t, d, q
  <2>6. n * Unit <= (t + q) * Unit
    BY <1>2, <1>3, <2>1, <2>2, <2>3
  <2>7. (t + q) * Unit = t * Unit + q * Unit /\ t * Unit \in Int /\ q * Unit \in Int
    BY <1>2, <2>1, <2>2
  <2>8. (d + (clock - now)) * R = d * R + (clock - now) * R /\ d * R \in Int
    BY <1>1, <1>2, <2>1
  <2>. QED
    BY <1>2, <1>8, <1>9, <2>2, <2>4, <2>5, <2>6, <2>7, <2>8
<1>. QED
  BY <1>2, <1>7, <1>8, <1>9, <1>10, <1>11 DEF R, K

\* Taking a token keeps the account of the window.
LEMMA TakeTokenKeepsAccount ==
    ASSUME IInv, WatchedLargest, NEW c \in Callers, TakeToken(c)
    PROVE  BucketStored' /\ SpendAccounted' /\ spent' <= spent + 1 /\ spent <= spent'
<1>. DEFINE r == call[c].route
            now == call[c].now
            R == RateNum[Watched]
<1>1. r \in Routes /\ now \in Int /\ now <= clock + MaxAhead /\ clock \in Nat
  <2>1. call[c] \in Request
    BY DEF IInv, TypeOK, TakeToken, InFlight
  <2>2. call[c].sentAt \in Int /\ call[c].now \in Int /\ call[c].route \in Routes
    BY <2>1 DEF Request
  <2>3. call[c].sentAt <= clock /\ call[c].now <= call[c].sentAt + MaxAhead
    BY DEF IInv, CallsRecent, TakeToken
  <2>. QED
    BY <2>2, <2>3, BoundsAssumption DEF IInv, TypeOK
<1>2. spent' = spent \/ spent' = spent + 1
  BY DEF TakeToken, Counted, IInv, TypeOK
<1>3. BucketStored'
  <2>1. Refilled(r, now) \in Int /\ Refilled(r, now) <= Capacity[Watched]
    <3>1. Refilled(r, now) \in Int /\ Refilled(r, now) <= Capacity[r]
      BY <1>1, RefilledWithin DEF IInv
    <3>. QED
      BY <1>1, <3>1, LimitsAssumption DEF WatchedLargest
  <2>2. Refilled(r, now) >= 1 /\ Capacity[Watched] \in Nat
    BY LimitsAssumption DEF TakeToken
  <2>3. /\ Window[r] * Sec \in Int /\ Window[Watched] * Sec \in Int
        /\ Window[Watched] * Sec <= Window[r] * Sec
    <3>1. \A a, b \in Nat, u \in Nat : /\ a * u \in Int
                                       /\ a <= b => a * u <= b * u
      BY SMT
    <3>. QED
      BY <1>1, <3>1, LimitsAssumption DEF WatchedLargest
  <2>. QED
    BY <1>1, <2>1, <2>2, <2>3, BoundsAssumption DEF BucketStored, TakeToken, Taken
<1>4. SpendAccounted'
  <2>1. /\ bucket' # None
        /\ Potential' + Unit <= Unit * Capacity[Watched] + R * Slack
        /\ bucket # None => Potential' + Unit <= Potential
        /\ Potential' \in Int
    BY TokenAccounted
  <2>2. spent' * Unit <= spent * Unit + Unit /\ spent * Unit \in Int /\ spent' * Unit \in Int
    BY <1>2, UnitPositive DEF IInv, TypeOK
  <2>3. R * (clock - winStart + Slack) = R * (clock - winStart) + R * Slack
    BY LimitsAssumption, BoundsAssumption DEF IInv, TypeOK, Slack
  <2>4. R * (clock - winStart) \in Int /\ R * Slack \in Int /\ Unit * Capacity[Watched] \in Int
    BY LimitsAssumption, BoundsAssumption, UnitPositive DEF IInv, TypeOK, Slack
  <2>5. UNCHANGED <<clock, winStart>>
    BY DEF TakeToken
  <2>6. spent' * Unit + Potential' <= Unit * Capacity[Watched] + R * (clock - winStart + Slack)
    <3>1. CASE spent * Unit <= R * (clock - winStart)
      BY <2>1, <2>2, <2>3, <2>4, <3>1, UnitPositive
    <3>2. CASE /\ bucket # None
               /\ spent * Unit + Potential
                    <= Unit * Capacity[Watched] + R * (clock - winStart + Slack)
      <4>1. Potential \in Int
        <5>1. bucket.tokens \in Int /\ bucket.lastRefill \in Int
          BY <3>2 DEF IInv, TypeOK, Bucket
        <5>. QED
          BY <5>1, UnitPositive, LimitsAssumption DEF Potential, IInv, TypeOK
      <4>2. Potential' + Unit <= Potential
        BY <2>1, <3>2
      <4>. DEFINE s == spent * Unit
                  t == spent' * Unit
                  b == Unit * Capacity[Watched] + R * (clock - winStart + Slack)
                  p == Potential
                  q == Potential'
      <4>3. s \in Int /\ t \in Int /\ b \in Int /\ Unit \in Int
        BY <2>2, <2>3, <2>4, UnitPositive
      <4>4. t <= s + Unit /\ s + p <= b /\ q + Unit <= p
        BY <2>2, <3>2, <4>2
      <4>5. p \in Int /\ q \in Int
        BY <2>1, <4>1
      <4>. HIDE DEF s, t, b, p, q
      <4>6. t + q <= b
        BY <4>3, <4>4, <4>5
      <4>. QED
        BY <4>6 DEF t, b, q
    <3>. QED
      BY <3>1, <3>2 DEF IInv, SpendAccounted
  <2>. QED
    BY <2>1, <2>5, <2>6 DEF SpendAccounted
<1>. QED
  BY <1>2, <1>3, <1>4 DEF IInv, TypeOK

\* A tick keeps the account: the bucket gains at most what the window does.
LEMMA TickKeepsAccount ==
    ASSUME IInv, WindowCovers, Tick
    PROVE  BucketStored' /\ SpendAccounted'
<1>. DEFINE R == RateNum[Watched]
            elapsed == clock - winStart
<1>1. /\ clock \in Nat /\ clock' = clock + 1 /\ winStart' = winStart /\ spent' = spent
      /\ elapsed \in Int
      /\ bucket' = bucket \/ bucket' = None
  BY DEF IInv, TypeOK, Tick, observed
<1>2. BucketStored'
  BY <1>1, BoundsAssumption DEF IInv, TypeOK, BucketStored, Bucket
<1>3. R * (elapsed + 1) = R * elapsed + R /\ R * elapsed \in Int /\ R \in Nat
      /\ R * (elapsed + Slack) = R * elapsed + R * Slack
      /\ R * (elapsed + 1 + Slack) = R * elapsed + R * Slack + R
      /\ R * Slack \in Int /\ Unit * Capacity[Watched] \in Int /\ spent * Unit \in Int
  BY <1>1, LimitsAssumption, BoundsAssumption, UnitPositive DEF Slack, IInv, TypeOK
<1>4. clock' - winStart' = elapsed + 1 /\ clock' - winStart' + Slack = elapsed + 1 + Slack
  BY <1>1, BoundsAssumption DEF IInv, TypeOK, Slack
<1>5. CASE spent * Unit <= R * elapsed
  <2>1. spent' * Unit <= R * (clock' - winStart')
    BY <1>1, <1>3, <1>4, <1>5
  <2>. QED
    BY <1>2, <2>1 DEF SpendAccounted
<1>6. CASE /\ bucket # None
           /\ spent * Unit + Potential <= Unit * Capacity[Watched] + R * (elapsed + Slack)
  <2>1. bucket.tokens * Unit \in Int /\ (clock - bucket.lastRefill) * R \in Int
        /\ bucket.tokens \in Int /\ bucket.lastRefill \in Int
        /\ (clock + 1 - bucket.lastRefill) * R = (clock - bucket.lastRefill) * R + R
    <3>1. bucket.tokens \in Int /\ bucket.lastRefill \in Int
      BY <1>6 DEF IInv, TypeOK, Bucket
    <3>. QED
      BY <1>1, <1>3, <3>1, UnitPositive
  <2>2. CASE bucket' = bucket
    <3>1. Potential' = Potential + R
      <4>. DEFINE a == bucket.tokens * Unit
                  x == (clock - bucket.lastRefill) * R
                  y == (clock + 1 - bucket.lastRefill) * R
      <4>1. Potential = a + x
        BY DEF Potential
      <4>2. bucket'.tokens = bucket.tokens /\ bucket'.lastRefill = bucket.lastRefill
        BY <2>2
      <4>3. Potential' = a + y
        <5>. DEFINE now == clock'
        <5>1. now = clock + 1
          BY <1>1
        <5>2. Potential' = bucket.tokens * Unit + (now - bucket.lastRefill) * R
          BY <4>2 DEF Potential
        <5>3. now - bucket.lastRefill = clock + 1 - bucket.lastRefill
          BY <1>1, <2>1, <5>1
        <5>. QED
          BY <5>2, <5>3
      <4>4. y = x + R /\ a \in Int /\ x \in Int /\ R \in Int
        BY <1>3, <2>1
      <4>. HIDE DEF a, x, y, R
      <4>. QED
        BY <4>1, <4>3, <4>4
    <3>2. Potential \in Int
      BY <2>1 DEF Potential
    <3>3. spent' * Unit + Potential'
            <= Unit * Capacity[Watched] + R * (clock' - winStart' + Slack)
      BY <1>1, <1>3, <1>4, <1>6, <3>1, <3>2
    <3>. QED
      BY <1>2, <1>6, <2>2, <3>3 DEF SpendAccounted
  <2>3. CASE bucket' # bucket
    <3>1. bucket.expireAt <= clock + 1
      BY <2>3 DEF Tick
    <3>2. Potential + R >= Unit * Capacity[Watched] + R * Slack
      BY <1>6, <3>1, ExpiredHasRefilled
    <3>3. Potential \in Int
      BY <2>1 DEF Potential
    <3>4. spent' * Unit <= R * (clock' - winStart')
      BY <1>1, <1>3, <1>4, <1>6, <3>2, <3>3
    <3>. QED
      BY <1>2, <3>4 DEF SpendAccounted
  <2>. QED
    BY <2>2, <2>3
<1>. QED
  BY <1>5, <1>6 DEF IInv, SpendAccounted

\* On the most generous route of the identifier, and with keys that outlive
\* their refill, the account of the window is kept by every step.
THEOREM AccountKept == WatchedLargest /\ WindowCovers /\ Spec => []IInv
<1>. SUFFICES ASSUME WatchedLargest, WindowCovers PROVE Spec => []IInv
  OBVIOUS
<1>1. Init => IInv
  <2>. SUFFICES ASSUME Init PROVE IInv
    OBVIOUS
  <2>1. TypeOK
    BY DEF Init, TypeOK
  <2>2. 0 * Unit = 0 /\ RateNum[Watched] * 0 = 0
    BY UnitPositive, LimitsAssumption
  <2>3. SpendAccounted
    BY <2>2 DEF Init, SpendAccounted
  <2>. QED
    BY <2>1, <2>3 DEF Init, IInv, CallsRecent, BucketStored, InFlight
<1>2. TypeOK /\ IInv /\ TypeOK' /\ [Next]_vars => IInv'
  <2>. SUFFICES ASSUME IInv, TypeOK', [Next]_vars PROVE IInv'
    OBVIOUS
  <2>. USE DEF InFlight
  <2>1. ASSUME NEW c \in Callers, NEW r \in Routes, NEW skew \in -MaxBehind .. MaxAhead,
               Check(c, r, skew)
        PROVE  IInv'
    <3>1. CallsRecent'
      <4>. SUFFICES ASSUME NEW d \in Callers, (InFlight(d))'
                    PROVE  /\ call'[d].sentAt <= clock'
                           /\ clock' <= call'[d].sentAt + MaxDelay
                           /\ call'[d].sentAt - MaxBehind <= call'[d].now
                           /\ call'[d].now <= call'[d].sentAt + MaxAhead
        BY DEF CallsRecent
      <4>1. CASE d = c
        <5>1. call'[d] = [route |-> r, now |-> clock + skew, sentAt |-> clock] /\ clock' = clock
          BY <2>1, <4>1 DEF Check, IInv, TypeOK
        <5>. QED
          BY <5>1, BoundsAssumption DEF IInv, TypeOK
      <4>2. CASE d # c
        BY <2>1, <4>2 DEF Check, IInv, TypeOK, CallsRecent
      <4>. QED
        BY <4>1, <4>2
    <3>. QED
      BY <2>1, <3>1 DEF Check, IInv, BucketStored, SpendAccounted, Potential, observed
  <2>2. ASSUME NEW r \in Routes, Unhealthy(r) PROVE IInv'
    <3>1. admitted \in Nat /\ (SkipIfRedisDown \/ admitted' = admitted)
      BY <2>2 DEF Unhealthy, IInv, TypeOK
    <3>. QED
      BY <2>2, <3>1
      DEF Unhealthy, IInv, CallsRecent, BucketStored, SpendAccounted, Potential, observed
  <2>3. ASSUME NEW c \in Callers, Grant(c) PROVE IInv'
    <3>1. TakeToken(c)
      BY <2>3 DEF Grant
    <3>2. BucketStored' /\ SpendAccounted'
      BY <3>1, TakeTokenKeepsAccount
    <3>3. admitted <= spent => admitted' <= spent'
      BY <2>3, <3>1 DEF Grant, TakeToken, Counted, IInv, TypeOK
    <3>4. CallsRecent'
      BY <2>3, <3>1 DEF Grant, TakeToken, IInv, TypeOK, CallsRecent
    <3>5. (winStart <= clock)'
      BY <3>1 DEF TakeToken, IInv
    <3>. QED
      BY <3>2, <3>3, <3>4, <3>5 DEF IInv
  <2>4. ASSUME NEW c \in Callers, GrantAnswerLost(c) PROVE IInv'
    <3>1. TakeToken(c)
      BY <2>4 DEF GrantAnswerLost
    <3>2. BucketStored' /\ SpendAccounted' /\ spent <= spent'
      BY <3>1, TakeTokenKeepsAccount
    <3>3. admitted <= spent => admitted' <= spent'
      BY <2>4, <3>2 DEF GrantAnswerLost, IInv, TypeOK
    <3>4. CallsRecent'
      BY <2>4, <3>1 DEF GrantAnswerLost, TakeToken, IInv, CallsRecent
    <3>5. (winStart <= clock)'
      BY <3>1 DEF TakeToken, IInv
    <3>. QED
      BY <3>2, <3>3, <3>4, <3>5 DEF IInv
  <2>5. ASSUME NEW c \in Callers, Refuse(c) PROVE IInv'
    <3>1. CallsRecent'
      BY <2>5 DEF Refuse, IInv, TypeOK, CallsRecent
    <3>. QED
      BY <2>5, <3>1 DEF Refuse, IInv, BucketStored, SpendAccounted, Potential, observed
  <2>6. ASSUME NEW c \in Callers, EvalFails(c) PROVE IInv'
    <3>1. CallsRecent'
      BY <2>6 DEF EvalFails, IInv, TypeOK, CallsRecent
    <3>2. admitted \in Nat /\ (SkipIfRedisDown \/ admitted' = admitted)
      BY <2>6 DEF EvalFails, IInv, TypeOK
    <3>. QED
      BY <2>6, <3>1, <3>2 DEF EvalFails, IInv, BucketStored, SpendAccounted, Potential, observed
  <2>7. CASE LinkChange
    BY <2>7 DEF LinkChange, IInv, CallsRecent, BucketStored, SpendAccounted, Potential, observed
  <2>8. CASE Tick
    <3>1. BucketStored' /\ SpendAccounted'
      BY <2>8, TickKeepsAccount
    <3>2. CallsRecent'
      <4>. SUFFICES ASSUME NEW d \in Callers, (InFlight(d))'
                    PROVE  /\ call'[d].sentAt <= clock'
                           /\ clock' <= call'[d].sentAt + MaxDelay
                           /\ call'[d].sentAt - MaxBehind <= call'[d].now
                           /\ call'[d].now <= call'[d].sentAt + MaxAhead
        BY DEF CallsRecent
      <4>1. call' = call /\ clock' = clock + 1 /\ call[d] # None
        BY <2>8 DEF Tick
      <4>2. call[d].sentAt \in Int
        BY <4>1 DEF IInv, TypeOK, Request
      <4>3. clock < call[d].sentAt + MaxDelay /\ call[d].sentAt <= clock
        BY <2>8, <4>1 DEF Tick, IInv, CallsRecent
      <4>4. /\ call[d].sentAt - MaxBehind <= call[d].now
            /\ call[d].now <= call[d].sentAt + MaxAhead
        BY <4>1 DEF IInv, CallsRecent
      <4>. QED
        BY <4>1, <4>2, <4>3, <4>4, BoundsAssumption DEF IInv, TypeOK
    <3>. QED
      BY <2>8, <3>1, <3>2 DEF Tick, IInv, TypeOK, observed
  <2>9. CASE Observe
    <3>1. SpendAccounted'
      <4>1. spent' = 0 /\ clock' - winStart' = 0
        BY <2>9 DEF Observe, IInv, TypeOK
      <4>2. 0 * Unit = 0 /\ RateNum[Watched] * 0 = 0
        BY UnitPositive, LimitsAssumption
      <4>. QED
        BY <4>1, <4>2 DEF SpendAccounted
    <3>. QED
      BY <2>9, <3>1 DEF Observe, IInv, TypeOK, CallsRecent, BucketStored
  <2>10. CASE UNCHANGED vars
    BY <2>10 DEF vars, IInv, CallsRecent, BucketStored, SpendAccounted, Potential
  <2>. QED
    BY <2>1, <2>2, <2>3, <2>4, <2>5, <2>6, <2>7, <2>8, <2>9, <2>10 DEF Next
<1>3. Spec => []TypeOK
  BY TypeCorrect
<1>. QED
  BY <1>1, <1>2, <1>3, PTL DEF Spec

\* The account of a window bounds the tokens taken in it.
LEMMA AccountBounds ==
    ASSUME IInv
    PROVE  SpendBound /\ AdmissionBound
<1>. DEFINE R == RateNum[Watched]
            K == Unit * Capacity[Watched]
            e == clock - winStart
            s == spent * Unit
<1>1. /\ R \in Nat /\ K \in Nat /\ e \in Nat /\ s \in Nat /\ Slack \in Nat /\ MaxAhead \in Nat
  <2>1. \A a \in Nat, b \in Nat : a * b \in Nat
    OBVIOUS
  <2>2. e \in Nat
    BY DEF IInv, TypeOK
  <2>. QED
    BY <2>1, <2>2, LimitsAssumption, BoundsAssumption, UnitPositive DEF Slack, IInv, TypeOK
<1>2. Allowance = K + R * (e + Slack + MaxAhead)
  BY DEF Allowance
<1>3. /\ R * (e + Slack + MaxAhead) = R * e + R * Slack + R * MaxAhead
      /\ R * (e + Slack) = R * e + R * Slack
      /\ R * e \in Nat /\ R * Slack \in Nat /\ R * MaxAhead \in Nat
  BY <1>1
<1>4. s <= K + R * (e + Slack + MaxAhead)
  <2>1. CASE s <= R * e
    <3>. HIDE DEF s, R, e, K
    <3>. QED
      BY <1>1, <1>3, <2>1
  <2>2. CASE bucket # None /\ s + Potential <= K + R * (e + Slack)
    <3>. DEFINE p == Potential
    <3>1. p \in Int /\ p >= -(R * MaxAhead)
      <4>. DEFINE a == bucket.tokens * Unit
                  d == clock - bucket.lastRefill
      <4>1. a \in Nat /\ d \in Int /\ d >= -MaxAhead
        <5>1. bucket.tokens \in Nat /\ bucket.lastRefill \in Int
              /\ bucket.lastRefill <= clock + MaxAhead
          BY <2>2 DEF IInv, TypeOK, BucketStored, Bucket
        <5>2. \A u \in Nat, v \in Nat : u * v \in Nat
          OBVIOUS
        <5>. QED
          BY <1>1, <5>1, <5>2, UnitPositive DEF IInv, TypeOK
      <4>2. p = a + d * R
        BY DEF Potential
      <4>. HIDE DEF a, d, R, p
      <4>3. d * R >= -(R * MaxAhead) /\ d * R \in Int
        BY <1>1, <4>1
      <4>. QED
        BY <1>3, <4>1, <4>2, <4>3
    <3>2. s + p <= K + R * (e + Slack)
      BY <2>2
    <3>. HIDE DEF s, R, e, K, p
    <3>. QED
      BY <1>1, <1>3, <3>1, <3>2
  <2>. QED
    BY <2>1, <2>2 DEF IInv, SpendAccounted
<1>5. SpendBound
  BY <1>2, <1>4 DEF SpendBound
<1>6. admitted <= spent => admitted * Unit <= s /\ admitted * Unit \in Nat
  BY UnitPositive DEF IInv, TypeOK
<1>7. AdmissionBound
  <2>. HIDE DEF s, R, e, K
  <2>1. CASE SkipIfRedisDown
    BY <2>1 DEF AdmissionBound
  <2>2. CASE admitted <= spent
    <3>1. Allowance \in Int
      BY <1>1, <1>2, <1>3
    <3>. QED
      BY <1>1, <1>2, <1>4, <1>6, <2>2, <3>1 DEF AdmissionBound
  <2>. QED
    BY <2>1, <2>2 DEF IInv
<1>. QED
  BY <1>5, <1>7

\* In every window, tokens are bounded by the configured limit.
THEOREM SpendBounded == WatchedLargest /\ WindowCovers /\ Spec => []SpendBound
BY AccountKept, AccountBounds, PTL

\* And so are admissions, when the limiter fails closed.
THEOREM AdmissionBounded == WatchedLargest /\ WindowCovers /\ Spec => []AdmissionBound
BY AccountKept, AccountBounds, PTL

-----------------------------------------------------------------------------
\* The retry promise, whatever the limits, skews and windows are.

\* Once the promised time has come, every later time is granted as well.
PromiseGood ==
    promise # None =>
        \A t \in Int : t >= promise.at => Refilled(promise.route, t) >= 1

\* Adding the refill of a second time span is worth at least both spans.
LEMMA FloorsAdd ==
    ASSUME NEW a \in Int, NEW b \in Int, NEW n \in Int, NEW u \in Nat \ {0},
           b >= a + n * u
    PROVE  b \div u >= a \div u + n
BY SMT

\* Rounding up reaches what it divides.
LEMMA CeilAbove ==
    ASSUME NEW a \in Int, NEW b \in Nat \ {0}
    PROVE  CeilDiv(a, b) \in Int /\ CeilDiv(a, b) * b >= a
<1>1. (-a) \div b \in Int /\ ((-a) \div b) * b <= -a
  BY FloorBelow
<1>2. \A q \in Int : (-q) * b = -(q * b)
  OBVIOUS
<1>. QED
  BY <1>1, <1>2 DEF CeilDiv

\* A refusal names a time from which the bucket holds a token.
LEMMA RefusalPromises ==
    ASSUME TypeOK, NEW r \in Routes, NEW now \in Int, Refilled(r, now) < 1,
           NEW t \in Int, t >= RetryAt(r, now)
    PROVE  Refilled(r, t) >= 1
<1>. DEFINE R == RateNum[r]
            last == bucket.lastRefill
            q == TokensFor(r, now - last)
            need == 1 - Refilled(r, now)
            wait == CeilDiv(need * RateDen, R)
<1>1. R \in Nat \ {0} /\ Capacity[r] \in Nat \ {0} /\ RateDen \in Nat \ {0} /\ Sec \in Nat \ {0}
  BY LimitsAssumption
<1>2. bucket # None
  BY <1>1 DEF Refilled
<1>3. bucket.tokens \in Int /\ last \in Int
  BY <1>2 DEF TypeOK, Bucket
<1>4. q \in Int
  BY <1>3, RefillBelow
<1>5. Refilled(r, now) = bucket.tokens + q
  BY <1>1, <1>2, <1>3, <1>4 DEF Refilled, Least
<1>6. need \in Int /\ need * RateDen \in Int
  BY <1>1, <1>3, <1>4, <1>5
<1>7. wait \in Int /\ wait * R >= need * RateDen
  BY <1>1, <1>6, CeilAbove
<1>8. RetryAt(r, now) = now + Sec * wait
  BY DEF RetryAt
<1>9. (t - last) * R >= (now - last) * R + need * Unit
  <2>. HIDE DEF wait, need, R, last, q
  <2>1. t - last >= (now - last) + Sec * wait /\ Sec * wait \in Int
    BY <1>1, <1>3, <1>7, <1>8
  <2>2. (t - last) * R >= ((now - last) + Sec * wait) * R
    BY <1>1, <1>3, <2>1
  <2>3. ((now - last) + Sec * wait) * R = (now - last) * R + Sec * (wait * R)
    BY <1>1, <1>3, <1>7
  <2>4. Sec * (wait * R) >= Sec * (need * RateDen) /\ wait * R \in Int
    BY <1>1, <1>6, <1>7
  <2>5. Sec * (need * RateDen) = need * Unit
    BY <1>1, <1>6 DEF Unit
  <2>6. /\ (t - last) * R \in Int /\ (now - last) * R \in Int
        /\ Sec * (wait * R) \in Int /\ need * Unit \in Int
    BY <1>1, <1>3, <1>6, <2>4, UnitPositive
  <2>. QED
    BY <2>2, <2>3, <2>4, <2>5, <2>6
<1>10. TokensFor(r, t - last) >= q + need
  <2>1. (t - last) * R \in Int /\ (now - last) * R \in Int
    BY <1>1, <1>3
  <2>. QED
    BY <1>6, <1>9, <2>1, UnitPositive, FloorsAdd DEF TokensFor
<1>11. TokensFor(r, t - last) \in Int
  BY <1>3, RefillBelow
<1>. QED
  BY <1>1, <1>2, <1>3, <1>4, <1>5, <1>10, <1>11 DEF Refilled, Least

\* A client that retries at the promised time is granted, unless somebody
\* took a token in between: refusals, ticks, expiries, failures and other
\* clients' requests in flight do not postpone it.
THEOREM RetryKept == Spec => []RetryHonoured
<1>1. Init => PromiseGood
  BY DEF Init, PromiseGood
<1>2. TypeOK /\ PromiseGood /\ [Next]_vars => PromiseGood'
  <2>. SUFFICES ASSUME TypeOK, PromiseGood, [Next]_vars PROVE PromiseGood'
    OBVIOUS
  <2>1. ASSUME NEW c \in Callers, Refuse(c) PROVE PromiseGood'
    <3>. DEFINE r == call[c].route
                now == call[c].now
    <3>1. r \in Routes /\ now \in Int /\ Refilled(r, now) < 1
      BY <2>1 DEF Refuse, InFlight, TypeOK, Request
    <3>2. promise' = [route |-> r, at |-> RetryAt(r, now)] /\ bucket' = bucket
      BY <2>1 DEF Refuse
    <3>3. \A t \in Int : t >= RetryAt(r, now) => Refilled(r, t) >= 1
      BY <3>1, RefusalPromises
    <3>. QED
      BY <3>2, <3>3 DEF PromiseGood, Refilled
  <2>2. CASE Tick
    <3>1. promise' = promise /\ (bucket' = bucket \/ bucket' = None)
      BY <2>2 DEF Tick
    <3>2. promise # None => Capacity[promise.route] >= 1
      BY LimitsAssumption DEF TypeOK, Promise
    <3>. QED
      BY <3>1, <3>2 DEF PromiseGood, Refilled
  <2>3. ASSUME NEW c \in Callers, TakeToken(c) PROVE PromiseGood'
    BY <2>3 DEF TakeToken, PromiseGood
  <2>4. CASE bucket' = bucket /\ promise' = promise
    BY <2>4 DEF PromiseGood, Refilled
  <2>. QED
    BY <2>1, <2>2, <2>3, <2>4
    DEF Next, Check, Unhealthy, Grant, GrantAnswerLost, EvalFails, LinkChange, Observe,
        vars, observed
<1>3. TypeOK /\ PromiseGood => RetryHonoured
  BY DEF TypeOK, PromiseGood, RetryHonoured
<1>. QED
  BY <1>1, <1>2, <1>3, TypeCorrect, PTL DEF Spec

-----------------------------------------------------------------------------
(***************************************************************************)
(* The burst.  A window that began with a full bucket and has been served  *)
(* in order since has, at any later sample, what it has not spent.         *)
(***************************************************************************)

\* The identifier is used on one route, so that all tokens are counted.
SingleRoute == Routes = {Watched}

BurstLeft ==
    winFull => \A t \in Int : InOrder(t) => Refilled(Watched, t) + spent >= Capacity[Watched]

\* A later sample refills no less, and one that is not early no less than 0.
LEMMA RefillGrows ==
    ASSUME NEW s \in Int, NEW t \in Int, s <= t
    PROVE  /\ TokensFor(Watched, s) \in Int
           /\ TokensFor(Watched, t) \in Int
           /\ TokensFor(Watched, s) <= TokensFor(Watched, t)
           /\ 0 <= s => 0 <= TokensFor(Watched, t)
<1>. DEFINE R == RateNum[Watched]
<1>1. R \in Nat /\ Unit \in Nat \ {0}
  BY LimitsAssumption, UnitPositive
<1>. HIDE DEF R
<1>2. s * R \in Int /\ t * R \in Int /\ s * R <= t * R /\ (0 <= s => 0 <= t * R)
  <2>1. \A a, b \in Int, n \in Nat : /\ a * n \in Int
                                     /\ a <= b => a * n <= b * n
                                     /\ 0 <= a => 0 <= a * n
    BY SMT
  <2>. QED
    BY <1>1, <2>1, 0 <= s => 0 <= t
<1>. HIDE DEF Unit
<1>3. \A a, b \in Int, u \in Nat \ {0} : /\ a \div u \in Int
                                         /\ a <= b => a \div u <= b \div u
                                         /\ 0 <= a => 0 <= a \div u
  BY SMT
<1>4. TokensFor(Watched, s) = (s * R) \div Unit /\ TokensFor(Watched, t) = (t * R) \div Unit
  BY DEF TokensFor, R
<1>. QED
  BY <1>1, <1>2, <1>3, <1>4

\* Capacity as a number, and what Refilled is.
LEMMA RefilledIs ==
    ASSUME TypeOK, NEW t \in Int
    PROVE  /\ Capacity[Watched] \in Nat
           /\ bucket = None => Refilled(Watched, t) = Capacity[Watched]
           /\ bucket # None =>
                  /\ bucket.tokens \in Int /\ bucket.lastRefill \in Int
                  /\ Refilled(Watched, t) =
                         Least(Capacity[Watched],
                               bucket.tokens + TokensFor(Watched, t - bucket.lastRefill))
BY LimitsAssumption DEF TypeOK, Bucket, Refilled

\* A token served in order leaves the rest of the burst.
LEMMA TakeTokenKeepsBurst ==
    ASSUME SingleRoute, TypeOK, BurstLeft, NEW c \in Callers, TakeToken(c), TypeOK'
    PROVE  BurstLeft'
<1>. DEFINE now == call[c].now
<1>1. call[c] \in Request /\ call[c].route = Watched /\ now \in Int
  BY DEF SingleRoute, TypeOK, TakeToken, InFlight, Request
<1>2. /\ bucket' = Taken(Watched, now) /\ spent' = spent + 1 /\ spent \in Nat
      /\ winFull' = (winFull /\ InOrder(now)) /\ winStart' = winStart
  BY <1>1 DEF TakeToken, Counted, TypeOK
<1>3. bucket' # None
  BY TakeTokenType, NoneAssumption
<1>. SUFFICES ASSUME winFull', NEW t \in Int, InOrder(t)'
              PROVE  Refilled(Watched, t)' + spent' >= Capacity[Watched]
  BY DEF BurstLeft
<1>4. bucket'.lastRefill = now /\ bucket'.tokens = Refilled(Watched, now) - 1 /\ now <= t
  BY <1>2, <1>3 DEF Taken, InOrder
<1>5. Refilled(Watched, now) + spent >= Capacity[Watched]
  BY <1>1, <1>2 DEF BurstLeft
<1>6. TokensFor(Watched, t - now) \in Int /\ 0 <= TokensFor(Watched, t - now)
  <2>1. 0 \in Int /\ t - now \in Int /\ 0 <= t - now
    BY <1>1, <1>4
  <2>. QED
    BY <2>1, RefillGrows
<1>7. Refilled(Watched, t)' =
          Least(Capacity[Watched],
                Refilled(Watched, now) - 1 + TokensFor(Watched, t - now))
  BY <1>3, <1>4 DEF Refilled, TokensFor, Unit
<1>8. Refilled(Watched, now) \in Int /\ Capacity[Watched] \in Nat
  BY <1>1, RefilledWithin, LimitsAssumption
<1>. QED
  BY <1>2, <1>5, <1>6, <1>7, <1>8 DEF Least

\* A window that begins with a full bucket begins with the whole burst.
LEMMA ObserveStartsBurst ==
    ASSUME TypeOK, Observe
    PROVE  BurstLeft'
<1>. SUFFICES ASSUME winFull', NEW t \in Int, InOrder(t)'
              PROVE  Refilled(Watched, t)' + spent' >= Capacity[Watched]
  BY DEF BurstLeft
<1>1. /\ Refilled(Watched, clock) = Capacity[Watched] /\ clock \in Int /\ clock <= t
      /\ bucket' = bucket /\ spent' = 0
  <2>1. winFull' = (Refilled(Watched, clock) = Capacity[Watched]) /\ winStart' = clock
    BY DEF Observe
  <2>2. winStart' <= t
    BY DEF InOrder
  <2>3. Refilled(Watched, clock) = Capacity[Watched]
    BY <2>1, Zenon
  <2>4. clock \in Int /\ bucket' = bucket /\ spent' = 0
    BY DEF Observe, TypeOK
  <2>. QED
    BY <2>1, <2>2, <2>3, <2>4
<1>2. Refilled(Watched, t)' = Refilled(Watched, t)
  BY <1>1 DEF Refilled, TokensFor, Unit
<1>3. Refilled(Watched, t) >= Capacity[Watched]
  <2>1. CASE bucket = None
    BY <2>1, RefilledIs
  <2>2. CASE bucket # None
    <3>1. clock - bucket.lastRefill \in Int /\ t - bucket.lastRefill \in Int
          /\ clock - bucket.lastRefill <= t - bucket.lastRefill
      BY <1>1, <2>2, RefilledIs
    <3>2. TokensFor(Watched, clock - bucket.lastRefill)
              <= TokensFor(Watched, t - bucket.lastRefill)
          /\ TokensFor(Watched, clock - bucket.lastRefill) \in Int
          /\ TokensFor(Watched, t - bucket.lastRefill) \in Int
      BY <3>1, RefillGrows
    <3>. QED
      BY <1>1, <2>2, <3>2, RefilledIs DEF Least
  <2>. QED
    BY <2>1, <2>2
<1>4. Refilled(Watched, t) \in Int /\ Capacity[Watched] \in Nat
  BY RefilledWithin, RefilledIs, LimitsAssumption
<1>. QED
  BY <1>1, <1>2, <1>3, <1>4

LEMMA BurstKept == SingleRoute /\ TypeOK /\ TypeOK' /\ BurstLeft /\ [Next]_vars => BurstLeft'
<1>. SUFFICES ASSUME SingleRoute, TypeOK, TypeOK', BurstLeft, [Next]_vars PROVE BurstLeft'
  OBVIOUS
<1>1. ASSUME NEW c \in Callers, Grant(c) \/ GrantAnswerLost(c) PROVE BurstLeft'
  BY <1>1, TakeTokenKeepsBurst DEF Grant, GrantAnswerLost
<1>2. CASE Observe
  BY <1>2, ObserveStartsBurst
<1>3. ASSUME UNCHANGED <<bucket, spent, winStart, winFull>> PROVE BurstLeft'
  BY <1>3 DEF BurstLeft, InOrder, Refilled, TokensFor, Unit
<1>4. CASE Tick
  <2>1. UNCHANGED <<spent, winStart, winFull>> /\ (bucket' = None \/ bucket' = bucket)
    BY <1>4 DEF Tick, observed
  <2>2. CASE bucket' = bucket
    BY <1>3, <2>1, <2>2
  <2>3. CASE bucket' = None
    <3>1. \A t \in Int : Refilled(Watched, t)' = Capacity[Watched]
      BY <2>3 DEF Refilled
    <3>2. spent \in Nat /\ Capacity[Watched] \in Nat
      BY LimitsAssumption DEF TypeOK
    <3>. QED
      BY <2>1, <3>1, <3>2 DEF BurstLeft
  <2>. QED
    BY <2>1, <2>2, <2>3
<1>5. ASSUME NEW c \in Callers, NEW r \in Routes, NEW skew \in -MaxBehind .. MaxAhead,
             Check(c, r, skew)
      PROVE  BurstLeft'
  BY <1>3, <1>5 DEF Check, observed
<1>8. ASSUME NEW r \in Routes, Unhealthy(r) PROVE BurstLeft'
  BY <1>3, <1>8 DEF Unhealthy, observed
<1>6. ASSUME NEW c \in Callers, Refuse(c) \/ EvalFails(c) PROVE BurstLeft'
  BY <1>3, <1>6 DEF Refuse, EvalFails, observed
<1>7. CASE LinkChange \/ UNCHANGED vars
  BY <1>3, <1>7 DEF LinkChange, observed, vars
<1>. QED
  BY <1>1, <1>2, <1>4, <1>5, <1>6, <1>7, <1>8 DEF Next

\* From a full bucket no request is refused before a whole capacity is gone,
\* while requests are served in the order they were sampled.
THEOREM BurstGranted == SingleRoute /\ Spec => BurstAllowed
<1>. SUFFICES ASSUME SingleRoute PROVE Spec => BurstAllowed
  OBVIOUS
<1>1. Init => BurstLeft
  BY LimitsAssumption DEF Init, BurstLeft, Refilled
<1>2. TypeOK /\ BurstLeft /\ [Next]_vars =>
          [\A c \in Callers :
              winFull /\ Refuse(c) /\ InOrder(call[c].now) => spent >= Capacity[Watched]]_vars
  <2>. SUFFICES ASSUME TypeOK, BurstLeft, NEW c \in Callers, winFull, Refuse(c),
                       InOrder(call[c].now)
                PROVE  spent >= Capacity[Watched]
    OBVIOUS
  <2>1. call[c].route = Watched /\ call[c].now \in Int
    BY DEF SingleRoute, TypeOK, Refuse, InFlight, Request
  <2>2. Refilled(Watched, call[c].now) < 1
    BY <2>1 DEF Refuse
  <2>3. Refilled(Watched, call[c].now) + spent >= Capacity[Watched]
    BY <2>1 DEF BurstLeft
  <2>4. Refilled(Watched, call[c].now) \in Int /\ spent \in Nat /\ Capacity[Watched] \in Nat
    BY <2>1, RefilledWithin, LimitsAssumption DEF TypeOK
  <2>. QED
    BY <2>2, <2>3, <2>4
<1>3. Spec => []TypeOK
  BY TypeCorrect
<1>. QED
  BY <1>1, <1>2, <1>3, BurstKept, PTL DEF Spec, BurstAllowed

-----------------------------------------------------------------------------
\* A steady client.

\* What is stored is never negative: a script takes what is there.
NoDebt == bucket # None => 0 <= bucket.tokens

LEMMA NoDebtKept == Spec => [](TypeOK /\ NoDebt)
<1>1. Init => NoDebt
  BY DEF Init, NoDebt
<1>2. TypeOK /\ NoDebt /\ [Next]_vars => NoDebt'
  <2>. SUFFICES ASSUME TypeOK, NoDebt, [Next]_vars PROVE NoDebt'
    OBVIOUS
  <2>1. ASSUME NEW c \in Callers, TakeToken(c) PROVE NoDebt'
    <3>1. call[c].route \in Routes /\ call[c].now \in Int
      BY <2>1 DEF TypeOK, TakeToken, InFlight, Request
    <3>2. Refilled(call[c].route, call[c].now) \in Int
      BY <3>1, RefilledWithin
    <3>. QED
      BY <2>1, <3>2 DEF TakeToken, Taken, NoDebt
  <2>2. CASE bucket' = bucket \/ bucket' = None
    BY <2>2 DEF NoDebt
  <2>. QED
    BY <2>1, <2>2
    DEF Next, Check, Unhealthy, Grant, GrantAnswerLost, Refuse, EvalFails, LinkChange, Tick,
        Observe, vars
<1>. QED
  BY <1>1, <1>2, TypeCorrect, PTL DEF Spec

\* Who comes the time of one token after the last grant is never refused,
\* whatever the limits, skews, delays and lost answers are.
THEOREM SteadyClientServed == Spec => SteadyServed
<1>1. TypeOK /\ NoDebt /\ [Next]_vars =>
          [\A c \in Callers : Refuse(c) =>
              /\ bucket # None
              /\ call[c].now < bucket.lastRefill + CeilDiv(Unit, RateNum[call[c].route])]_vars
  <2>. SUFFICES ASSUME TypeOK, NoDebt, NEW c \in Callers, Refuse(c)
                PROVE  /\ bucket # None
                       /\ call[c].now < bucket.lastRefill
                                          + CeilDiv(Unit, RateNum[call[c].route])
    OBVIOUS
  <2>. DEFINE r == call[c].route
              R == RateNum[r]
              passed == call[c].now - bucket.lastRefill
              wait == CeilDiv(Unit, R)
  <2>1. r \in Routes /\ call[c].now \in Int /\ Refilled(r, call[c].now) < 1
    BY DEF TypeOK, Refuse, InFlight, Request
  <2>2. R \in Nat \ {0} /\ Capacity[r] \in Nat \ {0} /\ Unit \in Nat \ {0}
    BY <2>1, LimitsAssumption, UnitPositive
  <2>3. bucket # None
    BY <2>1, <2>2 DEF Refilled
  <2>4. bucket.lastRefill \in Int /\ bucket.tokens \in Nat
    BY <2>3 DEF NoDebt, TypeOK, Bucket
  <2>5. wait \in Int /\ wait * R >= Unit
    <3>1. Unit \in Int
      BY <2>2
    <3>. HIDE DEF R
    <3>. QED
      BY <2>2, <3>1, CeilAbove
  <2>6. CASE wait <= passed
    <3>1. passed * R >= wait * R
      <4>1. \A a, b \in Int, n \in Nat : a <= b => b * n >= a * n
        BY SMT
      <4>2. wait \in Int /\ passed \in Int /\ R \in Nat
        BY <2>1, <2>2, <2>4, <2>5
      <4>. HIDE DEF wait, passed, R
      <4>. QED
        BY <2>6, <4>1, <4>2
    <3>2. passed * R \in Int /\ wait * R \in Int
      BY <2>1, <2>2, <2>4, <2>5
    <3>3. TokensFor(r, passed) >= 1 /\ TokensFor(r, passed) \in Int
      <4>. HIDE DEF Unit, wait, passed, R
      <4>1. (passed * R) \div Unit >= 0 \div Unit + 1
        <5>1. passed * R >= 0 + 1 * Unit
          BY <2>2, <2>5, <3>1, <3>2
        <5>. QED
          BY <2>2, <3>2, <5>1, FloorsAdd
      <4>2. 0 \div Unit = 0 /\ (passed * R) \div Unit \in Int
        BY <2>2, <3>2
      <4>. QED
        BY <4>1, <4>2 DEF TokensFor, R
    <3>4. Refilled(r, call[c].now) = Least(Capacity[r], bucket.tokens + TokensFor(r, passed))
      BY <2>3 DEF Refilled
    <3>5. FALSE
      BY <2>1, <2>2, <2>4, <3>3, <3>4 DEF Least
    <3>. QED
      BY <3>5
  <2>7. CASE passed < wait
    BY <2>1, <2>3, <2>4, <2>5, <2>7
  <2>. QED
    BY <2>1, <2>4, <2>5, <2>6, <2>7
<1>. QED
  BY <1>1, NoDebtKept, PTL DEF Spec, SteadyServed

-----------------------------------------------------------------------------
(***************************************************************************)
(* The rate.  Refilled is the whole tokens in the level of a bucket that   *)
(* fills at the constant rate of the limit.                                *)
(***************************************************************************)

\* Rounding up adds less than what it divides by.
LEMMA CeilBelow ==
    ASSUME NEW a \in Int, NEW b \in Nat \ {0}
    PROVE  CeilDiv(a, b) * b < a + b
<1>1. (-a) \div b \in Int /\ -a < ((-a) \div b) * b + b
  BY FloorBelow
<1>2. \A q \in Int : (-q) * b = -(q * b) /\ q * b \in Int
  OBVIOUS
<1>. QED
  BY <1>1, <1>2 DEF CeilDiv

\* The mapped bucket is there exactly when the bucket is.
LEMMA StoredIs ==
    ASSUME TypeOK, NoDebt
    PROVE  /\ bucket = None <=> StoredUnits = None
           /\ bucket # None =>
                /\ bucket.tokens \in Nat /\ bucket.lastRefill \in Int /\ bucket.expireAt \in Int
                /\ StoredUnits.units = bucket.tokens * Unit
                /\ StoredUnits.stamp = bucket.lastRefill
                /\ StoredUnits.forgetAt = bucket.expireAt
<1>1. CASE bucket = None
  BY <1>1 DEF StoredUnits
<1>2. CASE bucket # None
  <2>1. bucket.tokens \in Nat /\ bucket.lastRefill \in Int /\ bucket.expireAt \in Int
    BY <1>2 DEF TypeOK, Bucket, NoDebt
  <2>2. bucket.tokens * Unit \in Nat
    <3>1. \A a \in Nat, b \in Nat \ {0} : a * b \in Nat
      BY SMT
    <3>. QED
      BY <2>1, <3>1, UnitPositive
  <2>3. StoredUnits = [units |-> bucket.tokens * Unit,
                       stamp |-> bucket.lastRefill,
                       forgetAt |-> bucket.expireAt]
    BY <1>2 DEF StoredUnits
  <2>4. StoredUnits \in Steady!Store
    BY <2>1, <2>2, <2>3 DEF Steady!Store
  <2>. QED
    BY <1>2, <2>1, <2>3, <2>4, StoreAbsenceAssumption
<1>. QED
  BY <1>1, <1>2

\* The stored bucket before it is capped.
LEMMA FilledIs ==
    ASSUME TypeOK, NoDebt, bucket # None, NEW r \in Routes, NEW t \in Int
    PROVE  /\ Steady!Filled(r, t)
                = bucket.tokens * Unit + (t - bucket.lastRefill) * RateNum[r]
           /\ Steady!Filled(r, t) \in Int
<1>1. RateNum[r] \in Int /\ Unit \in Int
  BY LimitsAssumption, UnitPositive
<1>2. bucket.tokens \in Int /\ bucket.lastRefill \in Int
  BY StoredIs
<1>3. bucket.tokens * Unit \in Int /\ (t - bucket.lastRefill) * RateNum[r] \in Int
  BY <1>1, <1>2
<1>. QED
  BY <1>3, StoredIs DEF Steady!Filled

\* The whole tokens in the level are what the script computes: the floor of
\* the refill loses less than a token.
LEMMA RefilledIsFloor ==
    ASSUME TypeOK, NoDebt, NEW r \in Routes, NEW t \in Int
    PROVE  /\ Steady!Level(r, t) \in Int
           /\ Refilled(r, t) \in Int
           /\ Refilled(r, t) * Unit <= Steady!Level(r, t)
           /\ Steady!Level(r, t) < Refilled(r, t) * Unit + Unit
<1>. DEFINE K == Capacity[r]
            n == Refilled(r, t)
<1>1. K \in Nat \ {0} /\ RateNum[r] \in Nat \ {0} /\ Unit \in Nat \ {0} /\ K * Unit \in Int
  <2>1. \A a, b \in Nat : a * b \in Int
    BY SMT
  <2>. QED
    BY <2>1, LimitsAssumption, UnitPositive
<1>2. CASE bucket = None
  <2>1. Steady!Level(r, t) = K * Unit /\ n = K
    BY <1>2, StoredIs DEF Steady!Level, Refilled
  <2>. QED
    BY <1>1, <2>1
<1>3. CASE bucket # None
  <2>. DEFINE held == bucket.tokens
              x == (t - bucket.lastRefill) * RateNum[r]
              q == TokensFor(r, t - bucket.lastRefill)
              f == Steady!Filled(r, t)
  <2>1. held \in Nat /\ bucket.lastRefill \in Int
    BY <1>3, StoredIs
  <2>2. x \in Int /\ q \in Int /\ q * Unit <= x /\ x < q * Unit + Unit
    <3>1. x \in Int
      BY <1>1, <2>1
    <3>2. q = x \div Unit
      BY DEF TokensFor
    <3>. HIDE DEF x, q
    <3>. QED
      BY <1>1, <3>1, <3>2, FloorBelow
  <2>3. f = held * Unit + x /\ f \in Int
    BY <1>3, FilledIs
  <2>4. n = IF K < held + q THEN K ELSE held + q
    BY <1>3 DEF Refilled, Least
  <2>5. Steady!Level(r, t) = IF f > K * Unit THEN K * Unit ELSE f
    BY <1>3, StoredIs DEF Steady!Level
  <2>. HIDE DEF n, K, held, x, q, f
  <2>6. (held + q) * Unit <= f /\ f < (held + q) * Unit + Unit /\ (held + q) * Unit \in Int
    <3>1. (held + q) * Unit = held * Unit + q * Unit /\ held * Unit \in Int /\ q * Unit \in Int
      BY <1>1, <2>1, <2>2
    <3>. QED
      BY <1>1, <2>2, <2>3, <3>1
  <2>7. \A a, b \in Int, u \in Nat \ {0} : /\ a <= b => a * u <= b * u
                                           /\ a < b => a * u + u <= b * u
    BY SMT
  <2>8. CASE K < held + q
    <3>1. K * Unit + Unit <= (held + q) * Unit
      BY <1>1, <2>1, <2>2, <2>7, <2>8
    <3>2. n = K /\ f > K * Unit
      BY <1>1, <2>3, <2>4, <2>6, <2>8, <3>1
    <3>. QED
      BY <1>1, <2>5, <3>2 DEF n
  <2>9. CASE held + q = K
    <3>1. n = K /\ K * Unit <= f /\ f < K * Unit + Unit
      BY <1>1, <2>4, <2>6, <2>9
    <3>. QED
      BY <1>1, <2>3, <2>5, <3>1 DEF n
  <2>10. CASE held + q < K
    <3>1. (held + q) * Unit + Unit <= K * Unit
      BY <1>1, <2>1, <2>2, <2>7, <2>10
    <3>2. n = held + q /\ f <= K * Unit
      BY <1>1, <2>1, <2>2, <2>3, <2>4, <2>6, <2>10, <3>1
    <3>. QED
      BY <1>1, <2>1, <2>2, <2>3, <2>5, <2>6, <3>2 DEF n
  <2>. QED
    BY <1>1, <2>1, <2>2, <2>8, <2>9, <2>10
<1>. QED
  BY <1>2, <1>3

\* A token taken is a grant of the constant rate bucket: it costs a token and
\* what the floor throws away.
LEMMA TakeTokenIsGrant ==
    ASSUME TypeOK, NoDebt, NEW c \in Callers, TakeToken(c),
           call' = call \/ call' = [call EXCEPT ![c] = None]
    PROVE  Steady!Grant(c)
<1>. DEFINE r == call[c].route
            now == call[c].now
            n == Refilled(r, now)
            left == (n - 1) * Unit
            level == Steady!Level(r, now)
<1>1. r \in Routes /\ now \in Int /\ call[c] # None
  BY DEF TypeOK, TakeToken, InFlight, Request
<1>2. n \in Int /\ n >= 1 /\ level \in Int /\ n * Unit <= level /\ level < n * Unit + Unit
  BY <1>1, RefilledIsFloor DEF TakeToken
<1>3. left \in Int /\ 0 <= left /\ left = n * Unit - Unit /\ n * Unit \in Int
  <2>. HIDE DEF n
  <2>1. \A a \in Int, u \in Nat \ {0} : /\ (a - 1) * u \in Int
                                        /\ a * u \in Int
                                        /\ (a - 1) * u = a * u - u
                                        /\ a >= 1 => 0 <= (a - 1) * u
    BY SMT
  <2>. QED
    BY <1>2, <2>1, UnitPositive
<1>4. left \in 0 .. level - Unit /\ level - 2 * Unit < left
  <2>1. Unit \in Nat
    BY UnitPositive
  <2>. HIDE DEF level, left, n
  <2>. QED
    BY <1>2, <1>3, <2>1
<1>5. bucket' = [tokens |-> n - 1, lastRefill |-> now, expireAt |-> clock + Window[r] * Sec]
  BY DEF TakeToken, Taken
<1>6. bucket' # None
  BY TakeTokenType, NoneAssumption
<1>7. StoredUnits' = [units |-> left, stamp |-> now, forgetAt |-> clock + Window[r] * Sec]
  BY <1>5, <1>6 DEF StoredUnits, Unit
<1>8. [s \in Routes |-> Window[s] * Sec][r] = Window[r] * Sec
  BY <1>1
<1>9. promise' = None /\ clock' = clock
  BY DEF TakeToken
<1>. HIDE DEF n, left
<1>. QED
  BY <1>1, <1>4, <1>7, <1>8, <1>9 DEF Steady!Grant

\* The time a refusal names comes less than a token's time and a second late.
LEMMA RetrySoon ==
    ASSUME TypeOK, NoDebt, NEW r \in Routes, NEW now \in Int, Refilled(r, now) < 1
    PROVE  /\ RetryAt(r, now) \in Int
           /\ Steady!Filled(r, RetryAt(r, now)) < 2 * Unit + Sec * RateNum[r]
<1>. DEFINE R == RateNum[r]
            n == Refilled(r, now)
            need == (1 - n) * RateDen
            wait == CeilDiv(need, R)
            at == RetryAt(r, now)
            held == bucket.tokens
            last == bucket.lastRefill
<1>1. /\ R \in Nat \ {0} /\ Capacity[r] \in Nat \ {0} /\ RateDen \in Nat \ {0}
      /\ Sec \in Nat \ {0} /\ Unit \in Nat \ {0} /\ Unit = RateDen * Sec
  BY LimitsAssumption, UnitPositive DEF Unit
<1>2. bucket # None /\ held \in Nat /\ last \in Int
  <2>1. bucket # None
    BY <1>1 DEF Refilled
  <2>. QED
    BY <2>1, StoredIs
<1>3. n \in Int /\ need \in Int
  <2>1. n \in Int
    BY RefilledIsFloor
  <2>. QED
    BY <1>1, <2>1
<1>4. wait \in Int /\ wait * R < need + R
  <2>. HIDE DEF need, R
  <2>. QED
    BY <1>1, <1>3, CeilAbove, CeilBelow
<1>5. at = now + Sec * wait /\ at \in Int
  <2>1. at = now + Sec * wait
    BY DEF RetryAt
  <2>. HIDE DEF wait, at
  <2>. QED
    BY <1>1, <1>4, <2>1
<1>6. Steady!Filled(r, now) = held * Unit + (now - last) * R
      /\ Steady!Filled(r, at) = held * Unit + (at - last) * R
      /\ Steady!Filled(r, now) \in Int /\ Steady!Filled(r, at) \in Int
  <2>. HIDE DEF at
  <2>. QED
    BY <1>2, <1>5, FilledIs
<1>7. Steady!Filled(r, now) < n * Unit + Unit
  <2>1. Steady!Level(r, now) < n * Unit + Unit /\ n * Unit \in Int
    BY <1>1, <1>3, RefilledIsFloor
  <2>2. n * Unit + Unit <= Capacity[r] * Unit /\ Capacity[r] * Unit \in Int
    <3>1. \A a, b \in Int, u \in Nat \ {0} : a + 1 <= b => a * u + u <= b * u
      BY SMT
    <3>2. n + 1 <= Capacity[r]
      BY <1>1, <1>3
    <3>. HIDE DEF n
    <3>. QED
      BY <1>1, <1>3, <3>1, <3>2
  <2>3. ~(Steady!Filled(r, now) > Capacity[r] * Unit)
    BY <1>1, <1>6, <2>1, <2>2 DEF Steady!Level
  <2>. QED
    BY <1>2, <2>1, <2>3, StoredIs DEF Steady!Level
<1>8. (at - last) * R = (now - last) * R + Sec * (wait * R)
      /\ (now - last) * R \in Int /\ wait * R \in Int /\ held * Unit \in Int
  <2>. HIDE DEF wait, R, held, last, at
  <2>1. at - last = (now - last) + Sec * wait
    BY <1>1, <1>2, <1>4, <1>5
  <2>2. \A a, b, u, v \in Int : (a + b * u) * v = a * v + b * (u * v)
    BY SMT
  <2>3. now - last \in Int /\ held * Unit \in Int /\ (now - last) * R \in Int /\ wait * R \in Int
    BY <1>1, <1>2, <1>4
  <2>. QED
    BY <1>1, <1>2, <1>4, <2>1, <2>2, <2>3
<1>9. Sec * (wait * R) < (1 - n) * Unit + Sec * R /\ Sec * (wait * R) \in Int
  <2>. DEFINE w == wait * R
  <2>1. \A a, b \in Int, s \in Nat \ {0} : a < b => s * a < s * b
    BY SMT
  <2>2. w \in Int /\ need + R \in Int /\ w < need + R
    BY <1>1, <1>3, <1>4, <1>8
  <2>3. Sec * w < Sec * (need + R)
    <3>. HIDE DEF w, need, R
    <3>. QED
      BY <1>1, <2>1, <2>2
  <2>4. Sec * (need + R) = (1 - n) * Unit + Sec * R
    <3>. HIDE DEF n, R
    <3>1. \A a, b, s, v \in Int : s * (a * b + v) = a * (b * s) + s * v
      BY SMT
    <3>. QED
      BY <1>1, <1>3, <3>1
  <2>. QED
    BY <1>1, <2>2, <2>3, <2>4
<1>10. (1 - n) * Unit = Unit - n * Unit /\ n * Unit \in Int
  <2>. HIDE DEF n
  <2>. QED
    BY <1>1, <1>3
<1>11. Sec * R \in Int
  BY <1>1
<1>. HIDE DEF R, n, need, wait, at, held, last
<1>12. Steady!Filled(r, at) < 2 * Unit + Sec * R
  BY <1>1, <1>6, <1>7, <1>8, <1>9, <1>10, <1>11
<1>. QED
  BY <1>5, <1>12 DEF at, R

\* A refusal is one of the constant rate bucket: no whole token is there, and
\* one is there at the time named.
LEMMA RefuseIsRefuse ==
    ASSUME TypeOK, NoDebt, NEW c \in Callers, Refuse(c)
    PROVE  Steady!Refuse(c)
<1>. DEFINE r == call[c].route
            now == call[c].now
            at == RetryAt(r, now)
<1>1. r \in Routes /\ now \in Int /\ call[c] # None /\ Refilled(r, now) < 1
  BY DEF TypeOK, Refuse, InFlight, Request
<1>2. at \in Int /\ Steady!Filled(r, at) < 2 * Unit + Sec * RateNum[r]
  BY <1>1, RetrySoon
<1>3. promise' = [route |-> r, at |-> at] /\ promise' # None /\ promise'.at = at
  <2>1. promise' = [route |-> r, at |-> at]
    BY DEF Refuse
  <2>2. promise' \in Promise
    BY <1>1, <1>2, <2>1 DEF Promise
  <2>. HIDE DEF at
  <2>. QED
    BY <2>1, <2>2, NoneAssumption
<1>4. Steady!Level(r, now) < Unit
  <2>. DEFINE n == Refilled(r, now)
  <2>1. n \in Int /\ n < 1 /\ Steady!Level(r, now) \in Int
        /\ Steady!Level(r, now) < n * Unit + Unit
    BY <1>1, RefilledIsFloor
  <2>. HIDE DEF n
  <2>2. n * Unit <= 0 /\ n * Unit \in Int
    BY <2>1, UnitPositive
  <2>. QED
    BY <2>1, <2>2, UnitPositive
<1>5. Unit <= Steady!Level(r, at)
  <2>. DEFINE n == Refilled(r, at)
  <2>1. at >= at
    BY <1>2
  <2>2. n >= 1
    BY <1>1, <1>2, <2>1, RefusalPromises
  <2>3. n \in Int /\ n * Unit <= Steady!Level(r, at) /\ Steady!Level(r, at) \in Int
    BY <1>1, <1>2, RefilledIsFloor
  <2>. HIDE DEF n
  <2>4. Unit <= n * Unit /\ n * Unit \in Int
    BY <2>2, <2>3, UnitPositive
  <2>. QED
    BY <2>3, <2>4, UnitPositive
<1>6. call' = [call EXCEPT ![c] = None] /\ clock' = clock /\ StoredUnits' = StoredUnits
  BY DEF Refuse, StoredUnits, Unit
<1>. HIDE DEF at
<1>. QED
  BY <1>1, <1>2, <1>3, <1>4, <1>5, <1>6 DEF Steady!Refuse

\* A tick forgets the mapped bucket exactly when the key expires.
LEMMA TickIsTick ==
    ASSUME TypeOK, NoDebt, Tick
    PROVE  Steady!Tick
<1>1. clock' = clock + 1 /\ call' = call /\ promise' = promise
  BY DEF Tick
<1>2. CASE bucket # None /\ bucket.expireAt <= clock + 1
  <2>1. StoredUnits' = None
    BY <1>2 DEF Tick, StoredUnits
  <2>. QED
    BY <1>1, <1>2, <2>1, StoredIs DEF Steady!Tick
<1>3. CASE ~(bucket # None /\ bucket.expireAt <= clock + 1)
  <2>1. StoredUnits' = StoredUnits
    BY <1>3 DEF Tick, StoredUnits, Unit
  <2>. QED
    BY <1>1, <1>3, <2>1, StoredIs DEF Steady!Tick
<1>. QED
  BY <1>2, <1>3

\* The limiter implements a bucket of the configured constant rate in which a
\* grant costs a token and less than one more, for all limits, routes, skews,
\* delays, lost answers and failures.
THEOREM RateImplemented == Spec => ImplementsRateBucket
<1>1. Init => Steady!Init
  BY DEF Init, Steady!Init, StoredUnits
<1>2. TypeOK /\ NoDebt /\ TypeOK' /\ [Next]_vars => [Steady!Next]_(Steady!vars)
  <2>. SUFFICES ASSUME TypeOK, NoDebt, TypeOK', [Next]_vars
                PROVE  [Steady!Next]_(Steady!vars)
    OBVIOUS
  <2>1. ASSUME NEW c \in Callers, NEW r \in Routes, NEW skew \in -MaxBehind .. MaxAhead,
               Check(c, r, skew)
        PROVE  Steady!Next
    <3>1. call[c] = None /\ UNCHANGED <<clock, bucket, promise>>
          /\ call' = [call EXCEPT ![c] = [route |-> r, now |-> clock + skew, sentAt |-> clock]]
      BY <2>1 DEF Check, Idle
    <3>2. clock + skew \in Int /\ clock \in Int
      BY BoundsAssumption DEF TypeOK
    <3>3. call'[c] = [route |-> r, now |-> clock + skew, sentAt |-> clock]
      BY <3>1 DEF TypeOK
    <3>4. call'[c] \in Steady!Request
      BY <3>2, <3>3 DEF Steady!Request
    <3>5. StoredUnits' = StoredUnits
      BY <3>1 DEF StoredUnits, Unit
    <3>6. Steady!Ask(c)
      BY <3>1, <3>3, <3>4, <3>5 DEF Steady!Ask
    <3>. QED
      BY <3>6 DEF Steady!Next
  <2>2. ASSUME NEW c \in Callers, Grant(c) \/ GrantAnswerLost(c) PROVE Steady!Next
    <3>1. TakeToken(c) /\ (call' = call \/ call' = [call EXCEPT ![c] = None])
      BY <2>2 DEF Grant, GrantAnswerLost
    <3>2. Steady!Grant(c)
      BY <3>1, TakeTokenIsGrant
    <3>. QED
      BY <3>2 DEF Steady!Next
  <2>3. ASSUME NEW c \in Callers, Refuse(c) PROVE Steady!Next
    BY <2>3, RefuseIsRefuse DEF Steady!Next
  <2>4. ASSUME NEW c \in Callers, EvalFails(c) PROVE Steady!Next
    <3>1. Steady!Drop(c)
      BY <2>4 DEF EvalFails, InFlight, Steady!Drop, StoredUnits, Unit
    <3>. QED
      BY <3>1 DEF Steady!Next
  <2>5. CASE Tick
    BY <2>5, TickIsTick DEF Steady!Next
  <2>6. CASE UNCHANGED <<clock, bucket, call, promise>>
    BY <2>6 DEF Steady!vars, StoredUnits, Unit
  <2>. QED
    BY <2>1, <2>2, <2>3, <2>4, <2>5, <2>6
    DEF Next, Unhealthy, LinkChange, Observe, vars
<1>3. Spec => [](TypeOK /\ NoDebt)
  BY NoDebtKept
<1>. QED
  BY <1>1, <1>2, <1>3, PTL DEF Spec, ImplementsRateBucket, Steady!Spec
=============================================================================
