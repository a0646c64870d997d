# Verification of the high-scale API platform

TLA+ models of the parts of the API that carry its logic, the TLC runs that
check them on small instances, and TLAPS proofs of the theorems that hold for
every value of the constants. Paths below are relative to the repository;
`src/...` is its source directory (listed as `src/src/...` in `PROJECT.json`).

## The system

Several instances of one NestJS application sit behind a load balancer and
share a Redis and a Postgres. What they keep in Redis, and when, is where the
program is hard to get right.

| Component | State | Operations | Talks to |
|---|---|---|---|
| Redis client and `RedisService` (`src/redis`) | ioredis status and queue, `isConnected` | `get`, `set`, `del`, `exists`, `incr`, `expire`, `ping`, events `connect`, `ready`, `error`, `close`, `end` | Redis |
| Rate limiting (`src/rate-limit`) | a hash per identifier: tokens and time of the last refill, or level and time of the last leak; its expiry | guard `canActivate`, `checkTokenBucket`, `checkLeakyBucket` | `isHealthy`, Lua scripts |
| Cache (`src/cache/cache.service.ts`) | an entry and a lock per key, tag sets | `getOrSet`, `get`, `set`, `delete`, `clear`, tags | `RedisService`, a factory that reads the database |
| Cache invalidation (`src/cache/cache-invalidation.service.ts`) | none | `invalidateOnUpdate`, by pattern, tag, user | cache |
| Idempotency (`src/idempotency`) | an entry per key: response and body hash | interceptor, `checkIdempotency`, `storeIdempotency` | `RedisService`, route handlers |
| Authentication (`src/auth`) | a users row, a refresh token per user | register, login, refresh, logout | Postgres, `RedisService`, JWT |
| Health and metrics (`src/observability`) | counters | `GET /v1/health`, metrics | `ping` |
| Logging and errors (`src/common`, `logging.service.ts`) | none | exception filter, log lines | all requests |
| Bootstrap and shutdown (`src/main.ts`, `app.module.ts`) | the process | guards, interceptors, signal handlers, `gracefulShutdown` | all |

The services interact through Redis: the instances share keys, and every
service reads `isHealthy()` before it sends a command. Within an instance they
share one client and the order in which a request passes them: limiter, route
guard, idempotency check, handler, idempotency store. Hence the behaviours that
are hard:

- a value is read, an `await` passes, and it is used: `getOrSet` between its
  reads, its lock and its fill; the idempotency check and its store; a refresh
  between comparing the stored token and replacing it;
- scripts and commands of several instances reach Redis in another order than
  their timestamps;
- an answer is lost with a connection and ioredis sends the command again, so
  that `SET NX`, `DEL`, `SETEX` or a script runs twice;
- Redis is flagged down, or a command fails, in the middle of a protocol, and
  the code goes on in degraded mode;
- an entry and the tags that find it are written by several commands, between
  which others delete, clear and invalidate, and both expire;
- an instance dies holding the lock; a key expires;
- calls wait for others (the lock), and requests for a client that may be
  reconnecting, and must return all the same; a shutdown waits for them.

`PROJECT.json` lists each hazard at its line, with the properties that would
catch it going wrong.

## The modules

Most modules model one Redis key: keys do not interact, except through tags
(`CacheTags`), a clear, and routes that share a key, which are modelled. An
action is the code between two awaits: the answer of one command, and what the
call does up to its next await. A history variable is one that no guard of the
code reads.

    RateBucket <-- TokenBucket <-- LeakyBucket   (refinements)
    RedisLink  <-- RequestPipeline               (extension and refinement)
    CacheAside      CacheTags      Idempotency      AuthSession

### TokenBucket: `checkTokenBucket` and the guard

`bucket` is the Redis hash with the time its `EXPIRE` falls due, `call` the
scripts that have been sent. `Check` is the guard and the sampling of
`Date.now()` at a skewed host; `Grant`, `GrantAnswerLost` and `Refuse` are the
script, run atomically by Redis up to `MaxDelay` later; `EvalFails` is the
`catch` block and `Unhealthy` the early return; `Tick` is time, with expiry.
`Observe` starts an observation window at any moment, so that what is said of
"the window" is said of every window.

Lua's tokens are floats, but they are always integers (a floor is added); only
the rate is a fraction, `RateNum / RateDen`. The configured numbers are the
constants. Headers, metrics and wording are left out; the guard's choice of
identifier is one identifier.

Properties: tokens taken, and requests admitted by a limiter that fails closed,
stay within a full bucket and the refill of the window (`SpendBound`,
`AdmissionBound`); a client refused with a retry time that waits it out is
granted unless somebody took a token in between (`RetryHonoured`); from a full
bucket no request is refused before a whole capacity is gone, while requests
are served in the order they were sampled (`BurstAllowed`); and who comes the
time of one token after the last grant is never refused, which is what is left
of the constant rate once each grant has thrown a fraction away (`SteadyServed`).

The bounds need two assumptions about the limits, and name them:
`WatchedLargest` (of the routes that share the identifier none has a larger
capacity, a shorter window or a higher rate than the one observed, and a slower
one only if its scripts are not delayed and clocks agree) and `WindowCovers`
(the key outlives the refill of the bucket: `capacity / rate <= window` less
the clock's slack). The code enforces neither.

### RateBucket: the constant rate that is promised

README.md:149 says of a limit that it "refills at a constant rate". `RateBucket`
is that bucket, with no floor in it: it holds units, of which `Token` make a
token, and a tick adds `Rate[r]` of them. `Grant` needs a whole token and takes
it, and a fraction of another at most; `Refuse` needs less than a token and
names a time at which it will be there, late by less than a token's time and a
second; `Drop` is a request that takes nothing; a bucket may be forgotten no
sooner than its idle time. `ImplementsRateBucket` says that `TokenBucket` is
such a bucket when its stored tokens are read in units (`StoredUnits`): what the
floor of `rate-limit.service.ts:82` costs is the fraction a grant takes, and
nothing else.

### LeakyBucket: `checkLeakyBucket`

The same environment with the other script. Its correctness is a refinement:
a bucket of level *n* is a token bucket of *capacity - n* tokens, and
`ImplementsTokenBucket` says that every behaviour of `LeakyBucket` is one of
`TokenBucket` under that mapping. `TokenBucket` is the abstract specification
of both limiters, and what is proved of it carries over, that it implements
`RateBucket` included.

### CacheAside: `getOrSet` and its lock

`pc[p]` is the await at which call *p* stands, from the first read through
`acquireLock`, the double check, the factory, the fill and `releaseLock`, or
through the polls of a lock that another holds. Values are versions of the
database row, so that a fill can be older than the row. A writer updates the
row and calls `invalidateOnUpdate`; an operator calls `clear`, which is two
steps (`KEYS`, then `DEL`) and takes locks with it. The lock variable records
its holder; the code stores `'1'`, and no guard but `LockFor`'s histories read
who it is. One flag `up` that may change at any time stands for each
instance's flag. Tags are `CacheTags`'s.

`LockFor` keeps the history `lapsed`: a lock went while its holder was at work.
That happens by expiry, by a clear, or by another call's `releaseLock`, which
deletes without asking. Up to then `SingleFlight` holds: one call at a time is
between taking the lock and giving it back. Since a lapse is also what a wrong
release would be, `LockIsOwn` says without it that releases are right: until an
expiry, a clear or a `DEL` whose answer is lost takes a lock away (`robbed`),
whoever is to release the lock holds it, so no release lapses anything, whatever
fails. `LoaderAlone` and `NoRefetch` say
what that buys while only answers and instances fail and the row is not updated
(`calm`), and what is fetched can be found (`Findable`: no namespace, no null):
one factory at a time, and none for what is cached, except by calls that waited
in vain as long as they may. With an update the first fails: the call at work
fills the key, the update's invalidation empties it, the lock goes, and all
waiters load. `StaleOnlyByRace` lists the only ways in which an old value stays
cached when no namespace is given: the call that cached it was `overtaken` by an
update between its factory and its `SETEX` (`raced` is copied from that, not
found by comparing values), or the invalidation was lost. Under a namespace
nothing of the kind holds: `invalidateOnUpdate` calls `delete(key)` without it
(`cache-invalidation.service.ts:28`), and `Invalidate` leaves the entry where it
is. `LeavesForCause` is the waiters' side, for runs of every kind: while a
call is at work nobody stops waiting, unless it has waited as long as it may,
Redis fails it, or the lock lapsed. `EveryCallReturns` is the liveness of the
polls, and `CallsWindDown` why it holds: `StepsLeft(p)` counts the steps call *p*
has left, its own steps lower it, and no step of another raises it.

### CacheTags: `set`, `delete`, `invalidateByTags`, `clear`

Several keys, several tags, and calls that run side by side. `entry[k]` is the
second at which the entry of *k* expires, `members[t]` and `falls[t]` are the
set of tag *t* and its expiry. `pc[c]` is the command that call *c* waits for:
`setex`, then `sadd` and `expire` for each tag (`cache.service.ts:76-79`,
`storeCacheTags`); `del`, `keys` and `srem` (`delete`, `deleteCacheTags`);
`smembers`, `unlink` for each member and `deltag` (`invalidateByTags`); `scan`
and `wipe` (`clear`). Loops over tags and members run in whatever order.
`SETEX`, `EXPIRE` and `DEL` go through `RedisService`, which swallows failures;
the others go to its client, and their failure ends the call, and so it is
here: `Fails` takes a call on or back, as its command has it. Calls that find
Redis flagged down return at once and are not started.

A key is `disturbed` (history) when its last `set` was overlapped by a call that
takes its tags away, or failed halfway, or lost a tag between `SADD` and
`EXPIRE`, or when a deletion of its entry failed. `owed[c]` (history) holds
what was cached under its tags when an invalidation began.

`Tagged`: what is cached, and not disturbed, is found by each of its tags until
it expires. `SweepComplete`: when an invalidation reaches its end, all it owed
is gone, but for disturbed keys. `NoImmortalTag`: a tag without an expiry is
about to get one, or a `set` of one of its keys failed. The first two need
`TtlCovered`, `options.ttl <= REDIS_TTL`, which `set` does not enforce.

### RedisLink: `RedisService` on ioredis

`status` is the client's, `isConnected` the flag, `sent` the commands and
probes with a pending promise. `Ask` is any gated command of `RedisService`,
`Ping` and `Pong` the health controller's probe, which is not gated; the rest
is the client as `redis.module.ts` configures it (lazy connect, a retry
strategy that always names a delay, a flush after `maxRetriesPerRequest`
failed attempts). A server may also answer with errors.

`FlagSound`: a client without a link is never taken for healthy, in whatever
order events, probes and flushes come. That it comes back, and that no promise
stays pending, is said where requests use the client, in `RequestPipeline`;
`ConnectsOnFirstCommand` shows that without probes it does not.

### RequestPipeline: an instance, its requests and its shutdown

`RequestPipeline` extends `RedisLink`: a request is one of `RedisLink`'s calls,
with at most one command pending, and a probe is a `GET /v1/health`. `at[r]` is
the stage of request *r*: `limit` (the `APP_GUARD` of `rate-limit.module.ts`,
which comes first), `auth` (the route's guard), `check` (the idempotency
interceptor), `handle`, and `store`, the store of the result, which goes on
after the response. `Limited`, `Guarded` and `Keyed` say which stages a request
has. `AskRedis` is a stage that asks `isHealthy()` and sends its command or goes
on without Redis, `Answered` the answer, `Rejected` the flush; `WithRedis` and
`WithoutRedis` are what each stage does in either case. What scripts and entries
say is left to the modules of each; here either answer may come. `skip` is
`RATE_LIMIT_SKIP_IF_REDIS_DOWN`. `GracefulShutdown` is a signal or an uncaught
error; `CloseResolves` and `CloseRejects` are the ends of `app.close()`, which
waits for responses (`InFlight`) and not for stores. A second signal calls
`close()` again, which has no effect of its own.

`LimitHonoured`: no limited request passes that the script did not grant when
the limiter fails closed, and none is refused that the script did not refuse
when it fails open, in whatever order flag, flush and answers come. `Spec`, the
specification of `RedisLink`, is a property: the requests use the client in no
way that `RedisLink` does not know, so `FlagSound` holds here too.
`RequestsAnswered`, `Drains` and `FlagRecovers` are the liveness of requests, of
the shutdown and of the flag.

### Idempotency: the interceptor and its service

Requests with one key reach instances with two bodies. `sent[i]` is the
connection of an instance, which Redis answers in order; storing the result is
not awaited, so that the client is answered while the `SETEX` is in the queue.
A response is named by the request whose handler made it. Handlers' responses
are taken to be truthy (all routes' are); a falsy one would not be replayed.

`ReplayFaithful`: what a client gets is the result of an execution that
happened, of its own body. `OwedIsReplayed`: a request that comes while its
response is stored, or is on its way from the same instance, is answered with
it, unless the entry expires, another body replaces it, or Redis fails.

### AuthSession: registration, login, refresh, logout

One email, its row, and the key `refresh_token:<userId>`. A JWT of one user is
the second it was signed in: two tokens of one second are equal, which is why
`revoked` forgets a token that is signed again in that second. Passwords and
invalid tokens that change nothing are left out; users are never deleted.

`RevokedStays`: a token that a client held when a logout deleted the key, or
when a refresh or a login replaced what it holds, is not accepted again,
although refreshes that read it before go on after it, and commands are sent
again. Hence of two refreshes at once with one token, the client whose token is
stored first is left with one that no refresh accepts.

Two parsers read `JWT_REFRESH_EXPIRES_IN`: jsonwebtoken (`JwtTtl`) and
`parseExpiryToSeconds` (`RedisTtl`, 15 minutes for a setting it does not know,
such as `1w`). Nothing makes them agree, and no property assumes that they do;
the run has them disagree. `KeptWhileValid`: a session lasts for as long as
Redis was told to keep its token, late stores, refreshes and resent commands
notwithstanding; with `RedisTtl < JwtTtl` this is all that is left of the
token's life. `HeldIsHonoured` is the client's side: for that long, a refresh
token that a client holds is accepted, or about to be stored once more, unless
it was revoked, or its own store failed and `login` did not look (`unkept`).

## What the runs check

| Run | Shows | Instance |
|---|---|---|
| `TokenBucket` | the bounds, the retry promise, the burst and the steady client, failing closed; the constant rate implemented | 2 scripts at once, capacity 2, 2/3 token a second, 2 ticks a second, window 4 s, delay 1, hosts ahead by 1, 8 ticks |
| `TokenBucketShared` (violated) | two routes with one key: the slower route admits more than its limit | capacities 6 and 3, rates 4 and 2 |
| `LeakyBucket` | the refinement, failing open | 2 scripts at once, capacity 2, 1 a second, delay 1, lag 1, 5 ticks |
| `CacheLock` | the lock and its waiters, under all that may happen to them | 3 calls, 2 polls, 3 events |
| `CacheStale` | staleness, and that calls wind down and return | 2 calls, 2 versions, the first null, 2 events of every kind |
| `CacheNamespaced` (violated) | with a namespace, nothing is ever found | 2 calls |
| `CacheTags` | tags find, invalidations finish, tags expire | 2 calls, 2 keys, 2 tags of which one is shared, lives of 2 s, 2 s, 1 event |
| `RequestPipeline` | limits, answers, shutdown, the flag and its recovery, `RedisLink` implemented | a limited and guarded route, a guarded and keyed one, 1 probe, flush after 3 attempts (the code's), 2 changes of the server |
| `RedisColdStart` (violated) | without a probe the client never connects | 1 command |
| `Idempotency` | replays | 4 requests, 2 bodies, 2 instances, 3 events |
| `IdempotencyConcurrent` (violated) | two requests at once are both executed | 2 requests |
| `AuthSession` | logouts, session lifetimes, tokens clients hold | 3 calls, tokens of 3 s that Redis keeps for 2, 3 s, 2 events |

**Bounds.** They are named in the modules and appear in guards only:
`MaxClock`, `MaxAdmitted` (requests counted without a token), `MaxFaults`,
`MaxVersion`, `MaxChanges`, and `MaxRetries`, which is a constant of the code
(50) made small. They are large enough for the cases that matter: in
`TokenBucket` a key lives 8 ticks, so that it is spent, expires and is found
fresh at the last, and a token takes 3 ticks, so that fractions are lost; in
`CacheLock` three calls make a holder, a waiter and one that comes late, and
three events are a crash, an expiry and a lost answer in one behaviour; in
`Idempotency` four requests make an execution, a replacement by another body, a
retry of each; in `CacheTags` an entry and a tag live two of the two seconds, so
that both expire, and one event meets any two calls at any of their commands; in
`RequestPipeline` two changes take the server down and up again, or let it err
and recover, and flushes are not counted; in `AuthSession` three calls are a
refresh caught between its read and its store, a logout, and a login, and the
clock reaches the second in which a key falls due, and the later one in which its
token expires. Symmetry is over calls and requests, and in no run that has a
liveness property.

**Fairness.** Assumed only where a run needs it. `CacheAside`: every await of a
call is answered (`WF` of `Advance`): Redis answers, or the client rejects
after its retries, or the factory returns, or a timer fires. `RedisColdStart`:
the client's timers and sockets make progress and a server that is there answers
(`ClientFairness`), and requests keep coming (`CallFairness`).
`RequestPipeline` (`PipeFairness`): the client likewise; a request's next step
(`Serve`: Redis, the database and the handlers answer, or the client rejects);
the health probe of `docker-compose.yml:28-41`, every 30 seconds; and
`CloseResolves`. Clients need not send requests, and nobody needs to shut the
instance down. Nothing forces failures to stop, except that `MaxFaults` and
`MaxChanges` bound them; `FlagRecovers` states its premise, that the server
stays up and the instance runs.

**Deadlock** is checked everywhere; `Idempotency` has a step `Served` for the
end, when every request has been answered, and `RequestPipeline` a step `Exited`
for a process that has ended.

## Mutants

Each property of a passing run comes with a plausible bug of the code that
breaks it: a definition `X_Fault` beside the definition `X` it replaces
(`Refilled_Uncapped`, `Release` without a check, a `SETEX` without expiry, a
poll that is not counted, ...). They are not part of any specification; they
show that the property would notice. `PROJECT.json` pairs them.

## What is proved

TLAPS proves these for every value of the constants, that is, for any number of
callers, calls, requests, instances and failures and for all limits and times.

- `TokenBucketProofs`. `TypeCorrect`. `AccountKept`: `IInv` is an invariant
  under `WatchedLargest` and `WindowCovers`. The bound on the window is not
  inductive by itself: it needs to know what is left in the bucket.
  `SpendAccounted` adds the bucket's *potential* (its tokens, and the refill
  since its stamp, before the cap) to what was spent; a token lowers the
  potential by what it adds to the spending, a tick raises the potential by
  what it adds to the allowance, and a key that expires held a potential of a
  full bucket, which is where `WindowCovers` is used; a token of another route
  lowers the potential all the more, as long as that route refills no faster,
  which is where `WatchedLargest` is. `CallsRecent` and
  `BucketStored` bound the stamps. `SpendBounded` and `AdmissionBounded`
  follow. `RetryKept` needs no assumption on limits: `PromiseGood` says that
  from the promised time on every time is granted, and the floor of the refill
  and the ceiling of the wait are related by `FloorsAdd` and `CeilAbove`.
  `BurstGranted` assumes `SingleRoute` (the identifier is used on one route, so
  that every token is counted); `BurstLeft` says that at every later sample the
  bucket has what the window has not spent. `SteadyClientServed` needs only that
  no debt is stored (`NoDebtKept`). `RateImplemented` is the refinement of
  `RateBucket`, one lemma per action, without any assumption on limits or clocks:
  `RefilledIsFloor` says that the tokens the script computes are the floor of the
  level of the constant-rate bucket, so that one is there exactly when a whole
  token is, and what a grant takes beyond a token is the fraction; `RetrySoon`
  bounds the two roundings of the retry time.
- `LeakyBucketProofs`. `LeakyImplementsToken`: initial states map to initial
  states and each action to the token bucket's action of that name. Through it
  `LeakBounded`, `LeakRetryKept`, `LeakBurstGranted` and `LeakSteadyServed` carry
  the theorems of `TokenBucketProofs` over to the leaky bucket, in its own terms,
  and `LeakRateImplemented` composes the two refinements.
- `CacheAsideProofs`. `TypeCorrect` carries `PollsLeft`, without which the
  retry counter is not bounded. `LockHolder` is the inductive form of
  `LockExcludes` (`SingleFlight`): the call at work is the lock's holder.
  `OwnLockOnly` (`LockIsOwn`) is inductive with types: who takes the lock finds
  it free, so nobody else is past taking it, and who gives it back is the only
  one who holds it. `StaleExplained` rests on `FillsAreFresh`: what a call is
  about to cache is the row as it is, unless an update came since its factory
  returned. `LoadersAlone` and
  `NothingRefetched` rest on `Fetching`, the invariant of calm runs: until the
  first fill nobody gives the lock back, so waiters find it held and its holder
  alone is past the double check; from then on double checks hit, so nobody
  joins those that load. `WaitersStay` follows from `LockHolder`: an `EXISTS` that
  finds no lock finds nobody in the section. `WaysShorten` and `WaysAreShort` are
  what of `EveryCallReturns` is within the prover's reach: at most seven steps,
  and two for each poll, and every step is one less. That the next step comes is
  the fairness of `Advance`, and is left to TLC.
- `CacheTagsProofs`. The inductive invariant has six parts. `Standing`: what a
  call holds fits the command it waits for. `LivesWithin`: no entry lives longer
  than `EntryTtl` from now. `Adding`: a key that a call has added is still in the
  tag when the call renews the tag's expiry, or another call is to add it.
  `Found`: a tag covers every undisturbed key, or a call that sets the key is to
  see to it; for keys that nobody sets this is `Tagged`. `Intact`: a call that
  takes an undisturbed key from its tags meets nobody who sets it, and does so
  after deleting its entry. `OwedAhead`: what an invalidation owes still has a
  tag that it has not done, or is among the members it is deleting. Under
  `TtlCovered`, `TagsFind` and `SweepsFinish` follow. `TagsExpire` needs no such
  assumption: it rests on `Belongs` (tags hold keys of theirs only) and `Awaited`
  (a key in a tag without an expiry is being set).
- `RedisLinkProofs`. `TypeCorrect`, which includes that at most
  `maxRetriesPerRequest` attempts pass between flushes, and `FlagIsSound`.
- `RequestPipelineProofs`. `LinkImplemented`: each step of the pipeline is a
  step of `RedisLink` or leaves its variables alone; hence `FlagStaysSound` and
  half of `PipeTypeCorrect` come from `RedisLinkProofs`. `LimitKept` is inductive
  with types: the verdict is set by the step that leaves the stage `limit`.
- `IdempotencyProofs`. `InvariantKept`: `ReplayFaithful` with `StoredFaithful`,
  that what is stored and what is on any connection is the result of an
  execution; `RepliesFaithful` and `StoredSound` follow. `OwedReplayed` rests on
  `Owing`: a request that is owed a response either has it ahead on the
  connection it waits on, with no other body's store in between, or the entry
  already holds it; one lemma per action says that the queue keeps that order.
- `AuthSessionProofs`. `RevocationLasts`, `SessionsLast` and `SessionsSound`,
  from one invariant: no call is about to store a revoked token, and a key
  outlives the signature of its token by `RedisTtl` at least. `TokensHonoured` is inductive on top of it: a token
  that stops being the one accepted is revoked by what replaced it, unless a call
  is about to store it.

The assumptions on constants are the named `ASSUME`s of the modules: types, and
that the absence value is not one of the values. TLC evaluates them in the runs.

Every safety and action property of the passing runs is proved. Only
model-checked is liveness (`EveryCallReturns`, `RequestsAnswered`, `Drains`,
`FlagRecovers`): the prover treats neither fairness nor `ENABLED`. Nor could it
prove what a recursive definition computes for every input; the modules have
none.

## Disagreements between the code and what is said of it

Four are shown by a run (`findings` in `PROJECT.json`): the shared bucket, the
namespace, the cold start, concurrent requests with one idempotency key. The
models and the reading show the following as well; they have no run of their
own:

- A script that is overtaken (`rate-limit.service.ts:81`) refills a negative
  number of tokens and moves `lastRefill` back, so that a burst may be refused
  early: `BurstAllowed` is therefore stated for requests served in order.
- Each grant throws the refilled fraction away (`rate-limit.service.ts:82`):
  README.md:149 promises a constant rate, but an irregular client that keeps to
  it on average can be refused.
- A script of a slower route at the same identifier that is overtaken moves
  `lastRefill` back and takes tokens off at its own rate
  (`rate-limit.service.ts:81-82`); the faster route then refills that time at its
  own, and grants more than its limit allows. Hence the condition on slower routes
  in `WatchedLargest`: without it `SpendBound` fails for the faster route.
- The limiter is an `APP_GUARD` and runs before `JwtAuthGuard`
  (`rate-limit.module.ts`), so `request.user` is not set when it reads it: of
  its "Priority: API Key > User ID > IP Address", the user never counts.
- The leaky bucket admits a burst of its whole capacity, as the refinement says,
  where README.md:163 has it smooth bursts.
- A factory that returns null (`cache.service.ts:181`) is never a hit: the lock
  does not keep others from loading.
- A factory that throws releases the lock with nothing cached, and every waiter
  loads by itself, all at once (`cache.service.ts:213`), where IMPROVEMENTS.md
  has "Only one request fetches data while others wait": `LoaderAlone` holds
  while no factory throws.
- An entry loses its tags when `options.ttl` exceeds `REDIS_TTL`, or when a tag
  expires between its `SADD` and its `EXPIRE` (`cache.service.ts:302-303`);
  `invalidateByTags` counts an entry whose `DEL` failed as invalidated (`127`).
- A fill that read before an update may write after its invalidation
  (`cache-invalidation.service.ts:28`); `overtaken` and `raced` record it.
- An entry written under `options.namespace` is never invalidated by key:
  `invalidateOnUpdate` deletes `cache:<key>`, not `cache:<namespace>:<key>`
  (`cache-invalidation.service.ts:28`, `cache.service.ts:94`).
- A `JWT_REFRESH_EXPIRES_IN` that `parseExpiryToSeconds` does not know, such as
  `1w`, makes Redis forget after 15 minutes a token that is valid for a week
  (`auth.service.ts:172`).
- A retry that reaches another instance before the result reaches Redis
  (`idempotency.interceptor.ts:61`) is executed again.
- Two registrations of one email may both find it free; the second is a server
  error, not the documented 401 (`auth.controller.ts:71`).
- `logout` and `storeRefreshToken` ignore that `del` and `set` returned false:
  while Redis is flagged down a logout ends nothing, and a login answers with a
  refresh token that no refresh accepts.
- `http_requests_total` ("Total number of HTTP requests", `metrics.service.ts:34`)
  counts neither requests that end in an error nor those a guard turns away.
- FAILURE_SCENARIOS.md:214-219 has a shutdown close the connections of database
  and Redis; `RedisService` has no shutdown hook, and a store of an idempotent
  result that is under way when `close()` resolves is cut off by `process.exit`
  (`main.ts:135-147`): the response is out, and a retry executes again.

## What is not modelled

Log lines, counters, versioning tables, configuration, TypeORM wiring and
migrations keep no state of their own or only output it; of the metrics and
health controllers only the Redis probe has an effect on another part. Bootstrap
is a straight line of library calls before the first request. Headers and
messages are left out of every module, and so is the choice of a rate limit's
identifier and of an idempotency key, which are a function of the request. The
deployment files are data; they justify the fairness of the probe. The handlers
of `RequestPipeline` are one step: their own commands on the client are
`AuthSession`'s, and `app.controller.ts` has none.

## Plan

Done: the limiters and their refinement, the constant rate they keep to, the
lock and its waiters, staleness, tags, the client and the pipeline on it with
its shutdown, idempotency, sessions with rotation. Left:

1. `getOrSet` on `CacheTags` and on `RedisLink`, as the pipeline is: the one flag
   of `CacheAside` is shown to stand for those of several instances.
2. A measure like `StepsLeft` for the calls of `CacheTags`, whose loops over tags
   and members end as well. (The stages of `RequestPipeline` follow one another;
   that its requests are answered is a matter of fairness alone.)
