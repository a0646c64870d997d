------------------------------ MODULE CacheAside ------------------------------
(***************************************************************************)
(* CacheService.getOrSet for one cache key: the cache-aside pattern, with  *)
(* a Redis lock (SET NX EX, then DEL) against stampedes, beside a writer   *)
(* that updates the database and invalidates the key, and an operator that *)
(* clears the cache.                                                       *)
(*                                                                         *)
(* One action is the code between two awaits: Redis answers a command, or  *)
(* does not, and the call goes on to its next await.  Values are versions  *)
(* of the database row.                                                    *)
(***************************************************************************)
EXTENDS Integers, FiniteSets

CONSTANTS
    Procs,        \* concurrent calls of getOrSet for the key
    MaxRetries,   \* maxWaitTime / checkInterval (50 in the code)
    Namespaced,   \* options.namespace is given
    NullVersions, \* versions whose value is null
    MaxVersion,   \* bound on the updates of the row
    Events,       \* what the environment does, see below
    MaxFaults,    \* bound on the events other than updates
    None          \* no entry, no lock holder, no value

\* An answer lost with the connection (the command is sent again), a command
\* that fails, the link going down, the lock's or the entry's expiry, the
\* factory throwing, an instance crashing, an operator clearing the cache,
\* a write to the row.
AllEvents == {"answer_lost", "command_fails", "link_down", "lock_expires",
              "entry_expires", "factory_throws", "crash", "clear", "update"}

ASSUME CacheAssumption ==
    /\ None \notin Procs \cup Nat
    /\ MaxRetries \in Nat \ {0}
    /\ Namespaced \in BOOLEAN
    /\ NullVersions \subseteq Nat
    /\ MaxVersion \in Nat
    /\ MaxFaults \in Nat
    /\ Events \subseteq AllEvents

VARIABLES
    db,       \* the row's version
    entry,    \* the cached version, or None
    raced,    \* history: an overtaken call set the entry, or a DEL of it failed
    late,     \* history: the entry was set by a call that gave up on the lock
    lock,     \* who set the lock key, or None; the code stores '1' for all
    pc,       \* pc[p]: the await at which p is
    val,      \* val[p]: the version p's factory returned
    retries,  \* retries[p]: polls of p that found the lock held
    gaveUp,   \* history: the calls that waited in vain for the lock
    overtaken, \* history: the calls that an update met between factory and fill
    up,       \* RedisService.isHealthy()
    writer,   \* what the writer has yet to do: "idle", "invalidate", "clear"
    doomed,   \* the keys a clear found with KEYS and will delete
    lapsed,   \* history: the lock went while its holder was at work
    robbed,   \* history: it went other than by the answered release of a call
    faults,   \* number of events so far
    calm      \* history: lost answers and crashes only, and no update, so far

vars == <<db, entry, raced, late, lock, pc, val, retries, gaveUp, overtaken, up, writer, doomed,
          lapsed, robbed, faults, calm>>

\* What calls touch, what the environment and the writer touch.
callVars == <<pc, val, retries, gaveUp>>
cacheVars == <<entry, raced, late>>
faultVars == <<faults, calm>>
worldVars == <<db, overtaken, up, writer, doomed, faults, calm>>

-----------------------------------------------------------------------------
Steps == {"idle", "get", "acquire", "get2", "load", "set", "release",
          "wait", "exists", "getLast", "loadAlone", "setAlone"}

\* Awaits that a Redis command answers.
Commands == Steps \ {"idle", "load", "loadAlone"}

\* Between taking the lock and giving it back.
InSection == {p \in Procs : pc[p] \in {"get2", "load", "set"}}

\* From taking the lock until its release is answered.
Holding == {p \in Procs : pc[p] \in {"get2", "load", "set", "release"}}

\* Before or between the polls of the lock.
Polling == {p \in Procs : pc[p] \in {"get", "acquire", "wait", "exists"}}

\* Calls whose factory, hence the database, is at work.
Loading == {p \in Procs : pc[p] \in {"load", "loadAlone"}}

TypeOK ==
    /\ db \in 0 .. MaxVersion
    /\ entry \in 0 .. MaxVersion \cup {None}
    /\ raced \in BOOLEAN
    /\ late \in BOOLEAN
    /\ lock \in Procs \cup {None}
    /\ pc \in [Procs -> Steps]
    /\ val \in [Procs -> 0 .. MaxVersion \cup {None}]
    /\ retries \in [Procs -> 0 .. MaxRetries]
    /\ gaveUp \subseteq Procs
    /\ overtaken \subseteq Procs
    /\ up \in BOOLEAN
    /\ writer \in {"idle", "invalidate", "clear"}
    /\ doomed \subseteq {"entry", "lock"}
    /\ lapsed \in BOOLEAN
    /\ robbed \in BOOLEAN
    /\ faults \in 0 .. MaxFaults
    /\ calm \in BOOLEAN

Init ==
    /\ db = 0
    /\ entry = None
    /\ raced = FALSE
    /\ late = FALSE
    /\ lock = None
    /\ pc = [p \in Procs |-> "idle"]
    /\ val = [p \in Procs |-> None]
    /\ retries = [p \in Procs |-> 0]
    /\ gaveUp = {}
    /\ overtaken = {}
    /\ up = TRUE
    /\ writer = "idle"
    /\ doomed = {}
    /\ lapsed = FALSE
    /\ robbed = FALSE
    /\ faults = 0
    /\ calm = TRUE

-----------------------------------------------------------------------------
Event(e) ==
    /\ e \in Events
    /\ faults < MaxFaults
    /\ faults' = faults + 1
    /\ calm' = (calm /\ e \in {"answer_lost", "crash"})

\* A lapse is forgotten when nobody is left in the section.  A release that is
\* answered moves its call; an expiry, a clear and a DEL whose answer is lost
\* take the lock away while all calls stay where they are, which is forgotten
\* when no call is left that took it.
LockFor(holder) ==
    /\ lock' = holder
    /\ lapsed' = /\ lapsed \/ (lock \in InSection /\ holder = None)
                 /\ InSection' # {}
    /\ robbed' = /\ robbed \/ (lock # None /\ holder = None /\ UNCHANGED pc)
                 /\ Holding' # {}

KeepLock == LockFor(lock)

\* set() under options.namespace writes a key get() never reads, and get()
\* takes a null it finds for a miss.
Readable == ~Namespaced /\ entry # None /\ entry \notin NullVersions

Goto(p, step) == pc' = [pc EXCEPT ![p] = step]

\* Seeded fault: an error while locking is taken for the lock.
OnError_Locks(p) ==
    CASE pc[p] = "acquire"  -> "get2"
      [] pc[p] = "get"      -> IF up THEN "acquire" ELSE "loadAlone"
      [] pc[p] = "get2"     -> "load"
      [] pc[p] = "set"      -> "release"
      [] pc[p] = "wait"     -> "exists"
      [] pc[p] = "exists"   -> "getLast"
      [] pc[p] = "getLast"  -> "loadAlone"
      [] OTHER              -> "idle"

\* Where a call goes when its command throws, or is not sent because Redis
\* is flagged down: get() is a miss, exists() is false, set() and
\* releaseLock() give up.
OnError(p) ==
    CASE pc[p] = "get"      -> IF up THEN "acquire" ELSE "loadAlone"
      [] pc[p] = "acquire"  -> "wait"
      [] pc[p] = "get2"     -> "load"
      [] pc[p] = "set"      -> "release"
      [] pc[p] = "wait"     -> "exists"
      [] pc[p] = "exists"   -> "getLast"
      [] pc[p] = "getLast"  -> "loadAlone"
      [] pc[p] = "release"  -> "idle"
      [] pc[p] = "setAlone" -> "idle"

\* Seeded fault: the retry counter outlives the call.
Start_KeepsRetries(p) ==
    /\ pc[p] = "idle"
    /\ Goto(p, "get")
    /\ gaveUp' = gaveUp \ {p}
    /\ overtaken' = overtaken \ {p}
    /\ UNCHANGED <<val, retries, cacheVars, db, up, writer, doomed, faultVars>>
    /\ KeepLock

Start(p) ==
    /\ pc[p] = "idle"
    /\ Goto(p, "get")
    /\ val' = [val EXCEPT ![p] = None]
    /\ retries' = [retries EXCEPT ![p] = 0]
    /\ gaveUp' = gaveUp \ {p}
    /\ overtaken' = overtaken \ {p}
    /\ UNCHANGED <<cacheVars, db, up, writer, doomed, faultVars>>
    /\ KeepLock

\* Seeded fault: no double check once the lock is taken.
Read_Unchecked(p) ==
    LET onHit == [get |-> "idle", get2 |-> "load", wait |-> "idle", getLast |-> "idle"]
        onMiss == [get |-> "acquire", get2 |-> "load", wait |-> "exists", getLast |-> "loadAlone"]
    IN  /\ up
        /\ pc[p] \in DOMAIN onHit
        /\ Goto(p, IF Readable THEN onHit[pc[p]] ELSE onMiss[pc[p]])
        /\ KeepLock
        /\ UNCHANGED <<val, retries, gaveUp, cacheVars, worldVars>>

\* Seeded fault: who waited for the lock gives it back as well.
Read_ReleasesAll(p) ==
    LET onHit == [get |-> "idle", get2 |-> "release", wait |-> "release", getLast |-> "idle"]
        onMiss == [get |-> "acquire", get2 |-> "load", wait |-> "exists", getLast |-> "loadAlone"]
    IN  /\ up
        /\ pc[p] \in DOMAIN onHit
        /\ Goto(p, IF Readable THEN onHit[pc[p]] ELSE onMiss[pc[p]])
        /\ KeepLock
        /\ UNCHANGED <<val, retries, gaveUp, cacheVars, worldVars>>

\* The reads of the cache: first try, double check, poll, last try.
Read(p) ==
    LET onHit == [get |-> "idle", get2 |-> "release", wait |-> "idle", getLast |-> "idle"]
        onMiss == [get |-> "acquire", get2 |-> "load", wait |-> "exists", getLast |-> "loadAlone"]
    IN  /\ up
        /\ pc[p] \in DOMAIN onHit
        /\ Goto(p, IF Readable THEN onHit[pc[p]] ELSE onMiss[pc[p]])
        /\ KeepLock
        /\ UNCHANGED <<val, retries, gaveUp, cacheVars, worldVars>>

\* Seeded fault: SET without NX.
Acquire_Overwrites(p) ==
    /\ up
    /\ pc[p] = "acquire"
    /\ Goto(p, "get2")
    /\ UNCHANGED <<val, retries, gaveUp, cacheVars, worldVars>>
    /\ LockFor(p)

\* SET NX answers OK to the call that finds no lock.
Acquire(p) ==
    /\ up
    /\ pc[p] = "acquire"
    /\ lock = None
    /\ Goto(p, "get2")
    /\ UNCHANGED <<val, retries, gaveUp, cacheVars, worldVars>>
    /\ LockFor(p)

\* Seeded fault: a call that finds the lock held does not wait.
Busy_Impatient(p) ==
    /\ up
    /\ pc[p] = "acquire"
    /\ lock # None
    /\ Goto(p, "loadAlone")
    /\ UNCHANGED <<val, retries, gaveUp, cacheVars, worldVars>>
    /\ KeepLock

\* It answers null to the others, which wait.
Busy(p) ==
    /\ up
    /\ pc[p] = "acquire"
    /\ lock # None
    /\ Goto(p, "wait")
    /\ UNCHANGED <<val, retries, gaveUp, cacheVars, worldVars>>
    /\ KeepLock

\* The poll's EXISTS: lock gone, lock held and time left, or out of time.
LockGone(p) ==
    /\ up
    /\ pc[p] = "exists"
    /\ lock = None
    /\ Goto(p, "getLast")
    /\ UNCHANGED <<val, retries, gaveUp, cacheVars, worldVars>>
    /\ KeepLock

\* Seeded fault: the polls are not counted.
LockHeld_Forever(p) ==
    /\ up
    /\ pc[p] = "exists"
    /\ lock # None
    /\ Goto(p, "wait")
    /\ UNCHANGED <<val, retries, gaveUp, cacheVars, worldVars>>
    /\ KeepLock

LockHeld(p) ==
    /\ up
    /\ pc[p] = "exists"
    /\ lock # None
    /\ retries' = [retries EXCEPT ![p] = @ + 1]
    /\ IF retries[p] + 1 < MaxRetries
         THEN Goto(p, "wait") /\ UNCHANGED gaveUp
         ELSE Goto(p, "loadAlone") /\ gaveUp' = gaveUp \cup {p}
    /\ UNCHANGED <<val, cacheVars, worldVars>>
    /\ KeepLock

\* The factory reads the row and returns, or throws.
Load(p) ==
    /\ p \in Loading
    /\ val' = [val EXCEPT ![p] = db]
    /\ Goto(p, IF pc[p] = "load" THEN "set" ELSE "setAlone")
    /\ UNCHANGED <<retries, gaveUp, cacheVars, worldVars>>
    /\ KeepLock

FactoryThrows(p) ==
    /\ Event("factory_throws")
    /\ p \in Loading
    /\ Goto(p, IF pc[p] = "load" THEN "release" ELSE "idle")
    /\ UNCHANGED <<val, retries, gaveUp, cacheVars, db, overtaken, up, writer, doomed>>
    /\ KeepLock

\* SETEX writes what the factory returned, however old it is by now.
PutEntry(p) ==
    /\ up
    /\ pc[p] \in {"set", "setAlone"}
    /\ entry' = val[p]
    /\ raced' = (p \in overtaken)
    /\ late' = (p \in gaveUp)

Put(p) ==
    /\ PutEntry(p)
    /\ Goto(p, IF pc[p] = "set" THEN "release" ELSE "idle")
    /\ UNCHANGED <<val, retries, gaveUp, worldVars>>
    /\ KeepLock

\* releaseLock deletes the lock key, whoever set it.
Release(p) ==
    /\ up
    /\ pc[p] = "release"
    /\ Goto(p, "idle")
    /\ UNCHANGED <<val, retries, gaveUp, cacheVars, worldVars>>
    /\ LockFor(None)

\* Redis is flagged down: the command is not sent, or the flush fails it.
Unreachable(p) ==
    /\ ~up
    /\ pc[p] \in Commands
    /\ Goto(p, OnError(p))
    /\ UNCHANGED <<val, retries, gaveUp, cacheVars, worldVars>>
    /\ KeepLock

\* The command's promise rejects; the service catches it.
CommandFails(p) ==
    /\ Event("command_fails")
    /\ pc[p] \in Commands
    /\ Goto(p, OnError(p))
    /\ UNCHANGED <<val, retries, gaveUp, cacheVars, db, overtaken, up, writer, doomed>>
    /\ KeepLock

\* Redis ran the command and its answer was lost: ioredis sends it again,
\* and the call still waits.
AnswerLost(p) ==
    /\ Event("answer_lost")
    /\ UNCHANGED <<callVars, db, overtaken, up, writer, doomed>>
    /\ \/ /\ up /\ pc[p] = "acquire" /\ lock = None
          /\ LockFor(p)
          /\ UNCHANGED cacheVars
       \/ /\ up /\ pc[p] = "release"
          /\ LockFor(None)
          /\ UNCHANGED cacheVars
       \/ /\ PutEntry(p)
          /\ KeepLock

\* The instance of p dies; the lock it may hold stays.
Crash(p) ==
    /\ Event("crash")
    /\ pc[p] # "idle"
    /\ Goto(p, "idle")
    /\ UNCHANGED <<val, retries, gaveUp, cacheVars, db, overtaken, up, writer, doomed>>
    /\ KeepLock

-----------------------------------------------------------------------------
LockExpires ==
    /\ Event("lock_expires")
    /\ lock # None
    /\ UNCHANGED <<callVars, cacheVars, db, overtaken, up, writer, doomed>>
    /\ LockFor(None)

EntryExpires ==
    /\ Event("entry_expires")
    /\ entry # None
    /\ entry' = None
    /\ UNCHANGED <<raced, late, callVars, db, overtaken, up, writer, doomed>>
    /\ KeepLock

LinkDown ==
    /\ Event("link_down")
    /\ up
    /\ up' = FALSE
    /\ UNCHANGED <<callVars, cacheVars, db, overtaken, writer, doomed>>
    /\ KeepLock

LinkUp ==
    /\ ~up
    /\ up' = TRUE
    /\ UNCHANGED <<callVars, cacheVars, db, overtaken, writer, doomed, faultVars>>
    /\ KeepLock

\* The application writes the row, then calls invalidateOnUpdate.
Update ==
    /\ "update" \in Events
    /\ writer = "idle"
    /\ db < MaxVersion
    /\ db' = db + 1
    /\ writer' = "invalidate"
    /\ calm' = FALSE
    /\ overtaken' = overtaken \cup {p \in Procs : pc[p] \in {"set", "setAlone"}}
    /\ UNCHANGED <<callVars, cacheVars, up, doomed, faults>>
    /\ KeepLock

\* Seeded fault: the key that is deleted is not the key that was set.
Invalidate_OtherKey ==
    /\ writer = "invalidate"
    /\ up
    /\ writer' = "idle"
    /\ UNCHANGED <<cacheVars, callVars, db, overtaken, up, doomed, faultVars>>
    /\ KeepLock

\* delete(key) builds the key without a namespace, and misses an entry that
\* set() wrote under one.
Invalidate ==
    /\ writer = "invalidate"
    /\ up
    /\ entry' = IF Namespaced THEN entry ELSE None
    /\ writer' = "idle"
    /\ UNCHANGED <<raced, late, callVars, db, overtaken, up, doomed, faultVars>>
    /\ KeepLock

\* delete() returns false, and invalidateOnUpdate does not look.
InvalidateLost ==
    /\ writer = "invalidate"
    /\ \/ ~up /\ UNCHANGED faultVars
       \/ Event("command_fails")
    /\ raced' = TRUE
    /\ writer' = "idle"
    /\ UNCHANGED <<entry, late, callVars, db, overtaken, up, doomed>>
    /\ KeepLock

\* clear(): KEYS 'cache:*' finds the entry and the lock alike ...
ClearScan ==
    /\ Event("clear")
    /\ up
    /\ writer = "idle"
    /\ writer' = "clear"
    /\ doomed' = {k \in {"entry", "lock"} : IF k = "entry" THEN entry # None ELSE lock # None}
    /\ UNCHANGED <<callVars, cacheVars, db, overtaken, up>>
    /\ KeepLock

\* ... and a DEL of what it found removes what is there by then.
ClearDelete ==
    /\ writer = "clear"
    /\ up
    /\ writer' = "idle"
    /\ doomed' = {}
    /\ entry' = IF "entry" \in doomed THEN None ELSE entry
    /\ UNCHANGED <<raced, late, callVars, db, overtaken, up, faultVars>>
    /\ LockFor(IF "lock" \in doomed THEN None ELSE lock)

ClearFails ==
    /\ writer = "clear"
    /\ \/ ~up /\ UNCHANGED faultVars
       \/ Event("command_fails")
    /\ writer' = "idle"
    /\ doomed' = {}
    /\ UNCHANGED <<callVars, cacheVars, db, overtaken, up>>
    /\ KeepLock

Environment ==
    \/ LockExpires
    \/ EntryExpires
    \/ LinkDown
    \/ LinkUp
    \/ Update
    \/ Invalidate
    \/ InvalidateLost
    \/ ClearScan
    \/ ClearDelete
    \/ ClearFails

\* The next await of a call, answered one way or another.
Advance(p) ==
    \/ Read(p)
    \/ Acquire(p)
    \/ Busy(p)
    \/ LockGone(p)
    \/ LockHeld(p)
    \/ Load(p)
    \/ Put(p)
    \/ Release(p)
    \/ Unreachable(p)

Next ==
    \/ \E p \in Procs : Start(p)
    \/ \E p \in Procs : Advance(p)
    \/ \E p \in Procs : FactoryThrows(p)
    \/ \E p \in Procs : CommandFails(p)
    \/ \E p \in Procs : AnswerLost(p)
    \/ \E p \in Procs : Crash(p)
    \/ Environment

Spec == Init /\ [][Next]_vars

\* Every await of a call is answered: by Redis, by the client's flush of its
\* queue, by the factory, by a timer.
FairSpec == Spec /\ \A p \in Procs : WF_vars(Advance(p))

-----------------------------------------------------------------------------
\* The lock excludes: as long as no lock was taken from a call at work (by
\* expiry, by a clear, or by another call's release, which deletes without
\* asking), at most one call is between taking the lock and giving it back,
\* even if answers are lost, commands fail, instances crash and links drop.
SingleFlight == ~lapsed => \A p, q \in InSection : p = q

\* A call polls the lock at most MaxRetries times: before each poll it has
\* one left.
PollsLeft == \A p \in Polling : retries[p] < MaxRetries

\* SingleFlight is inductive when the call at work is the lock's holder.
HolderAtWork == ~lapsed => \A p \in InSection : lock = p

\* releaseLock deletes the lock without asking whose it is
\* (cache.service.ts:284), and yet gives back no other's, whatever fails: until
\* an expiry, a clear or a DEL that will be sent again takes a lock away, each
\* call that is to release the lock holds it, and none goes from a call at work.
LockIsOwn == ~robbed => ~lapsed /\ \A p \in Holding : lock = p

\* "Prevent multiple concurrent requests from hitting the database for the
\* same key" (cache.service.ts:167-168): at most one factory runs at a time,
\* but for the calls that waited as long as they may.
OneLoader == \A p, q \in Loading \ gaveUp : p = q

\* What is fetched can be found: get() reads the key that set() writes, and no
\* value is taken for a miss.  getOrSet sees to neither.
Findable == ~Namespaced /\ NullVersions = {}

\* The lock delivers that as long as nothing fails but answers and instances,
\* the row is not updated and what is fetched can be found.
LoaderAlone == Findable /\ calm => OneLoader

\* "Double-check cache (another process might have set it)"
\* (cache.service.ts:201): under the same conditions, what is cached is not
\* fetched again, unless one of the two calls waited in vain for the lock.
NoRefetch ==
    [][\A p \in Procs \ gaveUp :
           Findable /\ calm /\ Load(p) => entry = None \/ late]_vars

\* "Lock is held by another process, wait and retry" (cache.service.ts:219),
\* whatever happens: a call leaves the polls to load for itself while another
\* is at work only when it has waited as long as it may, when Redis fails it,
\* or when the lock was taken from the one at work.
LeavesForCause ==
    [][\A p \in Polling :
           pc'[p] \in {"getLast", "loadAlone"} /\ InSection # {} =>
               p \in gaveUp' \/ ~up \/ faults' # faults \/ lapsed]_vars

\* "Try to get from cache first" (cache.service.ts:179): a call that finds
\* Redis healthy and its key filled returns what is there.
FilledIsFound ==
    [][\A p \in Procs : Read(p) /\ pc[p] = "get" /\ entry # None => pc'[p] = "idle"]_vars

\* A value older than the row is cached only while its invalidation is under
\* way, unless an update came between the factory and the fill of the call that
\* cached it, or the invalidation was lost.  Not so under a namespace, which
\* invalidateOnUpdate does not pass on (cache-invalidation.service.ts:28).
StaleOnlyByRace ==
    ~Namespaced /\ entry # None /\ entry # db => raced \/ writer = "invalidate"

\* How many steps a call still takes at most: those of the longest way from
\* its await to the return, and two for each poll it has left.
Ahead == [get |-> 7, acquire |-> 6, wait |-> 5, exists |-> 4, get2 |-> 4, load |-> 3,
          getLast |-> 3, set |-> 2, loadAlone |-> 2, release |-> 1, setAlone |-> 1,
          idle |-> 0]
StepsLeft(p) ==
    Ahead[pc[p]] + IF p \in Polling THEN 2 * (MaxRetries - retries[p]) ELSE 0

\* "Prevents indefinite waiting" (cache.service.ts:246), as a bound and without
\* fairness: whatever Redis, the factory, the other calls and the environment
\* do, nothing lengthens the way of a call under way, and each answer or
\* failure it gets shortens it.
CallsWindDown ==
    [][\A p \in Procs : pc[p] # "idle" =>
           \/ UNCHANGED <<pc[p], retries[p]>>
           \/ StepsLeft(p)' < StepsLeft(p)]_vars

\* "Prevents indefinite waiting" (cache.service.ts:246): every call returns,
\* though the lock's holder may have crashed.
EveryCallReturns == \A p \in Procs : pc[p] # "idle" ~> pc[p] = "idle"
=============================================================================
