--------------------------- MODULE CacheAsideProofs ---------------------------
(***************************************************************************)
(* Proofs about CacheAside for any number of calls, of retries, of updates *)
(* and of faults: the lock excludes until it is taken from a call at work, *)
(* no call gives back another's before that, and a stale entry is the      *)
(* doing of a race or of a lost invalidation.                              *)
(***************************************************************************)
EXTENDS CacheAside, TLAPS

-----------------------------------------------------------------------------
\* A failed command sends a call to another await.
LEMMA OnErrorIsStep ==
    ASSUME NEW p \in Procs, pc[p] \in Commands
    PROVE  OnError(p) \in Steps
BY DEF OnError, Commands, Steps

\* Every lock step keeps the lock's type.
LEMMA LockForType ==
    ASSUME TypeOK, NEW h \in Procs \cup {None}, LockFor(h)
    PROVE  lock' \in Procs \cup {None} /\ {lapsed', robbed'} \subseteq BOOLEAN
BY DEF LockFor, TypeOK

\* A call's move keeps the type of pc.
LEMMA GotoType ==
    ASSUME TypeOK, NEW p \in Procs, NEW step \in Steps, Goto(p, step)
    PROVE  pc' \in [Procs -> Steps]
BY DEF Goto, TypeOK

\* A call that goes elsewhere than to the polls, or polls already, has a poll
\* left as before.
LEMMA GotoPolls ==
    ASSUME TypeOK, PollsLeft, NEW p \in Procs, NEW step, Goto(p, step), UNCHANGED retries,
           step \notin {"get", "acquire", "wait", "exists"} \/ p \in Polling
    PROVE  PollsLeft'
BY DEF TypeOK, PollsLeft, Polling, Goto

\* Every reachable state is well typed, and nobody polls in vain forever.
\* The bound on retries needs PollsLeft, and PollsLeft needs the types.
THEOREM TypeCorrect == Spec => [](TypeOK /\ PollsLeft)
<1>1. Init => TypeOK /\ PollsLeft
  <2>. SUFFICES ASSUME Init PROVE TypeOK /\ PollsLeft
    OBVIOUS
  <2>1. 0 \in 0 .. MaxVersion /\ 0 \in 0 .. MaxFaults /\ 0 \in 0 .. MaxRetries
    BY CacheAssumption
  <2>2. pc \in [Procs -> Steps] /\ retries \in [Procs -> 0 .. MaxRetries]
    BY <2>1 DEF Init, Steps
  <2>3. PollsLeft
    BY DEF Init, PollsLeft, Polling
  <2>. QED
    BY <2>1, <2>2, <2>3 DEF Init, TypeOK
<1>2. TypeOK /\ PollsLeft /\ [Next]_vars => TypeOK'
  <2>. SUFFICES ASSUME TypeOK, PollsLeft, [Next]_vars PROVE TypeOK'
    OBVIOUS
  <2>. USE CacheAssumption
  <2>0. lock \in Procs \cup {None} /\ None \in Procs \cup {None}
    BY DEF TypeOK
  <2>1. ASSUME NEW p \in Procs, Start(p) PROVE TypeOK'
    <3>1. pc' \in [Procs -> Steps]
      BY <2>1, GotoType DEF Start, Steps
    <3>2. lock' \in Procs \cup {None} /\ {lapsed', robbed'} \subseteq BOOLEAN
      BY <2>0, <2>1, LockForType DEF Start, KeepLock
    <3>3. val' \in [Procs -> 0 .. MaxVersion \cup {None}]
      BY <2>1 DEF Start, TypeOK
    <3>4. retries' \in [Procs -> 0 .. MaxRetries] /\ gaveUp' \subseteq Procs
      <4>1. 0 \in 0 .. MaxRetries
        OBVIOUS
      <4>. QED
        BY <2>1, <4>1 DEF Start, TypeOK
    <3>. QED
      BY <2>1, <3>1, <3>2, <3>3, <3>4 DEF Start, TypeOK, cacheVars, faultVars
  <2>2. ASSUME NEW p \in Procs, Advance(p) PROVE TypeOK'
    <3>1. CASE Read(p)
      <4>1. pc' \in [Procs -> Steps]
        BY <3>1, GotoType DEF Read, Steps
      <4>2. lock' \in Procs \cup {None} /\ {lapsed', robbed'} \subseteq BOOLEAN
        BY <2>0, <3>1, LockForType DEF Read, KeepLock
      <4>. QED
        BY <3>1, <4>1, <4>2 DEF Read, TypeOK, cacheVars, worldVars
    <3>2. CASE Acquire(p)
      <4>1. pc' \in [Procs -> Steps]
        BY <3>2, GotoType DEF Acquire, Steps
      <4>2. lock' \in Procs \cup {None} /\ {lapsed', robbed'} \subseteq BOOLEAN
        BY <3>2, LockForType DEF Acquire
      <4>. QED
        BY <3>2, <4>1, <4>2 DEF Acquire, TypeOK, cacheVars, worldVars
    <3>3. CASE Busy(p)
      <4>1. pc' \in [Procs -> Steps]
        BY <3>3, GotoType DEF Busy, Steps
      <4>2. lock' \in Procs \cup {None} /\ {lapsed', robbed'} \subseteq BOOLEAN
        BY <2>0, <3>3, LockForType DEF Busy, KeepLock
      <4>. QED
        BY <3>3, <4>1, <4>2 DEF Busy, TypeOK, cacheVars, worldVars
    <3>4. CASE LockGone(p)
      <4>1. pc' \in [Procs -> Steps]
        BY <3>4, GotoType DEF LockGone, Steps
      <4>2. lock' \in Procs \cup {None} /\ {lapsed', robbed'} \subseteq BOOLEAN
        BY <2>0, <3>4, LockForType DEF LockGone, KeepLock
      <4>. QED
        BY <3>4, <4>1, <4>2 DEF LockGone, TypeOK, cacheVars, worldVars
    <3>5. CASE LockHeld(p)
      <4>1. pc' \in [Procs -> Steps]
        BY <3>5, GotoType DEF LockHeld, Steps
      <4>2. lock' \in Procs \cup {None} /\ {lapsed', robbed'} \subseteq BOOLEAN
        BY <2>0, <3>5, LockForType DEF LockHeld, KeepLock
      <4>3. retries[p] + 1 \in 0 .. MaxRetries
        BY <3>5 DEF LockHeld, TypeOK, PollsLeft, Polling
      <4>4. retries' \in [Procs -> 0 .. MaxRetries] /\ gaveUp' \subseteq Procs
        BY <3>5, <4>3 DEF LockHeld, TypeOK
      <4>. QED
        BY <3>5, <4>1, <4>2, <4>4 DEF LockHeld, TypeOK, cacheVars, worldVars
    <3>6. CASE Load(p)
      <4>1. pc' \in [Procs -> Steps]
        BY <3>6, GotoType DEF Load, Steps
      <4>2. lock' \in Procs \cup {None} /\ {lapsed', robbed'} \subseteq BOOLEAN
        BY <2>0, <3>6, LockForType DEF Load, KeepLock
      <4>. QED
        BY <3>6, <4>1, <4>2 DEF Load, TypeOK, cacheVars, worldVars
    <3>7. CASE Put(p)
      <4>1. pc' \in [Procs -> Steps]
        BY <3>7, GotoType DEF Put, Steps
      <4>2. lock' \in Procs \cup {None} /\ {lapsed', robbed'} \subseteq BOOLEAN
        BY <2>0, <3>7, LockForType DEF Put, KeepLock
      <4>. QED
        BY <3>7, <4>1, <4>2 DEF Put, PutEntry, TypeOK, worldVars
    <3>8. CASE Release(p)
      <4>1. pc' \in [Procs -> Steps]
        BY <3>8, GotoType DEF Release, Steps
      <4>2. lock' \in Procs \cup {None} /\ {lapsed', robbed'} \subseteq BOOLEAN
        BY <2>0, <3>8, LockForType DEF Release
      <4>. QED
        BY <3>8, <4>1, <4>2 DEF Release, TypeOK, cacheVars, worldVars
    <3>9. CASE Unreachable(p)
      <4>1. pc' \in [Procs -> Steps]
        BY <3>9, GotoType, OnErrorIsStep DEF Unreachable
      <4>2. lock' \in Procs \cup {None} /\ {lapsed', robbed'} \subseteq BOOLEAN
        BY <2>0, <3>9, LockForType DEF Unreachable, KeepLock
      <4>. QED
        BY <3>9, <4>1, <4>2 DEF Unreachable, TypeOK, cacheVars, worldVars
    <3>. QED
      BY <2>2, <3>1, <3>2, <3>3, <3>4, <3>5, <3>6, <3>7, <3>8, <3>9 DEF Advance
  <2>3. ASSUME NEW p \in Procs, FactoryThrows(p) PROVE TypeOK'
    <3>1. pc' \in [Procs -> Steps]
      BY <2>3, GotoType DEF FactoryThrows, Steps
    <3>2. lock' \in Procs \cup {None} /\ {lapsed', robbed'} \subseteq BOOLEAN
      BY <2>0, <2>3, LockForType DEF FactoryThrows, KeepLock
    <3>. QED
      BY <2>3, <3>1, <3>2 DEF FactoryThrows, Event, TypeOK, cacheVars
  <2>4. ASSUME NEW p \in Procs, CommandFails(p) PROVE TypeOK'
    <3>1. pc' \in [Procs -> Steps]
      BY <2>4, GotoType, OnErrorIsStep DEF CommandFails
    <3>2. lock' \in Procs \cup {None} /\ {lapsed', robbed'} \subseteq BOOLEAN
      BY <2>0, <2>4, LockForType DEF CommandFails, KeepLock
    <3>. QED
      BY <2>4, <3>1, <3>2 DEF CommandFails, Event, TypeOK, cacheVars
  <2>5. ASSUME NEW p \in Procs, AnswerLost(p) PROVE TypeOK'
    <3>1. lock' \in Procs \cup {None} /\ {lapsed', robbed'} \subseteq BOOLEAN
      BY <2>0, <2>5, LockForType DEF AnswerLost, KeepLock
    <3>2. entry' \in 0 .. MaxVersion \cup {None} /\ raced' \in BOOLEAN /\ late' \in BOOLEAN
      <4>1. CASE PutEntry(p)
        BY <4>1 DEF PutEntry, TypeOK
      <4>2. CASE UNCHANGED cacheVars
        BY <4>2 DEF TypeOK, cacheVars
      <4>. QED
        BY <2>5, <4>1, <4>2 DEF AnswerLost
    <3>. QED
      BY <2>5, <3>1, <3>2 DEF AnswerLost, Event, TypeOK, callVars
  <2>6. ASSUME NEW p \in Procs, Crash(p) PROVE TypeOK'
    <3>1. pc' \in [Procs -> Steps]
      BY <2>6, GotoType DEF Crash, Steps
    <3>2. lock' \in Procs \cup {None} /\ {lapsed', robbed'} \subseteq BOOLEAN
      BY <2>0, <2>6, LockForType DEF Crash, KeepLock
    <3>. QED
      BY <2>6, <3>1, <3>2 DEF Crash, Event, TypeOK, cacheVars
  <2>7. CASE Environment
    <3>1. \E h \in Procs \cup {None} : LockFor(h)
      BY <2>0, <2>7
      DEF Environment, LockExpires, EntryExpires, LinkDown, LinkUp, Update, Invalidate,
          InvalidateLost, ClearScan, ClearDelete, ClearFails, KeepLock
    <3>2. lock' \in Procs \cup {None} /\ {lapsed', robbed'} \subseteq BOOLEAN
      BY <3>1, LockForType
    <3>3. faults' \in 0 .. MaxFaults
      BY <2>7
      DEF Environment, LockExpires, EntryExpires, LinkDown, LinkUp, Update, Invalidate,
          InvalidateLost, ClearScan, ClearDelete, ClearFails, Event, TypeOK, faultVars
    <3>4. db' \in 0 .. MaxVersion /\ up' \in BOOLEAN
      <4>1. CASE Update
        <5>1. db \in 0 .. MaxVersion /\ db < MaxVersion => db + 1 \in 0 .. MaxVersion
          OBVIOUS
        <5>. QED
          BY <4>1, <5>1 DEF Update, TypeOK
      <4>2. CASE UNCHANGED db
        BY <2>7, <4>2
        DEF Environment, LockExpires, EntryExpires, LinkDown, LinkUp, Update, Invalidate,
            InvalidateLost, ClearScan, ClearDelete, ClearFails, TypeOK
      <4>. QED
        BY <2>7, <4>1, <4>2
        DEF Environment, LockExpires, EntryExpires, LinkDown, LinkUp, Invalidate,
            InvalidateLost, ClearScan, ClearDelete, ClearFails
    <3>5. writer' \in {"idle", "invalidate", "clear"} /\ doomed' \subseteq {"entry", "lock"}
      BY <2>7
      DEF Environment, LockExpires, EntryExpires, LinkDown, LinkUp, Update, Invalidate,
          InvalidateLost, ClearScan, ClearDelete, ClearFails, TypeOK
    <3>6. entry' \in 0 .. MaxVersion \cup {None} /\ raced' \in BOOLEAN /\ late' \in BOOLEAN
      BY <2>7
      DEF Environment, LockExpires, EntryExpires, LinkDown, LinkUp, Update, Invalidate,
          InvalidateLost, ClearScan, ClearDelete, ClearFails, TypeOK, cacheVars
    <3>7. calm' \in BOOLEAN
      BY <2>7
      DEF Environment, LockExpires, EntryExpires, LinkDown, LinkUp, Update, Invalidate,
          InvalidateLost, ClearScan, ClearDelete, ClearFails, Event, TypeOK, faultVars
    <3>8. UNCHANGED callVars /\ overtaken' \subseteq Procs
      BY <2>7
      DEF Environment, LockExpires, EntryExpires, LinkDown, LinkUp, Update, Invalidate,
          InvalidateLost, ClearScan, ClearDelete, ClearFails, TypeOK, callVars, faultVars
    <3>. QED
      BY <3>2, <3>3, <3>4, <3>5, <3>6, <3>7, <3>8 DEF TypeOK, callVars
  <2>8. CASE UNCHANGED vars
    BY <2>8 DEF TypeOK, vars
  <2>. QED
    BY <2>1, <2>2, <2>3, <2>4, <2>5, <2>6, <2>7, <2>8 DEF Next
<1>3. TypeOK /\ PollsLeft /\ [Next]_vars => PollsLeft'
  <2>. SUFFICES ASSUME TypeOK, PollsLeft, [Next]_vars PROVE PollsLeft'
    OBVIOUS
  <2>1. ASSUME NEW p \in Procs, Start(p) PROVE PollsLeft'
    <3>1. 0 < MaxRetries
      BY CacheAssumption
    <3>. QED
      BY <2>1, <3>1 DEF Start, Goto, TypeOK, PollsLeft, Polling
  <2>2. ASSUME NEW p \in Procs, Read(p) PROVE PollsLeft'
    <3>1. PICK step : Goto(p, step)
                      /\ (step \notin {"get", "acquire", "wait", "exists"} \/ p \in Polling)
      BY <2>2 DEF Read, Polling
    <3>. QED
      BY <2>2, <3>1, GotoPolls DEF Read
  <2>3. ASSUME NEW p \in Procs, Acquire(p) \/ Busy(p) \/ LockGone(p) PROVE PollsLeft'
    <3>1. p \in Polling
      BY <2>3 DEF Acquire, Busy, LockGone, Polling
    <3>. QED
      BY <2>3, <3>1, GotoPolls DEF Acquire, Busy, LockGone
  <2>4. ASSUME NEW p \in Procs, LockHeld(p) PROVE PollsLeft'
    BY <2>4 DEF LockHeld, Goto, TypeOK, PollsLeft, Polling
  <2>5. ASSUME NEW p \in Procs, Load(p) \/ FactoryThrows(p) PROVE PollsLeft'
    <3>1. PICK step : Goto(p, step) /\ step \notin {"get", "acquire", "wait", "exists"}
      BY <2>5 DEF Load, FactoryThrows
    <3>. QED
      BY <2>5, <3>1, GotoPolls DEF Load, FactoryThrows
  <2>6. ASSUME NEW p \in Procs, Put(p) \/ Release(p) \/ Crash(p) PROVE PollsLeft'
    <3>1. PICK step : Goto(p, step) /\ step \notin {"get", "acquire", "wait", "exists"}
      BY <2>6 DEF Put, Release, Crash
    <3>. QED
      BY <2>6, <3>1, GotoPolls DEF Put, Release, Crash
  <2>7. ASSUME NEW p \in Procs, Unreachable(p) \/ CommandFails(p) PROVE PollsLeft'
    <3>1. OnError(p) \notin {"get", "acquire", "wait", "exists"} \/ p \in Polling
      BY <2>7 DEF Unreachable, CommandFails, OnError, Commands, Steps, Polling
    <3>. QED
      BY <2>7, <3>1, GotoPolls DEF Unreachable, CommandFails
  <2>8. CASE UNCHANGED <<pc, retries>>
    BY <2>8 DEF PollsLeft, Polling
  <2>9. ASSUME NEW p \in Procs, AnswerLost(p) PROVE PollsLeft'
    BY <2>8, <2>9 DEF AnswerLost, callVars
  <2>10. CASE Environment
    BY <2>8, <2>10
    DEF Environment, LockExpires, EntryExpires, LinkDown, LinkUp, Update, Invalidate,
        InvalidateLost, ClearScan, ClearDelete, ClearFails, callVars
  <2>11. CASE UNCHANGED vars
    BY <2>8, <2>11 DEF vars
  <2>. QED
    BY <2>1, <2>2, <2>3, <2>4, <2>5, <2>6, <2>7, <2>9, <2>10, <2>11 DEF Next, Advance
<1>. QED
  BY <1>1, <1>2, <1>3, PTL DEF Spec

-----------------------------------------------------------------------------
\* The lock excludes.

\* A step that brings nobody into the section keeps the holder at work,
\* whatever it does to the lock: if the lock goes to another, it has lapsed.
LEMMA NobodyEnters ==
    ASSUME HolderAtWork, NEW h \in {lock, None}, LockFor(h), InSection' \subseteq InSection
    PROVE  HolderAtWork'
<1>. SUFFICES ASSUME ~lapsed', NEW q \in InSection' PROVE lock' = q
  BY DEF HolderAtWork
<1>1. q \in InSection
  OBVIOUS
<1>2. ~lapsed /\ ~(lock \in InSection /\ h = None) /\ lock' = h
  BY DEF LockFor
<1>3. lock = q
  BY <1>1, <1>2 DEF HolderAtWork
<1>. QED
  BY <1>1, <1>2, <1>3

\* A call that goes to an await outside the section, or moves inside it,
\* brings nobody in.
LEMMA StaysOut ==
    ASSUME TypeOK, NEW p \in Procs, NEW step, Goto(p, step),
           step \notin {"get2", "load", "set"} \/ p \in InSection
    PROVE  InSection' \subseteq InSection
BY DEF TypeOK, Goto, InSection

\* Without a lapse, the call at work is the lock's holder.
THEOREM LockHolder == Spec => []HolderAtWork
<1>1. Init => HolderAtWork
  BY DEF Init, HolderAtWork, InSection
<1>2. TypeOK /\ HolderAtWork /\ [Next]_vars => HolderAtWork'
  <2>. SUFFICES ASSUME TypeOK, HolderAtWork, [Next]_vars PROVE HolderAtWork'
    OBVIOUS
  <2>1. ASSUME NEW p \in Procs, Acquire(p) PROVE HolderAtWork'
    <3>. SUFFICES ASSUME ~lapsed', NEW q \in InSection' PROVE lock' = q
      BY DEF HolderAtWork
    <3>1. ~lapsed /\ lock = None /\ lock' = p
      BY <2>1 DEF Acquire, LockFor
    <3>2. q \in InSection \/ q = p
      BY <2>1 DEF Acquire, Goto, InSection, TypeOK
    <3>3. q \in InSection => q = None /\ q \in Procs
      BY <3>1 DEF HolderAtWork, InSection
    <3>. QED
      BY <3>1, <3>2, <3>3, CacheAssumption
  <2>2. ASSUME NEW p \in Procs, Start(p) PROVE HolderAtWork'
    BY <2>2, StaysOut, NobodyEnters DEF Start, KeepLock
  <2>3. ASSUME NEW p \in Procs, Read(p) PROVE HolderAtWork'
    <3>1. PICK step : Goto(p, step) /\ (step \notin {"get2", "load", "set"} \/ p \in InSection)
      BY <2>3 DEF Read, InSection
    <3>. QED
      BY <2>3, <3>1, StaysOut, NobodyEnters DEF Read, KeepLock
  <2>4. ASSUME NEW p \in Procs, Busy(p) \/ LockGone(p) PROVE HolderAtWork'
    BY <2>4, StaysOut, NobodyEnters DEF Busy, LockGone, KeepLock
  <2>5. ASSUME NEW p \in Procs, LockHeld(p) PROVE HolderAtWork'
    BY <2>5, StaysOut, NobodyEnters DEF LockHeld, KeepLock
  <2>6. ASSUME NEW p \in Procs, Load(p) \/ FactoryThrows(p) PROVE HolderAtWork'
    <3>1. PICK step : Goto(p, step) /\ (step \notin {"get2", "load", "set"} \/ p \in InSection)
      BY <2>6 DEF Load, FactoryThrows, InSection, Loading
    <3>. QED
      BY <2>6, <3>1, StaysOut, NobodyEnters DEF Load, FactoryThrows, KeepLock
  <2>7. ASSUME NEW p \in Procs, Put(p) PROVE HolderAtWork'
    BY <2>7, StaysOut, NobodyEnters DEF Put, KeepLock
  <2>8. ASSUME NEW p \in Procs, Release(p) \/ Crash(p) PROVE HolderAtWork'
    BY <2>8, StaysOut, NobodyEnters DEF Release, Crash, KeepLock
  <2>9. ASSUME NEW p \in Procs, Unreachable(p) \/ CommandFails(p) PROVE HolderAtWork'
    <3>1. OnError(p) \notin {"get2", "load", "set"} \/ p \in InSection
      BY <2>9 DEF Unreachable, CommandFails, OnError, Commands, Steps, InSection
    <3>. QED
      BY <2>9, <3>1, StaysOut, NobodyEnters DEF Unreachable, CommandFails, KeepLock
  <2>10. ASSUME UNCHANGED pc, NEW h \in {lock, None}, LockFor(h) PROVE HolderAtWork'
    BY <2>10, NobodyEnters DEF InSection
  <2>11. ASSUME NEW p \in Procs, AnswerLost(p) PROVE HolderAtWork'
    <3>1. UNCHANGED pc
      BY <2>11 DEF AnswerLost, callVars
    <3>2. CASE LockFor(None) \/ LockFor(lock)
      BY <2>10, <3>1, <3>2
    <3>3. CASE lock = None /\ LockFor(p)
      <4>. SUFFICES ASSUME ~lapsed', NEW q \in InSection' PROVE FALSE
        BY DEF HolderAtWork
      <4>1. q \in InSection /\ ~lapsed
        BY <3>1, <3>3 DEF LockFor, InSection
      <4>2. q = None /\ q \in Procs
        BY <3>3, <4>1 DEF HolderAtWork, InSection
      <4>. QED
        BY <4>2, CacheAssumption
    <3>. QED
      BY <2>11, <3>2, <3>3 DEF AnswerLost, KeepLock
  <2>12. CASE Environment
    <3>1. UNCHANGED pc
      BY <2>12
      DEF Environment, LockExpires, EntryExpires, LinkDown, LinkUp, Update, Invalidate,
          InvalidateLost, ClearScan, ClearDelete, ClearFails, callVars
    <3>2. \E h \in {lock, None} : LockFor(h)
      BY <2>12
      DEF Environment, LockExpires, EntryExpires, LinkDown, LinkUp, Update, Invalidate,
          InvalidateLost, ClearScan, ClearDelete, ClearFails, KeepLock
    <3>. QED
      BY <2>10, <3>1, <3>2
  <2>13. CASE UNCHANGED vars
    BY <2>13 DEF vars, HolderAtWork, InSection
  <2>. QED
    BY <2>1, <2>2, <2>3, <2>4, <2>5, <2>6, <2>7, <2>8, <2>9, <2>11, <2>12, <2>13
    DEF Next, Advance
<1>. QED
  BY <1>1, <1>2, TypeCorrect, PTL DEF Spec

\* Stampede protection: without a lapse, one call at a time is at work.
THEOREM LockExcludes == Spec => []SingleFlight
<1>1. HolderAtWork => SingleFlight
  BY DEF HolderAtWork, SingleFlight
<1>. QED
  BY <1>1, LockHolder, PTL

-----------------------------------------------------------------------------
\* Nobody gives back what is not its own.

\* A step that keeps the lock, and after which nobody holds it who did not.
LEMMA OwnKept ==
    ASSUME LockIsOwn, NEW h, LockFor(h), h = lock, Holding' \subseteq Holding
    PROVE  LockIsOwn'
<1>. SUFFICES ASSUME ~robbed' PROVE ~lapsed' /\ \A p \in Holding' : lock' = p
  BY Zenon DEF LockIsOwn
<1>1. lock' = lock
  BY DEF LockFor
<1>2. CASE Holding' = {}
  BY <1>2 DEF LockFor, Holding, InSection
<1>3. CASE ~robbed
  <2>1. ~lapsed /\ \A p \in Holding : lock = p
    BY <1>3 DEF LockIsOwn
  <2>2. lapsed' => lock \in InSection /\ h = None
    BY <2>1 DEF LockFor
  <2>3. ~lapsed'
    BY <2>2, CacheAssumption DEF InSection
  <2>. QED
    BY <1>1, <2>1, <2>3
<1>. QED
  BY <1>2, <1>3 DEF LockFor

\* Who takes the lock finds it free: nobody else holds it.
LEMMA OwnTaken ==
    ASSUME LockIsOwn, NEW p \in Procs, lock = None, LockFor(p), Holding' \subseteq Holding \cup {p}
    PROVE  LockIsOwn'
<1>. SUFFICES ASSUME ~robbed' PROVE ~lapsed' /\ \A q \in Holding' : lock' = q
  BY Zenon DEF LockIsOwn
<1>1. lock' = p
  BY DEF LockFor
<1>2. CASE Holding' = {}
  BY <1>2 DEF LockFor, Holding, InSection
<1>3. CASE ~robbed
  <2>1. ~lapsed /\ \A q \in Holding : q = None
    BY <1>3 DEF LockIsOwn
  <2>2. Holding = {}
    BY <2>1, CacheAssumption DEF Holding
  <2>3. ~lapsed'
    BY <2>1, CacheAssumption DEF LockFor
  <2>. QED
    BY <1>1, <2>2, <2>3
<1>. QED
  BY <1>2, <1>3 DEF LockFor

\* A step that leaves all calls where they are and takes the lock from one.
LEMMA OwnRobbed ==
    ASSUME LockIsOwn, LockFor(None), UNCHANGED pc
    PROVE  LockIsOwn'
<1>1. CASE lock = None
  BY <1>1, OwnKept DEF Holding
<1>2. CASE lock # None
  <2>. SUFFICES ASSUME ~robbed' PROVE ~lapsed' /\ \A q \in Holding' : lock' = q
    BY Zenon DEF LockIsOwn
  <2>1. Holding' = {}
    BY <1>2 DEF LockFor
  <2>. QED
    BY <2>1 DEF LockFor, Holding, InSection
<1>. QED
  BY <1>1, <1>2

\* A call that gives the lock back is its holder, and the only call that is
\* past taking it.
LEMMA OwnGivenBack == ASSUME TypeOK, LockIsOwn, NEW p \in Procs, Release(p) PROVE LockIsOwn'
<1>. SUFFICES ASSUME ~robbed' PROVE ~lapsed' /\ \A q \in Holding' : lock' = q
  BY Zenon DEF LockIsOwn
<1>1. p \in Holding /\ p \notin Holding' /\ Holding' \subseteq Holding
  BY DEF Release, Goto, Holding, TypeOK
<1>2. CASE Holding' = {}
  BY <1>2 DEF Release, LockFor, Holding, InSection
<1>3. CASE ~robbed
  <2>1. \A q \in Holding : lock = q
    BY <1>3 DEF LockIsOwn
  <2>2. Holding' = {}
    BY <1>1, <2>1
  <2>. QED
    BY <1>2, <2>2
<1>. QED
  BY <1>2, <1>3 DEF Release, LockFor

\* Until the lock is taken from a call, each call that is to release it holds
\* it, though releaseLock does not ask.
THEOREM OwnLockOnly == Spec => []LockIsOwn
<1>1. Init => LockIsOwn
  BY DEF Init, LockIsOwn, Holding
<1>2. TypeOK /\ LockIsOwn /\ [Next]_vars => LockIsOwn'
  <2>. SUFFICES ASSUME TypeOK, LockIsOwn, [Next]_vars PROVE LockIsOwn'
    OBVIOUS
  <2>1. ASSUME NEW p \in Procs, NEW step, Goto(p, step), KeepLock,
               step \notin {"get2", "load", "set", "release"} \/ p \in Holding
        PROVE  LockIsOwn'
    <3>1. Holding' \subseteq Holding
      BY <2>1 DEF TypeOK, Goto, Holding
    <3>. QED
      BY <2>1, <3>1, OwnKept DEF KeepLock
  <2>2. ASSUME NEW p \in Procs, Acquire(p) PROVE LockIsOwn'
    <3>1. Holding' \subseteq Holding \cup {p}
      BY <2>2 DEF Acquire, Goto, Holding, TypeOK
    <3>. QED
      BY <2>2, <3>1, OwnTaken DEF Acquire
  <2>3. ASSUME NEW p \in Procs, Read(p) PROVE LockIsOwn'
    <3>1. PICK step : /\ Goto(p, step)
                      /\ step \notin {"get2", "load", "set", "release"} \/ p \in Holding
      BY <2>3 DEF Read, Holding
    <3>. QED
      BY <2>1, <2>3, <3>1 DEF Read
  <2>4. ASSUME NEW p \in Procs, Start(p) \/ Busy(p) \/ LockGone(p) \/ LockHeld(p) \/ Crash(p)
        PROVE  LockIsOwn'
    BY <2>1, <2>4 DEF Start, Busy, LockGone, LockHeld, Crash
  <2>5. ASSUME NEW p \in Procs, Load(p) \/ FactoryThrows(p) \/ Put(p) PROVE LockIsOwn'
    <3>1. PICK step : /\ Goto(p, step)
                      /\ step \notin {"get2", "load", "set", "release"} \/ p \in Holding
      BY <2>5 DEF Load, FactoryThrows, Put, PutEntry, Loading, Holding
    <3>. QED
      BY <2>1, <2>5, <3>1 DEF Load, FactoryThrows, Put
  <2>6. ASSUME NEW p \in Procs, Release(p) PROVE LockIsOwn'
    BY <2>6, OwnGivenBack
  <2>7. ASSUME NEW p \in Procs, Unreachable(p) \/ CommandFails(p) PROVE LockIsOwn'
    <3>1. OnError(p) \notin {"get2", "load", "set", "release"} \/ p \in Holding
      BY <2>7 DEF Unreachable, CommandFails, OnError, Commands, Steps, Holding
    <3>. QED
      BY <2>1, <2>7, <3>1 DEF Unreachable, CommandFails
  <2>8. ASSUME UNCHANGED pc, NEW h \in {lock, None}, LockFor(h) PROVE LockIsOwn'
    BY <2>8, OwnKept, OwnRobbed DEF Holding
  <2>9. ASSUME NEW p \in Procs, AnswerLost(p) PROVE LockIsOwn'
    <3>1. UNCHANGED pc
      BY <2>9 DEF AnswerLost, callVars
    <3>2. CASE lock = None /\ LockFor(p)
      BY <3>1, <3>2, OwnTaken DEF Holding
    <3>. QED
      BY <2>8, <2>9, <3>1, <3>2 DEF AnswerLost, KeepLock
  <2>10. CASE Environment
    <3>1. UNCHANGED pc
      BY <2>10
      DEF Environment, LockExpires, EntryExpires, LinkDown, LinkUp, Update, Invalidate,
          InvalidateLost, ClearScan, ClearDelete, ClearFails, callVars
    <3>2. \E h \in {lock, None} : LockFor(h)
      BY <2>10
      DEF Environment, LockExpires, EntryExpires, LinkDown, LinkUp, Update, Invalidate,
          InvalidateLost, ClearScan, ClearDelete, ClearFails, KeepLock
    <3>. QED
      BY <2>8, <3>1, <3>2
  <2>11. CASE UNCHANGED vars
    BY <2>11 DEF vars, LockIsOwn, Holding
  <2>. QED
    BY <2>2, <2>3, <2>4, <2>5, <2>6, <2>7, <2>9, <2>10, <2>11 DEF Next, Advance
<1>. QED
  BY <1>1, <1>2, TypeCorrect, PTL DEF Spec

-----------------------------------------------------------------------------
\* Staleness.

\* What a call is about to cache is the row as it is, unless an update came
\* since the factory returned.
FillsAreFresh == \A p \in Procs : pc[p] \in {"set", "setAlone"} => val[p] = db \/ p \in overtaken

LEMMA FillsStayFresh == TypeOK /\ FillsAreFresh /\ [Next]_vars => FillsAreFresh'
<1>. SUFFICES ASSUME TypeOK, FillsAreFresh, [Next]_vars PROVE FillsAreFresh'
  OBVIOUS
<1>1. ASSUME NEW p \in Procs, NEW step, Goto(p, step), step \notin {"set", "setAlone"},
             UNCHANGED <<val, db, overtaken>>
      PROVE  FillsAreFresh'
  BY <1>1 DEF Goto, TypeOK, FillsAreFresh
<1>2. ASSUME NEW p \in Procs, Start(p) PROVE FillsAreFresh'
  BY <1>2 DEF Start, Goto, TypeOK, FillsAreFresh
<1>3. ASSUME NEW p \in Procs, Load(p) PROVE FillsAreFresh'
  <2>1. val'[p] = db /\ db' = db /\ overtaken' = overtaken
    BY <1>3 DEF Load, TypeOK, worldVars
  <2>2. \A q \in Procs : q # p => pc'[q] = pc[q] /\ val'[q] = val[q]
    BY <1>3 DEF Load, Goto, TypeOK
  <2>. QED
    BY <2>1, <2>2 DEF FillsAreFresh
<1>4. ASSUME NEW p \in Procs,
             Read(p) \/ Acquire(p) \/ Busy(p) \/ LockGone(p) \/ LockHeld(p)
      PROVE  FillsAreFresh'
  BY <1>1, <1>4 DEF Read, Acquire, Busy, LockGone, LockHeld, worldVars
<1>5. ASSUME NEW p \in Procs, Put(p) \/ Release(p) \/ FactoryThrows(p) \/ Crash(p)
      PROVE  FillsAreFresh'
  BY <1>1, <1>5 DEF Put, Release, FactoryThrows, Crash, worldVars
<1>6. ASSUME NEW p \in Procs, Unreachable(p) \/ CommandFails(p) PROVE FillsAreFresh'
  <2>1. OnError(p) \notin {"set", "setAlone"}
    BY <1>6 DEF Unreachable, CommandFails, OnError, Commands, Steps
  <2>. QED
    BY <1>1, <1>6, <2>1 DEF Unreachable, CommandFails, worldVars
<1>7. CASE Update
  BY <1>7 DEF Update, callVars, FillsAreFresh
<1>8. CASE UNCHANGED <<pc, val, db, overtaken>>
  BY <1>8 DEF FillsAreFresh
<1>9. ASSUME NEW p \in Procs, AnswerLost(p) PROVE FillsAreFresh'
  BY <1>8, <1>9 DEF AnswerLost, callVars
<1>10. CASE Environment
  BY <1>7, <1>8, <1>10
  DEF Environment, LockExpires, EntryExpires, LinkDown, LinkUp, Invalidate, InvalidateLost,
      ClearScan, ClearDelete, ClearFails, callVars
<1>11. CASE UNCHANGED vars
  BY <1>8, <1>11 DEF vars
<1>. QED
  BY <1>2, <1>3, <1>4, <1>5, <1>6, <1>9, <1>10, <1>11 DEF Next, Advance

\* Without a namespace, a stale entry comes from a fill that an update met
\* between the factory and the SETEX, or outlives its invalidation only
\* because that was lost.
THEOREM StaleExplained == Spec => []StaleOnlyByRace
<1>1. Init => StaleOnlyByRace /\ FillsAreFresh
  BY DEF Init, StaleOnlyByRace, FillsAreFresh
<1>2. TypeOK /\ FillsAreFresh /\ StaleOnlyByRace /\ [Next]_vars => StaleOnlyByRace'
  <2>. SUFFICES ASSUME TypeOK, FillsAreFresh, StaleOnlyByRace, [Next]_vars
                PROVE  StaleOnlyByRace'
    OBVIOUS
  <2>1. ASSUME NEW p \in Procs, PutEntry(p), UNCHANGED <<db, writer>> PROVE StaleOnlyByRace'
    BY <2>1 DEF PutEntry, StaleOnlyByRace, FillsAreFresh
  <2>2. CASE UNCHANGED <<db, entry, raced, writer>>
    BY <2>2 DEF StaleOnlyByRace
  <2>3. ASSUME NEW p \in Procs, Start(p) \/ Advance(p) PROVE StaleOnlyByRace'
    BY <2>1, <2>2, <2>3
    DEF Start, Advance, Read, Acquire, Busy, LockGone, LockHeld, Load, Put, Release,
        Unreachable, cacheVars, worldVars
  <2>4. ASSUME NEW p \in Procs,
               FactoryThrows(p) \/ CommandFails(p) \/ AnswerLost(p) \/ Crash(p)
        PROVE  StaleOnlyByRace'
    BY <2>1, <2>2, <2>4 DEF FactoryThrows, CommandFails, AnswerLost, Crash, cacheVars
  <2>5. CASE LockExpires \/ LinkDown \/ LinkUp
    BY <2>2, <2>5 DEF LockExpires, LinkDown, LinkUp, cacheVars
  <2>6. CASE EntryExpires \/ Invalidate \/ InvalidateLost \/ Update
    BY <2>6 DEF EntryExpires, Invalidate, InvalidateLost, Update, StaleOnlyByRace, cacheVars
  <2>7. CASE ClearScan \/ ClearDelete \/ ClearFails
    BY <2>7 DEF ClearScan, ClearDelete, ClearFails, StaleOnlyByRace, cacheVars
  <2>8. CASE UNCHANGED vars
    BY <2>2, <2>8 DEF vars
  <2>. QED
    BY <2>3, <2>4, <2>5, <2>6, <2>7, <2>8 DEF Next, Environment
<1>. QED
  BY <1>1, <1>2, FillsStayFresh, TypeCorrect, PTL DEF Spec

-----------------------------------------------------------------------------
(***************************************************************************)
(* What the lock buys.  While the run is calm and what is fetched can be   *)
(* found, nothing is cached until the first fill, and until then nobody    *)
(* gives the lock back: waiters find it held, and the call that took it is *)
(* the only one past its double check.  From the first fill on, double     *)
(* checks hit, and nobody joins those that load.                           *)
(***************************************************************************)
Calm ==
    /\ up
    /\ writer = "idle"
    /\ \A p \in Procs : pc[p] \in {"loadAlone", "setAlone"} => p \in gaveUp
    /\ \A p \in Procs : pc[p] \in {"set", "setAlone"} => val[p] # None
    /\ \A p, q \in Procs : pc[p] = "load" /\ pc[q] \in {"load", "set"} => p = q

\* Before the first fill.
Empty ==
    /\ ~lapsed
    /\ \A p \in Procs : pc[p] \notin {"release", "getLast"}
    /\ lock = None => \A p \in Procs : pc[p] \notin {"wait", "exists"}

\* After it, whoever still loads does so beside a call that gave up.
Filled == late \/ \A p \in Procs : pc[p] # "load"

Fetching == Findable /\ calm => Calm /\ (entry = None => Empty) /\ (entry # None => Filled)

\* What every step that leaves the lock alone, or takes it when it is free,
\* does to the lock.
LEMMA NoLapse ==
    ASSUME NEW h, LockFor(h), h = lock \/ lock = None
    PROVE  lock' = h /\ (~lapsed => ~lapsed')
BY CacheAssumption DEF LockFor, InSection

LEMMA CalmRead ==
    ASSUME TypeOK, HolderAtWork, Calm, entry = None => Empty, entry # None => Filled,
           Findable, NEW p \in Procs, Read(p)
    PROVE  Calm' /\ (entry' = None => Empty') /\ (entry' # None => Filled')
<1>1. Readable <=> entry # None
  BY DEF Findable, Readable
<1>2. /\ lock' = lock /\ (~lapsed => ~lapsed')
      /\ UNCHANGED <<val, gaveUp, entry, late, up, writer>>
  BY NoLapse DEF Read, KeepLock, cacheVars, worldVars
<1>3. \A q \in Procs : q # p => pc'[q] = pc[q]
  BY DEF Read, Goto, TypeOK
<1>4. /\ pc[p] = "get" => pc'[p] \in {"idle", "acquire"}
      /\ pc[p] = "get2" => pc'[p] = IF entry # None THEN "release" ELSE "load"
      /\ pc[p] = "wait" => pc'[p] \in {"idle", "exists"}
      /\ pc[p] = "getLast" /\ entry # None => pc'[p] = "idle"
      /\ pc[p] \in {"get", "get2", "wait", "getLast"}
  BY <1>1 DEF Read, Goto, TypeOK
<1>5. CASE entry = None
  <2>1. pc[p] # "getLast"
    BY <1>5 DEF Empty
  <2>2. \A q \in InSection : lock = q
    BY <1>5 DEF Empty, HolderAtWork
  <2>3. ASSUME NEW q \in Procs, NEW r \in Procs, pc'[q] = "load", pc'[r] \in {"load", "set"}
        PROVE  q = r
    <3>1. q \in InSection /\ r \in InSection
      BY <1>3, <1>4, <1>5, <2>1, <2>3 DEF InSection
    <3>. QED
      BY <2>2, <3>1
  <2>4. Calm'
    BY <1>2, <1>3, <1>4, <2>1, <2>3 DEF Calm
  <2>5. Empty'
    BY <1>2, <1>3, <1>4, <1>5, <2>1 DEF Empty
  <2>. QED
    BY <1>2, <1>5, <2>4, <2>5
<1>6. CASE entry # None
  BY <1>2, <1>3, <1>4, <1>6 DEF Calm, Filled
<1>. QED
  BY <1>5, <1>6

\* The fills.
LEMMA CalmPut ==
    ASSUME TypeOK, Calm, NEW p \in Procs, PutEntry(p), UNCHANGED <<val, gaveUp, up, writer>>,
           pc' = pc \/ (Goto(p, "release") /\ pc[p] = "set") \/ Goto(p, "idle")
    PROVE  Calm' /\ (entry' = None => Empty') /\ (entry' # None => Filled')
<1>1. entry' # None
  BY DEF PutEntry, Calm
<1>2. \A q \in Procs : pc'[q] \in {"load", "set", "loadAlone", "setAlone"} => pc'[q] = pc[q]
  BY DEF Goto, TypeOK
<1>3. Calm'
  BY <1>2 DEF Calm
<1>4. Filled'
  <2>1. CASE pc[p] = "set"
    BY <1>2, <2>1 DEF Calm, Filled
  <2>2. CASE pc[p] = "setAlone"
    BY <2>2 DEF Calm, Filled, PutEntry
  <2>. QED
    BY <2>1, <2>2 DEF PutEntry
<1>. QED
  BY <1>1, <1>3, <1>4

\* The other steps of calls: what they do to a calm run.
LEMMA CalmStep ==
    ASSUME TypeOK, Calm, entry = None => Empty, entry # None => Filled, NEW p \in Procs,
           \/ Start(p) \/ Acquire(p) \/ Busy(p) \/ LockGone(p) \/ LockHeld(p)
           \/ Load(p) \/ Release(p) \/ Crash(p)
    PROVE  Calm' /\ (entry' = None => Empty') /\ (entry' # None => Filled')
<1>1. UNCHANGED <<entry, late, up, writer>>
  BY DEF Start, Acquire, Busy, LockGone, LockHeld, Load, Release, Crash, cacheVars, worldVars
<1>2. \A q \in Procs : q # p => pc'[q] = pc[q] /\ val'[q] = val[q] /\ (q \in gaveUp => q \in gaveUp')
  BY DEF Start, Acquire, Busy, LockGone, LockHeld, Load, Release, Crash, Goto, TypeOK
<1>3. CASE Start(p)
  <2>1. pc'[p] = "get" /\ lock' = lock /\ (~lapsed => ~lapsed')
    BY <1>3, NoLapse DEF Start, KeepLock, Goto, TypeOK
  <2>. QED
    BY <1>1, <1>2, <2>1 DEF Calm, Empty, Filled
<1>4. CASE Acquire(p)
  <2>1. /\ pc'[p] = "get2" /\ lock' = p /\ (~lapsed => ~lapsed')
        /\ gaveUp' = gaveUp /\ val' = val
    BY <1>4, NoLapse DEF Acquire, Goto, TypeOK
  <2>. QED
    BY <1>1, <1>2, <2>1, CacheAssumption DEF Calm, Empty, Filled
<1>5. CASE Busy(p)
  <2>1. /\ pc'[p] = "wait" /\ lock # None /\ lock' = lock /\ (~lapsed => ~lapsed')
        /\ gaveUp' = gaveUp /\ val' = val
    BY <1>5, NoLapse DEF Busy, KeepLock, Goto, TypeOK
  <2>. QED
    BY <1>1, <1>2, <2>1 DEF Calm, Empty, Filled
<1>6. CASE LockGone(p)
  <2>1. /\ pc[p] = "exists" /\ lock = None /\ pc'[p] = "getLast"
        /\ gaveUp' = gaveUp /\ val' = val
    BY <1>6 DEF LockGone, Goto, TypeOK
  <2>2. entry # None
    BY <2>1 DEF Empty
  <2>. QED
    BY <1>1, <1>2, <2>1, <2>2 DEF Calm, Filled
<1>7. CASE LockHeld(p)
  <2>1. /\ pc'[p] = "wait" \/ (pc'[p] = "loadAlone" /\ p \in gaveUp')
        /\ lock # None /\ lock' = lock /\ (~lapsed => ~lapsed') /\ val' = val
    BY <1>7, NoLapse DEF LockHeld, KeepLock, Goto, TypeOK
  <2>. QED
    BY <1>1, <1>2, <2>1 DEF Calm, Empty, Filled
<1>8. CASE Load(p)
  <2>1. /\ \/ pc[p] = "load" /\ pc'[p] = "set"
           \/ pc[p] = "loadAlone" /\ pc'[p] = "setAlone"
        /\ lock' = lock /\ (~lapsed => ~lapsed') /\ gaveUp' = gaveUp
    BY <1>8, NoLapse DEF Load, Loading, KeepLock, Goto, TypeOK
  <2>2. val'[p] # None
    <3>1. db # None
      BY CacheAssumption DEF TypeOK
    <3>. QED
      BY <1>8, <3>1 DEF Load, TypeOK
  <2>. QED
    BY <1>1, <1>2, <2>1, <2>2 DEF Calm, Empty, Filled
<1>9. CASE Release(p)
  <2>1. pc[p] = "release" /\ pc'[p] = "idle" /\ gaveUp' = gaveUp /\ val' = val
    BY <1>9 DEF Release, Goto, TypeOK
  <2>2. entry # None
    BY <2>1 DEF Empty
  <2>. QED
    BY <1>1, <1>2, <2>1, <2>2 DEF Calm, Filled
<1>10. CASE Crash(p)
  <2>1. pc'[p] = "idle" /\ lock' = lock /\ (~lapsed => ~lapsed') /\ gaveUp' = gaveUp /\ val' = val
    BY <1>10, NoLapse DEF Crash, KeepLock, Goto, TypeOK
  <2>. QED
    BY <1>1, <1>2, <2>1 DEF Calm, Empty, Filled
<1>. QED
  BY <1>3, <1>4, <1>5, <1>6, <1>7, <1>8, <1>9, <1>10

\* A lost answer leaves calls where they are.
LEMMA CalmAnswerLost ==
    ASSUME TypeOK, Calm, entry = None => Empty, entry # None => Filled,
           NEW p \in Procs, AnswerLost(p)
    PROVE  Calm' /\ (entry' = None => Empty') /\ (entry' # None => Filled')
<1>1. UNCHANGED <<pc, val, gaveUp, up, writer>>
  BY DEF AnswerLost, callVars
<1>2. CASE pc[p] = "acquire" /\ lock = None /\ LockFor(p) /\ UNCHANGED cacheVars
  <2>1. lock' = p /\ (~lapsed => ~lapsed') /\ UNCHANGED <<entry, late>>
    BY <1>2, NoLapse DEF cacheVars
  <2>. QED
    BY <1>1, <2>1, CacheAssumption DEF Calm, Empty, Filled
<1>3. CASE pc[p] = "release" /\ UNCHANGED cacheVars
  <2>1. entry # None
    BY <1>3 DEF Empty
  <2>. QED
    BY <1>1, <1>3, <2>1 DEF Calm, Filled, cacheVars
<1>4. CASE PutEntry(p)
  <2>1. UNCHANGED <<val, gaveUp, up, writer>> /\ pc' = pc
    BY <1>1
  <2>. QED
    BY <1>4, <2>1, CalmPut
<1>. QED
  BY <1>2, <1>3, <1>4 DEF AnswerLost

\* Nothing of the environment leaves a run calm.
LEMMA EnvironmentDisturbs == ASSUME Calm, Environment PROVE ~calm'
BY DEF Calm, Environment, LockExpires, EntryExpires, LinkDown, LinkUp, Update, Invalidate,
       InvalidateLost, ClearScan, ClearDelete, ClearFails, Event

LEMMA FetchingKept == TypeOK /\ HolderAtWork /\ Fetching /\ [Next]_vars => Fetching'
<1>. SUFFICES ASSUME TypeOK, HolderAtWork, Fetching, [Next]_vars, Findable, calm'
              PROVE  Calm' /\ (entry' = None => Empty') /\ (entry' # None => Filled')
  BY DEF Fetching, Findable
<1>1. calm
  BY DEF Next, Start, Advance, Read, Acquire, Busy, LockGone, LockHeld, Load, Put, Release,
         Unreachable, FactoryThrows, CommandFails, AnswerLost, Crash, Environment,
         LockExpires, EntryExpires, LinkDown, LinkUp, Update, Invalidate, InvalidateLost,
         ClearScan, ClearDelete, ClearFails, Event, worldVars, faultVars, vars
<1>2. Calm /\ (entry = None => Empty) /\ (entry # None => Filled)
  BY <1>1 DEF Fetching
<1>3. ASSUME NEW p \in Procs, Read(p)
      PROVE  Calm' /\ (entry' = None => Empty') /\ (entry' # None => Filled')
  BY <1>2, <1>3, CalmRead
<1>4. ASSUME NEW p \in Procs, Put(p)
      PROVE  Calm' /\ (entry' = None => Empty') /\ (entry' # None => Filled')
  <2>1. /\ PutEntry(p) /\ UNCHANGED <<val, gaveUp, up, writer>>
        /\ (Goto(p, "release") /\ pc[p] = "set") \/ Goto(p, "idle")
    BY <1>4 DEF Put, worldVars
  <2>. QED
    BY <1>2, <2>1, CalmPut
<1>5. ASSUME NEW p \in Procs,
             \/ Start(p) \/ Acquire(p) \/ Busy(p) \/ LockGone(p) \/ LockHeld(p)
             \/ Load(p) \/ Release(p) \/ Crash(p)
      PROVE  Calm' /\ (entry' = None => Empty') /\ (entry' # None => Filled')
  BY <1>2, <1>5, CalmStep
<1>6. ASSUME NEW p \in Procs, AnswerLost(p)
      PROVE  Calm' /\ (entry' = None => Empty') /\ (entry' # None => Filled')
  BY <1>2, <1>6, CalmAnswerLost
<1>7. \A p \in Procs : ~Unreachable(p) /\ ~FactoryThrows(p) /\ ~CommandFails(p)
  BY <1>2 DEF Calm, Unreachable, FactoryThrows, CommandFails, Event
<1>8. ~Environment
  BY <1>2, EnvironmentDisturbs
<1>9. CASE UNCHANGED vars
  BY <1>2, <1>9 DEF vars, Calm, Empty, Filled
<1>. QED
  BY <1>3, <1>4, <1>5, <1>6, <1>7, <1>8, <1>9 DEF Next, Advance

LEMMA FetchingHolds == Spec => [](TypeOK /\ HolderAtWork /\ Fetching)
<1>1. Init => Fetching
  BY DEF Init, Fetching, Calm, Empty
<1>. QED
  BY <1>1, FetchingKept, TypeCorrect, LockHolder, PTL DEF Spec

\* One factory at a time: the calls at work without having given up are all
\* past the double check.
THEOREM LoadersAlone == Spec => []LoaderAlone
<1>1. Fetching => LoaderAlone
  BY DEF Fetching, Calm, LoaderAlone, OneLoader, Loading
<1>. QED
  BY <1>1, FetchingHolds, PTL

\* What is cached is not fetched again.
THEOREM NothingRefetched == Spec => NoRefetch
<1>1. Fetching /\ [Next]_vars =>
          [\A p \in Procs \ gaveUp :
               Findable /\ calm /\ Load(p) => entry = None \/ late]_vars
  BY DEF Fetching, Calm, Filled, Load, Loading
<1>. QED
  BY <1>1, FetchingHolds, PTL DEF Spec, NoRefetch

-----------------------------------------------------------------------------
\* Nobody leaves the polls while another is at work, except for a cause: an
\* EXISTS that finds no lock finds nobody in the section, unless it lapsed.
THEOREM WaitersStay == Spec => LeavesForCause
<1>1. TypeOK /\ HolderAtWork /\ [Next]_vars =>
          [\A p \in Polling :
               pc'[p] \in {"getLast", "loadAlone"} /\ InSection # {} =>
                   p \in gaveUp' \/ ~up \/ faults' # faults \/ lapsed]_vars
  <2>. SUFFICES ASSUME TypeOK, HolderAtWork, Next, NEW p \in Polling,
                       pc'[p] \in {"getLast", "loadAlone"}, InSection # {}
                PROVE  p \in gaveUp' \/ ~up \/ faults' # faults \/ lapsed
    OBVIOUS
  <2>0. p \in Procs /\ pc'[p] # pc[p]
    BY DEF Polling
  <2>1. \A q \in Procs : ~Start(q) /\ ~Acquire(q) /\ ~Busy(q) /\ ~Load(q) /\ ~Put(q)
                         /\ ~Release(q) /\ ~FactoryThrows(q) /\ ~Crash(q)
    BY <2>0
    DEF Polling, TypeOK, Goto, Start, Acquire, Busy, Load, Loading, Put, PutEntry, Release,
        FactoryThrows, Crash
  <2>2. \A q \in Procs : ~Read(q)
    BY <2>0 DEF Polling, TypeOK, Goto, Read
  <2>3. ~Environment /\ \A q \in Procs : ~AnswerLost(q)
    BY <2>0
    DEF Environment, LockExpires, EntryExpires, LinkDown, LinkUp, Update, Invalidate,
        InvalidateLost, ClearScan, ClearDelete, ClearFails, AnswerLost, callVars
  <2>4. ASSUME NEW q \in Procs, LockGone(q) PROVE lapsed
    <3>1. PICK r \in InSection : TRUE
      OBVIOUS
    <3>2. lock = None /\ r \in Procs
      BY <2>4 DEF LockGone, InSection
    <3>. QED
      BY <3>1, <3>2, CacheAssumption DEF HolderAtWork
  <2>5. ASSUME NEW q \in Procs, LockHeld(q) PROVE p \in gaveUp'
    BY <2>0, <2>5 DEF LockHeld, Goto, TypeOK
  <2>6. ASSUME NEW q \in Procs, CommandFails(q) PROVE faults' # faults
    BY <2>6 DEF CommandFails, Event, TypeOK
  <2>7. ASSUME NEW q \in Procs, Unreachable(q) PROVE ~up
    BY <2>7 DEF Unreachable
  <2>. QED
    BY <2>1, <2>2, <2>3, <2>4, <2>5, <2>6, <2>7 DEF Next, Advance
<1>. QED
  BY <1>1, TypeCorrect, LockHolder, PTL DEF Spec, LeavesForCause

-----------------------------------------------------------------------------
(***************************************************************************)
(* A call under way winds down.  With weak fairness of its awaits this is  *)
(* why it returns, which TLC checks: only finitely many steps are left.    *)
(***************************************************************************)

\* What StepsLeft is, at an await given by its name.
LEMMA StepsLeftIs ==
    ASSUME TypeOK, PollsLeft, NEW p \in Procs
    PROVE  LET polls == 2 * (MaxRetries - retries[p])
           IN  /\ polls \in Nat
               /\ p \in Polling => polls >= 2
               /\ pc[p] = "get" => StepsLeft(p) = 7 + polls
               /\ pc[p] = "acquire" => StepsLeft(p) = 6 + polls
               /\ pc[p] = "wait" => StepsLeft(p) = 5 + polls
               /\ pc[p] = "exists" => StepsLeft(p) = 4 + polls
               /\ pc[p] = "get2" => StepsLeft(p) = 4
               /\ pc[p] \in {"load", "getLast"} => StepsLeft(p) = 3
               /\ pc[p] \in {"set", "loadAlone"} => StepsLeft(p) = 2
               /\ pc[p] \in {"release", "setAlone"} => StepsLeft(p) = 1
               /\ pc[p] = "idle" => StepsLeft(p) = 0
<1>1. retries[p] \in 0 .. MaxRetries /\ MaxRetries \in Nat
  BY CacheAssumption DEF TypeOK
<1>2. p \in Polling => retries[p] < MaxRetries
  BY DEF PollsLeft
<1>. QED
  BY <1>1, <1>2 DEF StepsLeft, Ahead, Polling

\* The way left is a bound: it never exceeds seven steps and two for a poll.
LEMMA StepsLeftBounded ==
    ASSUME TypeOK, PollsLeft, NEW p \in Procs
    PROVE  StepsLeft(p) \in 0 .. 7 + 2 * MaxRetries
<1>1. pc[p] \in Steps /\ retries[p] \in 0 .. MaxRetries /\ MaxRetries \in Nat
  BY CacheAssumption DEF TypeOK
<1>. QED
  BY <1>1, StepsLeftIs DEF Steps

\* A step of the call itself that does not count a poll goes down the table.
LEMMA GotoWindsDown ==
    ASSUME TypeOK, PollsLeft, TypeOK', PollsLeft', NEW p \in Procs, NEW step,
           Goto(p, step), retries' = retries,
           \/ pc[p] = "get" /\ step \in {"idle", "acquire", "loadAlone"}
           \/ pc[p] = "acquire" /\ step \in {"idle", "get2", "wait"}
           \/ pc[p] = "wait" /\ step \in {"idle", "exists"}
           \/ pc[p] = "exists" /\ step \in {"idle", "getLast"}
           \/ pc[p] = "get2" /\ step \in {"idle", "release", "load"}
           \/ pc[p] = "getLast" /\ step \in {"idle", "loadAlone"}
           \/ pc[p] = "load" /\ step \in {"idle", "set", "release"}
           \/ pc[p] = "loadAlone" /\ step \in {"idle", "setAlone"}
           \/ pc[p] = "set" /\ step \in {"idle", "release"}
           \/ pc[p] \in {"release", "setAlone"} /\ step = "idle"
    PROVE  StepsLeft(p)' < StepsLeft(p)
<1>1. pc'[p] = step /\ retries'[p] = retries[p]
  BY DEF Goto, TypeOK
<1>. DEFINE polls == 2 * (MaxRetries - retries[p])
<1>2. polls \in Nat
  BY StepsLeftIs
<1>3. /\ pc'[p] = "acquire" => StepsLeft(p)' = 6 + polls
      /\ pc'[p] = "wait" => StepsLeft(p)' = 5 + polls
      /\ pc'[p] = "exists" => StepsLeft(p)' = 4 + polls
      /\ pc'[p] = "get2" => StepsLeft(p)' = 4
      /\ pc'[p] \in {"load", "getLast"} => StepsLeft(p)' = 3
      /\ pc'[p] \in {"set", "loadAlone"} => StepsLeft(p)' = 2
      /\ pc'[p] \in {"release", "setAlone"} => StepsLeft(p)' = 1
      /\ pc'[p] = "idle" => StepsLeft(p)' = 0
  BY <1>1 DEF StepsLeft, Ahead, Polling
<1>. HIDE DEF polls
<1>. QED
  BY <1>1, <1>2, <1>3, StepsLeftIs DEF polls, Polling

\* Whatever happens, a call under way gets no longer way to go.
THEOREM WaysShorten == Spec => CallsWindDown
<1>1. TypeOK /\ PollsLeft /\ TypeOK' /\ PollsLeft' /\ [Next]_vars =>
          [\A p \in Procs : pc[p] # "idle" =>
               \/ UNCHANGED <<pc[p], retries[p]>>
               \/ StepsLeft(p)' < StepsLeft(p)]_vars
  <2>. SUFFICES ASSUME TypeOK, PollsLeft, TypeOK', PollsLeft', Next,
                       NEW p \in Procs, pc[p] # "idle"
                PROVE  \/ UNCHANGED <<pc[p], retries[p]>>
                       \/ StepsLeft(p)' < StepsLeft(p)
    OBVIOUS
  <2>. DEFINE Shorter == \/ UNCHANGED <<pc[p], retries[p]>>
                         \/ StepsLeft(p)' < StepsLeft(p)
  <2>1. ASSUME NEW q \in Procs, q # p, NEW step, Goto(q, step), retries'[p] = retries[p]
        PROVE  Shorter
    BY <2>1 DEF Goto, TypeOK
  <2>2. ASSUME NEW q \in Procs, Start(q) PROVE Shorter
    <3>1. q # p /\ retries'[p] = retries[p]
      BY <2>2 DEF Start, TypeOK
    <3>. QED
      BY <2>1, <2>2, <3>1 DEF Start
  <2>3. ASSUME NEW q \in Procs, Read(q) PROVE Shorter
    <3>1. q = p => StepsLeft(p)' < StepsLeft(p)
      BY <2>3, GotoWindsDown DEF Read
    <3>. QED
      BY <2>1, <2>3, <3>1 DEF Read
  <2>4. ASSUME NEW q \in Procs, Acquire(q) \/ Busy(q) \/ LockGone(q) PROVE Shorter
    <3>1. q = p => StepsLeft(p)' < StepsLeft(p)
      BY <2>4, GotoWindsDown DEF Acquire, Busy, LockGone
    <3>. QED
      BY <2>1, <2>4, <3>1 DEF Acquire, Busy, LockGone
  <2>5. ASSUME NEW q \in Procs, LockHeld(q) PROVE Shorter
    <3>1. CASE q # p
      <4>1. retries'[p] = retries[p]
        BY <2>5, <3>1 DEF LockHeld, TypeOK
      <4>. QED
        BY <2>1, <2>5, <3>1, <4>1 DEF LockHeld
    <3>2. CASE q = p
      <4>1. pc[p] = "exists" /\ retries'[p] = retries[p] + 1 /\ pc'[p] \in {"wait", "loadAlone"}
        BY <2>5, <3>2 DEF LockHeld, Goto, TypeOK
      <4>2. retries[p] \in Nat /\ MaxRetries \in Nat /\ retries[p] < MaxRetries
        BY <4>1, CacheAssumption DEF TypeOK, PollsLeft, Polling
      <4>3. StepsLeft(p) = 4 + 2 * (MaxRetries - retries[p])
        BY <4>1, StepsLeftIs
      <4>4. StepsLeft(p)' \in {5 + 2 * (MaxRetries - (retries[p] + 1)), 2}
        BY <4>1 DEF StepsLeft, Ahead, Polling
      <4>. QED
        BY <4>2, <4>3, <4>4
    <3>. QED
      BY <3>1, <3>2
  <2>6. ASSUME NEW q \in Procs, Load(q) \/ FactoryThrows(q) PROVE Shorter
    <3>1. q = p => StepsLeft(p)' < StepsLeft(p)
      BY <2>6, GotoWindsDown DEF Load, FactoryThrows, Loading
    <3>. QED
      BY <2>1, <2>6, <3>1 DEF Load, FactoryThrows
  <2>7. ASSUME NEW q \in Procs, Put(q) \/ Release(q) PROVE Shorter
    <3>1. q = p => StepsLeft(p)' < StepsLeft(p)
      BY <2>7, GotoWindsDown DEF Put, PutEntry, Release
    <3>. QED
      BY <2>1, <2>7, <3>1 DEF Put, Release
  <2>8. ASSUME NEW q \in Procs, Unreachable(q) \/ CommandFails(q) PROVE Shorter
    <3>1. q = p => StepsLeft(p)' < StepsLeft(p)
      BY <2>8, GotoWindsDown DEF Unreachable, CommandFails, OnError, Commands, Steps
    <3>. QED
      BY <2>1, <2>8, <3>1 DEF Unreachable, CommandFails
  <2>9. ASSUME NEW q \in Procs, Crash(q) PROVE Shorter
    <3>1. q = p => StepsLeft(p)' < StepsLeft(p)
      BY <2>9, GotoWindsDown DEF Crash, TypeOK, Steps
    <3>. QED
      BY <2>1, <2>9, <3>1 DEF Crash
  <2>10. CASE UNCHANGED callVars
    BY <2>10 DEF callVars
  <2>. QED
    BY <2>2, <2>3, <2>4, <2>5, <2>6, <2>7, <2>8, <2>9, <2>10
    DEF Next, Advance, AnswerLost, Environment, LockExpires, EntryExpires, LinkDown, LinkUp,
        Update, Invalidate, InvalidateLost, ClearScan, ClearDelete, ClearFails
<1>. QED
  BY <1>1, TypeCorrect, PTL DEF Spec, CallsWindDown

\* Seven steps and two for each poll are all a call ever takes.
THEOREM WaysAreShort ==
    Spec => [](\A p \in Procs : StepsLeft(p) \in 0 .. 7 + 2 * MaxRetries)
<1>1. TypeOK /\ PollsLeft => \A p \in Procs : StepsLeft(p) \in 0 .. 7 + 2 * MaxRetries
  BY StepsLeftBounded
<1>. QED
  BY <1>1, TypeCorrect, PTL
=============================================================================
