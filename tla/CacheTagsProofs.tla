-------------------------- MODULE CacheTagsProofs --------------------------
(***************************************************************************)
(* Proofs about CacheTags, for any number of calls, keys and tags.         *)
(***************************************************************************)
EXTENDS CacheTags, TLAPS

USE TagsAssumption

\* Where a call stands: at a tag in the loops over tags, with all tags to do
\* when it has stored the entry.
Standing ==
    \A c \in Calls :
        /\ pc[c] \in {"sadd", "expire", "srem"} \cup SweepSteps => tag[c] \in Tags
        /\ pc[c] = "setex" => \A k \in keys[c] : TagsOf[k] = tags[c]
        /\ pc[c] \in {"sadd", "expire"} =>
               \A k \in keys[c] : tags[c] \cup {tag[c]} \subseteq TagsOf[k]

\* What moving a call on does to the types of its variables.
LEMMA GoTyped ==
    ASSUME TypeOK, NEW c \in Calls, NEW step \in Steps, NEW ks \in SUBSET Keys,
           NEW t \in Tags \cup {None}, NEW ts \in SUBSET Tags, Go(c, step, ks, t, ts)
    PROVE  /\ pc' \in [Calls -> Steps]
           /\ keys' \in [Calls -> SUBSET Keys]
           /\ tag' \in [Calls -> Tags \cup {None}]
           /\ tags' \in [Calls -> SUBSET Tags]
BY DEF TypeOK, Go

LEMMA ReturnTyped ==
    ASSUME TypeOK, NEW c \in Calls, Return(c)
    PROVE  /\ pc' \in [Calls -> Steps]
           /\ keys' \in [Calls -> SUBSET Keys]
           /\ tag' \in [Calls -> Tags \cup {None}]
           /\ tags' \in [Calls -> SUBSET Tags]
BY DEF TypeOK, Go, Return, Steps

LEMMA NextTagTyped ==
    ASSUME TypeOK, NEW c \in Calls, NEW step \in Steps, NEW ks \in SUBSET Keys,
           NEW ts \in SUBSET Tags, GoToNextTag(c, step, ks, ts)
    PROVE  /\ pc' \in [Calls -> Steps]
           /\ keys' \in [Calls -> SUBSET Keys]
           /\ tag' \in [Calls -> Tags \cup {None}]
           /\ tags' \in [Calls -> SUBSET Tags]
<1>1. CASE ts = {} /\ Return(c)
  BY <1>1, ReturnTyped
<1>2. ASSUME NEW t \in ts, Go(c, step, ks, t, ts \ {t})
      PROVE  /\ pc' \in [Calls -> Steps]
             /\ keys' \in [Calls -> SUBSET Keys]
             /\ tag' \in [Calls -> Tags \cup {None}]
             /\ tags' \in [Calls -> SUBSET Tags]
  BY <1>2 DEF TypeOK, Go
<1> QED BY <1>1, <1>2 DEF GoToNextTag

LEMMA TagsTyped ==
    ASSUME TypeOK, NEW m \in [Tags -> SUBSET Keys], SetTags(m)
    PROVE  members' \in [Tags -> SUBSET Keys] /\ falls' \in [Tags -> Nat \cup {Never}]
BY DEF TypeOK, SetTags

LEMMA DelTagsTyped ==
    ASSUME TypeOK, NEW ts, DelTags(ts)
    PROVE  members' \in [Tags -> SUBSET Keys] /\ falls' \in [Tags -> Nat \cup {Never}]
<1>1. [t \in Tags |-> IF t \in ts THEN {} ELSE members[t]] \in [Tags -> SUBSET Keys]
  BY DEF TypeOK
<1> QED BY <1>1, TagsTyped DEF DelTags

LEMMA SaddTyped ==
    ASSUME TypeOK, NEW c \in Calls, Sadd(c)
    PROVE  members' \in [Tags -> SUBSET Keys] /\ falls' \in [Tags -> Nat \cup {Never}]
<1>1. [members EXCEPT ![tag[c]] = @ \cup keys[c]] \in [Tags -> SUBSET Keys]
  BY DEF TypeOK
<1> QED BY <1>1, TagsTyped DEF Sadd

LEMMA SremTyped ==
    ASSUME TypeOK, NEW c \in Calls, Srem(c)
    PROVE  members' \in [Tags -> SUBSET Keys] /\ falls' \in [Tags -> Nat \cup {Never}]
<1>1. [members EXCEPT ![tag[c]] = @ \ keys[c]] \in [Tags -> SUBSET Keys]
  BY DEF TypeOK
<1> QED BY <1>1, TagsTyped DEF Srem

LEMMA ExpireTyped ==
    ASSUME TypeOK, NEW c \in Calls, Expire(c)
    PROVE  members' \in [Tags -> SUBSET Keys] /\ falls' \in [Tags -> Nat \cup {Never}]
<1>1. clock + DefaultTtl \in Nat \cup {Never}
  BY DEF TypeOK
<1> QED BY <1>1 DEF TypeOK, Expire

LEMMA DeleteTyped ==
    ASSUME TypeOK, NEW ks, Delete(ks)
    PROVE  entry' \in [Keys -> Nat \cup {None}] /\ owed' \in [Calls -> SUBSET Keys]
BY DEF TypeOK, Delete, Settle

LEMMA SetexTyped ==
    ASSUME TypeOK, NEW c \in Calls, Setex(c)
    PROVE  entry' \in [Keys -> Nat \cup {None}]
BY DEF TypeOK, Setex

LEMMA FaultsTyped ==
    ASSUME TypeOK
    PROVE  /\ \A e : Event(e) => faults' \in 0 .. MaxFaults
           /\ Answers => faults' \in 0 .. MaxFaults
           /\ Fails => faults' \in 0 .. MaxFaults
BY DEF TypeOK, Event, Answers, Fails

LEMMA TypeKept ==
    ASSUME TypeOK, Standing, [Next]_vars
    PROVE  TypeOK'
<1> USE DEF TypeOK
<1> USE FaultsTyped
<1>1. ASSUME NEW c \in Calls, NEW k \in Keys, StartSet(c, k) PROVE TypeOK'
  BY <1>1 DEF StartSet, Go, Settle, tagVars, Steps, SetSteps
<1>2. ASSUME NEW c \in Calls, SetEntry(c) PROVE TypeOK'
  BY <1>2, NextTagTyped, SetexTyped DEF SetEntry, tagVars, Steps, SetSteps
<1>3. ASSUME NEW c \in Calls, AddToTag(c) PROVE TypeOK'
  BY <1>3, GoTyped, SaddTyped DEF AddToTag, Steps, SetSteps
<1>4. ASSUME NEW c \in Calls, AddFails(c) PROVE TypeOK'
  BY <1>4, ReturnTyped DEF AddFails, Disturb, tagVars
<1>5. ASSUME NEW c \in Calls, ExpireTag(c) PROVE TypeOK'
  BY <1>5, NextTagTyped, ExpireTyped DEF ExpireTag, Disturb, tagVars, Steps, SetSteps
<1>6. ASSUME NEW c \in Calls, NEW k \in Keys, StartDelete(c, k) PROVE TypeOK'
  BY <1>6 DEF StartDelete, Go, DisturbSetting, Disturb, tagVars, Steps, DeleteSteps
<1>7. ASSUME NEW c \in Calls, DeleteEntry(c) PROVE TypeOK'
  BY <1>7, GoTyped, DeleteTyped DEF DeleteEntry, Disturb, tagVars, Steps, DeleteSteps
<1>8. ASSUME NEW c \in Calls, FindTags(c) PROVE TypeOK'
  <2>1. CASE Answers /\ GoToNextTag(c, "srem", keys[c], {t \in Tags : members[t] # {}})
    <3>1. {t \in Tags : members[t] # {}} \in SUBSET Tags /\ keys[c] \in SUBSET Keys
      OBVIOUS
    <3> QED BY <1>8, <2>1, <3>1, NextTagTyped DEF FindTags, tagVars, Steps, DeleteSteps
  <2>2. CASE Fails /\ Return(c)
    BY <1>8, <2>2, ReturnTyped DEF FindTags, tagVars
  <2> QED BY <1>8, <2>1, <2>2 DEF FindTags
<1>9. ASSUME NEW c \in Calls, RemoveFromTag(c) PROVE TypeOK'
  BY <1>9, NextTagTyped, ReturnTyped, SremTyped DEF RemoveFromTag, tagVars, Steps, DeleteSteps
<1>10. ASSUME NEW c \in Calls, NEW ts \in SUBSET Tags, StartInvalidate(c, ts) PROVE TypeOK'
  BY <1>10, NextTagTyped DEF StartInvalidate, DisturbSetting, Disturb, tagVars, Steps, SweepSteps
<1>11. ASSUME NEW c \in Calls, ReadMembers(c) PROVE TypeOK'
  <2>1. CASE Answers /\ ToDelete(c, members[tag[c]]) /\ UNCHANGED owed
    <3>1. members[tag[c]] \in SUBSET Keys
      BY <1>11 DEF ReadMembers, Standing, SweepSteps
    <3> QED BY <1>11, <2>1, <3>1 DEF ReadMembers, ToDelete, Go, tagVars, Steps, SweepSteps
  <2>2. CASE Fails /\ Return(c) /\ owed' = [owed EXCEPT ![c] = {}]
    BY <1>11, <2>2, ReturnTyped DEF ReadMembers, tagVars
  <2> QED BY <1>11, <2>1, <2>2 DEF ReadMembers
<1>12. ASSUME NEW c \in Calls, NEW k \in Keys, DeleteMember(c, k) PROVE TypeOK'
  BY <1>12, GoTyped, DeleteTyped DEF DeleteMember, ToDelete, Disturb, tagVars, Steps, SweepSteps
<1>13. ASSUME NEW c \in Calls, DeleteTag(c) PROVE TypeOK'
  <2>1. {} \in SUBSET Keys /\ {tag[c]} \cap Tags \in SUBSET Tags /\ tags[c] \in SUBSET Tags
    OBVIOUS
  <2>2. /\ pc' \in [Calls -> Steps]
        /\ keys' \in [Calls -> SUBSET Keys]
        /\ tag' \in [Calls -> Tags \cup {None}]
        /\ tags' \in [Calls -> SUBSET Tags]
    BY <1>13, <2>1, NextTagTyped DEF DeleteTag, Steps, SweepSteps
  <2>3. /\ members' \in [Tags -> SUBSET Keys]
        /\ falls' \in [Tags -> Nat \cup {Never}]
    BY <1>13, DelTagsTyped DEF DeleteTag, tagVars
  <2> QED BY <1>13, <2>2, <2>3 DEF DeleteTag
<1>14. ASSUME NEW c \in Calls, NEW ks \in SUBSET Keys, NEW ts \in SUBSET Tags,
              StartClear(c, ks, ts) PROVE TypeOK'
  BY <1>14, GoTyped DEF StartClear, DisturbSetting, Disturb, tagVars, Steps, ClearSteps
<1>15. ASSUME NEW c \in Calls, Scan(c) PROVE TypeOK'
  BY <1>15 DEF Scan, Go, Return, tagVars, Steps, ClearSteps
<1>16. ASSUME NEW c \in Calls, Wipe(c) PROVE TypeOK'
  BY <1>16, ReturnTyped, DeleteTyped, DelTagsTyped DEF Wipe, tagVars
<1>17. ASSUME NEW c \in Calls, AnswerLost(c) PROVE TypeOK'
  <2>1. entry' \in [Keys -> Nat \cup {None}] /\ owed' \in [Calls -> SUBSET Keys]
    BY <1>17, SetexTyped, DeleteTyped DEF AnswerLost
  <2>2. members' \in [Tags -> SUBSET Keys] /\ falls' \in [Tags -> Nat \cup {Never}]
    BY <1>17, SaddTyped, ExpireTyped, SremTyped, DelTagsTyped DEF AnswerLost, tagVars
  <2> QED BY <1>17, <2>1, <2>2 DEF AnswerLost, callVars
<1>18. ASSUME NEW c \in Calls, Crash(c) PROVE TypeOK'
  BY <1>18, ReturnTyped DEF Crash, Disturb, tagVars
<1>19. CASE LinkDown \/ LinkUp
  BY <1>19 DEF LinkDown, LinkUp, tagVars, callVars
<1>20. CASE Tick
  BY <1>20, DeleteTyped, DelTagsTyped DEF Tick, Disturb, callVars
<1>21. CASE UNCHANGED vars
  BY <1>21 DEF vars, tagVars, callVars
<1> QED
  BY <1>1, <1>2, <1>3, <1>4, <1>5, <1>6, <1>7, <1>8, <1>9, <1>10, <1>11, <1>12, <1>13,
     <1>14, <1>15, <1>16, <1>17, <1>18, <1>19, <1>20, <1>21 DEF Next, Call

LEMMA StandingKept ==
    ASSUME TypeOK, Standing, [Next]_vars
    PROVE  Standing'
<1> USE DEF TypeOK, Standing, Steps, SetSteps, DeleteSteps, SweepSteps, ClearSteps
<1>1. ASSUME NEW c \in Calls, NEW k \in Keys, StartSet(c, k) PROVE Standing'
  BY <1>1 DEF StartSet, Go
<1>2. ASSUME NEW c \in Calls, SetEntry(c) \/ ExpireTag(c) PROVE Standing'
  BY <1>2 DEF SetEntry, ExpireTag, GoToNextTag, Return, Go
<1>3. ASSUME NEW c \in Calls, AddToTag(c) \/ AddFails(c) PROVE Standing'
  BY <1>3 DEF AddToTag, AddFails, Return, Go
<1>4. ASSUME NEW c \in Calls, NEW k \in Keys, StartDelete(c, k) PROVE Standing'
  BY <1>4 DEF StartDelete, Go
<1>5. ASSUME NEW c \in Calls, DeleteEntry(c) \/ FindTags(c) \/ RemoveFromTag(c) PROVE Standing'
  BY <1>5 DEF DeleteEntry, FindTags, RemoveFromTag, GoToNextTag, Return, Go
<1>6. ASSUME NEW c \in Calls, NEW ts \in SUBSET Tags, StartInvalidate(c, ts) PROVE Standing'
  BY <1>6 DEF StartInvalidate, GoToNextTag, Return, Go
<1>7. ASSUME NEW c \in Calls, ReadMembers(c) \/ DeleteTag(c) PROVE Standing'
  BY <1>7 DEF ReadMembers, DeleteTag, ToDelete, GoToNextTag, Return, Go
<1>8. ASSUME NEW c \in Calls, NEW k \in Keys, DeleteMember(c, k) PROVE Standing'
  BY <1>8 DEF DeleteMember, ToDelete, Go
<1>9. ASSUME NEW c \in Calls, NEW ks, NEW ts, StartClear(c, ks, ts) PROVE Standing'
  BY <1>9 DEF StartClear, Go
<1>10. ASSUME NEW c \in Calls, Scan(c) \/ Wipe(c) \/ Crash(c) PROVE Standing'
  BY <1>10 DEF Scan, Wipe, Crash, Return, Go
<1>11. CASE UNCHANGED callVars
  BY <1>11 DEF callVars
<1> QED
  BY <1>1, <1>2, <1>3, <1>4, <1>5, <1>6, <1>7, <1>8, <1>9, <1>10, <1>11
     DEF Next, Call, AnswerLost, LinkDown, LinkUp, Tick, vars, callVars

LEMMA InitTyped == Init => TypeOK /\ Standing
BY DEF Init, TypeOK, Standing, Steps, SetSteps, SweepSteps

\* Type correctness: every command keeps its data typed, for which a call in a
\* loop over tags must be at one.
THEOREM TypeCorrect == Spec => []TypeOK
<1>1. TypeOK /\ Standing /\ [Next]_vars => (TypeOK /\ Standing)'
  BY TypeKept, StandingKept
<1> QED BY <1>1, InitTyped, PTL DEF Spec

-----------------------------------------------------------------------------
(***************************************************************************)
(* Why what is cached is tagged.  A call that sets k has each tag of k     *)
(* before it until that tag has got the key and a new expiry (Found); the  *)
(* key it added is still there when it renews the expiry, or another call  *)
(* is to add it (Adding); and a call that strips an undisturbed key never  *)
(* meets one that sets it (Intact).                                        *)
(***************************************************************************)

\* Call c sets k and has yet to add it to t, or to renew the expiry of t.
YetToAdd(c, k, t) ==
    /\ pc[c] \in SetSteps /\ k \in keys[c]
    /\ t \in tags[c] \/ (pc[c] = "sadd" /\ tag[c] = t)

Pending(c, k, t) == pc[c] \in SetSteps /\ k \in keys[c] /\ t \in tags[c] \cup {tag[c]}

LivesWithin == \A k \in Keys : entry[k] # None => entry[k] <= clock + EntryTtl

Adding ==
    \A k \in Keys \ disturbed : \A t \in TagsOf[k], c \in Calls :
        pc[c] = "expire" /\ k \in keys[c] /\ tag[c] = t
            => k \in members[t] \/ \E d \in Calls : YetToAdd(d, k, t)

Found ==
    \A k \in Keys \ disturbed : entry[k] # None =>
        \A t \in TagsOf[k] : Covers(t, k) \/ \E c \in Calls : Pending(c, k, t)

\* What a call that strips k of its tags has done to an undisturbed k so far.
Intact ==
    \A k \in Keys \ disturbed, c \in Calls : Strips(c, k) =>
        /\ ~Setting(k)
        /\ pc[c] \in {"keys", "srem"} => entry[k] = None
        /\ pc[c] \in ClearSteps /\ entry[k] # None => k \in keys[c]
        /\ pc[c] \in {"unlink", "deltag"} /\ tag[c] \in TagsOf[k] /\ entry[k] # None
               => pc[c] = "unlink" /\ k \in keys[c]

\* What an invalidation owes is yet to be met by it.
OwedAhead ==
    \A c \in Calls : \A k \in owed[c] \ disturbed :
        /\ entry[k] # None
        /\ pc[c] = "smembers" => TagsOf[k] \cap (tags[c] \cup {tag[c]}) # {}
        /\ pc[c] = "unlink" => k \in keys[c] \/ TagsOf[k] \cap tags[c] # {}
        /\ pc[c] = "deltag" => TagsOf[k] \cap tags[c] # {}

\* The steps of a call after its first.
Onward(c) ==
    \/ SetEntry(c) \/ AddToTag(c) \/ AddFails(c) \/ ExpireTag(c)
    \/ DeleteEntry(c) \/ FindTags(c) \/ RemoveFromTag(c)
    \/ ReadMembers(c) \/ DeleteTag(c)
    \/ \E k \in Keys : DeleteMember(c, k)
    \/ Scan(c) \/ Wipe(c) \/ AnswerLost(c) \/ Crash(c)

Environment == LinkDown \/ LinkUp \/ Tick \/ UNCHANGED vars

\* Only a call that starts begins to set, or to strip, a key, or undoes a
\* disturbance.
LEMMA OnwardNarrows ==
    ASSUME TypeOK, NEW e \in Calls, Onward(e) \/ Environment
    PROVE  /\ disturbed \subseteq disturbed'
           /\ \A k \in Keys : Setting(k)' => Setting(k)
           /\ \A k \in Keys, c \in Calls : Strips(c, k)' => Strips(c, k)
<1> USE DEF TypeOK, Steps, SetSteps, DeleteSteps, SweepSteps, ClearSteps, Setting, Strips
<1>1. CASE SetEntry(e) \/ ExpireTag(e)
  BY <1>1 DEF SetEntry, ExpireTag, Disturb, GoToNextTag, Return, Go
<1>2. CASE AddToTag(e) \/ AddFails(e)
  BY <1>2 DEF AddToTag, AddFails, Disturb, Return, Go
<1>3. CASE DeleteEntry(e)
  BY <1>3 DEF DeleteEntry, Disturb, Go
<1>4. CASE FindTags(e) \/ RemoveFromTag(e)
  BY <1>4 DEF FindTags, RemoveFromTag, GoToNextTag, Return, Go
<1>5. CASE ReadMembers(e)
  BY <1>5 DEF ReadMembers, ToDelete, Return, Go
<1>10. ASSUME NEW j \in Keys, DeleteMember(e, j)
       PROVE  /\ disturbed \subseteq disturbed'
              /\ \A k \in Keys : Setting(k)' => Setting(k)
              /\ \A k \in Keys, c \in Calls : Strips(c, k)' => Strips(c, k)
  BY <1>10 DEF DeleteMember, ToDelete, Disturb, Go
<1>6. CASE DeleteTag(e)
  BY <1>6 DEF DeleteTag, GoToNextTag, Return, Go
<1>7. CASE Scan(e) \/ Wipe(e)
  BY <1>7 DEF Scan, Wipe, Return, Go
<1>8. CASE Crash(e)
  BY <1>8 DEF Crash, Disturb, Return, Go
<1>9. CASE AnswerLost(e) \/ Environment
  BY <1>9 DEF AnswerLost, Environment, LinkDown, LinkUp, Tick, Disturb, callVars, vars
<1> QED BY <1>1, <1>2, <1>3, <1>4, <1>5, <1>6, <1>7, <1>8, <1>9, <1>10 DEF Onward

LEMMA LivesWithinKept ==
    ASSUME TypeOK, LivesWithin, [Next]_vars
    PROVE  LivesWithin'
<1> USE DEF TypeOK, LivesWithin
<1>1. ASSUME NEW c \in Calls, Call(c) \/ AnswerLost(c) \/ Crash(c) PROVE LivesWithin'
  <2>1. clock' = clock
    BY <1>1 DEF Call, StartSet, SetEntry, AddToTag, AddFails, ExpireTag, StartDelete,
       DeleteEntry, FindTags, RemoveFromTag, StartInvalidate, ReadMembers, DeleteMember,
       DeleteTag, StartClear, Scan, Wipe, AnswerLost, Crash
  <2>2. entry' = entry \/ Setex(c) \/ \E ks : Delete(ks)
    BY <1>1 DEF Call, StartSet, SetEntry, AddToTag, AddFails, ExpireTag, StartDelete,
       DeleteEntry, FindTags, RemoveFromTag, StartInvalidate, ReadMembers, DeleteMember,
       DeleteTag, StartClear, Scan, Wipe, AnswerLost, Crash
  <2> QED BY <2>1, <2>2 DEF Setex, Delete
<1>2. CASE LinkDown \/ LinkUp \/ Tick \/ UNCHANGED vars
  BY <1>2 DEF LinkDown, LinkUp, Tick, Delete, vars
<1> QED BY <1>1, <1>2 DEF Next

\* A call that adds a key to a tag either goes on to the expiry with the key in
\* the tag, or returns and leaves the key disturbed.
LEMMA AddingKept ==
    ASSUME TypeOK, Standing, Intact, Adding, [Next]_vars
    PROVE  Adding'
<1> USE DEF TypeOK, Steps, SetSteps, DeleteSteps, SweepSteps, ClearSteps, YetToAdd
<1> SUFFICES ASSUME NEW k \in Keys, k \notin disturbed', NEW t \in TagsOf[k], NEW c \in Calls,
                    pc'[c] = "expire", k \in keys'[c], tag'[c] = t
             PROVE  k \in members'[t] \/ \E d \in Calls : YetToAdd(d, k, t)'
  BY DEF Adding
<1> t \in Tags
  OBVIOUS
<1> DEFINE Goal == k \in members'[t] \/ \E d \in Calls : YetToAdd(d, k, t)'
<1>1. ASSUME NEW e \in Calls, NEW j \in Keys, StartSet(e, j) PROVE Goal
  BY <1>1 DEF StartSet, Go, tagVars, Adding
<1>2. ASSUME NEW e \in Calls, SetEntry(e) PROVE Goal
  BY <1>2 DEF SetEntry, GoToNextTag, Return, Go, tagVars, Adding
<1>3. ASSUME NEW e \in Calls, AddToTag(e) PROVE Goal
  BY <1>3 DEF AddToTag, Go, Sadd, SetTags, Adding
<1>4. ASSUME NEW e \in Calls, AddFails(e) PROVE Goal
  BY <1>4 DEF AddFails, Return, Go, Disturb, tagVars, Adding
<1>5. ASSUME NEW e \in Calls, ExpireTag(e) PROVE Goal
  BY <1>5 DEF ExpireTag, GoToNextTag, Return, Go, Disturb, Expire, tagVars, Adding
<1>6. ASSUME NEW e \in Calls, NEW j \in Keys, StartDelete(e, j) PROVE Goal
  BY <1>6 DEF StartDelete, Go, DisturbSetting, Disturb, tagVars, Adding
<1>7. ASSUME NEW e \in Calls, DeleteEntry(e) \/ FindTags(e) PROVE Goal
  BY <1>7 DEF DeleteEntry, FindTags, GoToNextTag, Return, Go, Disturb, tagVars, Adding
<1>8. ASSUME NEW e \in Calls, RemoveFromTag(e) PROVE Goal
  BY <1>8 DEF RemoveFromTag, GoToNextTag, Return, Go, Srem, SetTags, tagVars, Adding,
     Intact, Strips, Setting
<1>9. ASSUME NEW e \in Calls, NEW ts \in SUBSET Tags, StartInvalidate(e, ts) PROVE Goal
  BY <1>9 DEF StartInvalidate, GoToNextTag, Return, Go, DisturbSetting, Disturb, tagVars, Adding
<1>10. ASSUME NEW e \in Calls, ReadMembers(e) PROVE Goal
  BY <1>10 DEF ReadMembers, ToDelete, Return, Go, tagVars, Adding
<1>11. ASSUME NEW e \in Calls, NEW j \in Keys, DeleteMember(e, j) PROVE Goal
  BY <1>11 DEF DeleteMember, ToDelete, Go, Disturb, tagVars, Adding
<1>12. ASSUME NEW e \in Calls, DeleteTag(e) PROVE Goal
  BY <1>12 DEF DeleteTag, GoToNextTag, Return, Go, DelTags, SetTags, tagVars, Adding,
     Intact, Strips, Setting
<1>13. ASSUME NEW e \in Calls, NEW ks, NEW ts, StartClear(e, ks, ts) PROVE Goal
  BY <1>13 DEF StartClear, Go, DisturbSetting, Disturb, tagVars, Adding
<1>14. ASSUME NEW e \in Calls, Scan(e) PROVE Goal
  BY <1>14 DEF Scan, Return, Go, tagVars, Adding
<1>15. ASSUME NEW e \in Calls, Wipe(e) PROVE Goal
  BY <1>15 DEF Wipe, Return, Go, DelTags, SetTags, tagVars, Adding, Intact, Strips, Setting
<1>16. ASSUME NEW e \in Calls, AnswerLost(e) PROVE Goal
  <2> USE <1>16 DEF AnswerLost, callVars, Adding, Intact, Strips, Setting
  <2>1. \E d \in Calls : YetToAdd(d, k, t) => YetToAdd(d, k, t)'
    OBVIOUS
  <2>2. k \in members[t] => k \in members'[t]
    <3>1. CASE pc[e] = "sadd" /\ Sadd(e)
      BY <3>1 DEF Sadd, SetTags
    <3>2. CASE pc[e] = "srem" /\ Srem(e)
      BY <3>2 DEF Srem, SetTags
    <3>3. CASE pc[e] = "deltag" /\ DelTags({tag[e]})
      BY <3>3 DEF DelTags, SetTags
    <3>4. CASE pc[e] = "wipe" /\ DelTags(tags[e])
      BY <3>4 DEF DelTags, SetTags
    <3>5. CASE UNCHANGED members
      BY <3>5
    <3> QED BY <3>1, <3>2, <3>3, <3>4, <3>5 DEF tagVars, Expire
  <2> QED BY <2>1, <2>2
<1>17. ASSUME NEW e \in Calls, Crash(e) PROVE Goal
  BY <1>17 DEF Crash, Return, Go, Disturb, tagVars, Adding
<1>18. CASE LinkDown \/ LinkUp \/ UNCHANGED vars
  BY <1>18 DEF LinkDown, LinkUp, tagVars, callVars, vars, Adding
<1>19. CASE Tick
  BY <1>19 DEF Tick, DelTags, SetTags, Disturb, callVars, Adding
<1> QED
  BY <1>1, <1>2, <1>3, <1>4, <1>5, <1>6, <1>7, <1>8, <1>9, <1>10, <1>11, <1>12, <1>13,
     <1>14, <1>15, <1>16, <1>17, <1>18, <1>19 DEF Next, Call

\* A call that strips an undisturbed key found nobody setting it, and whoever
\* starts to set it meanwhile disturbs it; so the key stays as the call made it.
LEMMA IntactKept ==
    ASSUME TtlCovered, TypeOK, Standing, Found, Intact, [Next]_vars
    PROVE  Intact'
<1> USE DEF TypeOK, Steps, SetSteps, DeleteSteps, SweepSteps, ClearSteps
<1> SUFFICES ASSUME NEW k \in Keys, k \notin disturbed', NEW c \in Calls, Strips(c, k)'
             PROVE  /\ ~Setting(k)'
                    /\ pc'[c] \in {"keys", "srem"} => entry'[k] = None
                    /\ pc'[c] \in ClearSteps /\ entry'[k] # None => k \in keys'[c]
                    /\ pc'[c] \in {"unlink", "deltag"} /\ tag'[c] \in TagsOf[k] /\ entry'[k] # None
                          => pc'[c] = "unlink" /\ k \in keys'[c]
  BY DEF Intact
<1> DEFINE Rest == /\ pc'[c] \in {"keys", "srem"} => entry'[k] = None
                   /\ pc'[c] \in ClearSteps /\ entry'[k] # None => k \in keys'[c]
                   /\ pc'[c] \in {"unlink", "deltag"} /\ tag'[c] \in TagsOf[k] /\ entry'[k] # None
                         => pc'[c] = "unlink" /\ k \in keys'[c]
<1>1. ASSUME NEW e \in Calls, NEW j \in Keys, StartSet(e, j) PROVE ~Setting(k)' /\ Rest
  BY <1>1 DEF StartSet, Go, tagVars, Intact, Strips, Setting
<1>2. ASSUME NEW e \in Calls, NEW j \in Keys, StartDelete(e, j) PROVE ~Setting(k)' /\ Rest
  BY <1>2 DEF StartDelete, Go, DisturbSetting, Disturb, tagVars, Intact, Strips, Setting
<1>3. ASSUME NEW e \in Calls, NEW ts \in SUBSET Tags, StartInvalidate(e, ts)
      PROVE  ~Setting(k)' /\ Rest
  BY <1>3 DEF StartInvalidate, GoToNextTag, Return, Go, DisturbSetting, Disturb, tagVars,
     Intact, Strips, Setting
<1>4. ASSUME NEW e \in Calls, NEW ks, NEW ts, StartClear(e, ks, ts), ks = Keys \/ ts = {}
      PROVE  ~Setting(k)' /\ Rest
  BY <1>4 DEF StartClear, Go, DisturbSetting, Disturb, tagVars, Intact, Strips, Setting
<1>5. ASSUME NEW e \in Calls, Onward(e) \/ Environment PROVE ~Setting(k)' /\ Rest
  <2>1. k \notin disturbed /\ Strips(c, k) /\ ~Setting(k) /\ ~Setting(k)'
    BY <1>5, OnwardNarrows DEF Intact
  <2>2. entry'[k] # None => entry'[k] = entry[k]
    <3>1. pc[e] \in SetSteps => k \notin keys[e]
      BY <2>1 DEF Setting
    <3>2. CASE pc[e] = "setex" /\ Setex(e)
      BY <3>1, <3>2 DEF Setex
    <3>3. CASE \E ks : Delete(ks)
      BY <3>3 DEF Delete
    <3>4. CASE UNCHANGED entry
      BY <3>4
    <3> QED
      BY <1>5, <3>2, <3>3, <3>4 DEF Onward, Environment, SetEntry, AddToTag, AddFails,
         ExpireTag, DeleteEntry, FindTags, RemoveFromTag, ReadMembers, DeleteMember,
         DeleteTag, Scan, Wipe, AnswerLost, Crash, LinkDown, LinkUp, Tick, vars
  <2>3. CASE pc'[c] = pc[c] /\ keys'[c] = keys[c] /\ tag'[c] = tag[c]
    BY <2>1, <2>2, <2>3 DEF Intact
  <2>4. CASE DeleteEntry(e) /\ c = e
    BY <2>1, <2>2, <2>4 DEF DeleteEntry, Go, Delete, Disturb, Intact, Strips
  <2>5. CASE (FindTags(e) \/ RemoveFromTag(e)) /\ c = e
    BY <2>1, <2>2, <2>5 DEF FindTags, RemoveFromTag, GoToNextTag, Return, Go, Intact, Strips
  <2>6. CASE ReadMembers(e) /\ c = e
    <3>1. tag[e] \in TagsOf[k] /\ entry[k] # None => k \in members[tag[e]]
      BY <2>1 DEF Found, Covers, Pending, Setting
    <3> QED BY <2>1, <2>2, <2>6, <3>1 DEF ReadMembers, ToDelete, Return, Go
  <2>7. ASSUME NEW j \in Keys, DeleteMember(e, j), c = e PROVE Rest
    BY <2>1, <2>2, <2>7 DEF DeleteMember, ToDelete, Go, Delete, Disturb, Intact
  <2>8. CASE DeleteTag(e) /\ c = e
    BY <2>1, <2>8 DEF DeleteTag, GoToNextTag, Return, Go
  <2>9. CASE Scan(e) /\ c = e
    BY <2>1, <2>2, <2>9 DEF Scan, Return, Go, Intact, Strips
  <2>10. CASE (Wipe(e) \/ Crash(e) \/ AddFails(e)) /\ c = e
    BY <2>1, <2>10 DEF Wipe, Crash, AddFails, Return, Go
  <2>11. CASE (SetEntry(e) \/ AddToTag(e) \/ ExpireTag(e)) /\ c = e
    BY <2>1, <2>11 DEF SetEntry, AddToTag, ExpireTag, GoToNextTag, Return, Go
  <2> QED
    <3>1. CASE c # e
      BY <1>5, <3>1, <2>1, <2>3 DEF Onward, Environment, SetEntry, AddToTag, AddFails,
         ExpireTag, DeleteEntry, FindTags, RemoveFromTag, ReadMembers, DeleteMember, ToDelete,
         DeleteTag, Scan, Wipe, AnswerLost, Crash, LinkDown, LinkUp, Tick, GoToNextTag,
         Return, Go, callVars, vars
    <3>2. CASE c = e
      BY <1>5, <3>2, <2>1, <2>3, <2>4, <2>5, <2>6, <2>7, <2>8, <2>9, <2>10, <2>11
         DEF Onward, Environment, AnswerLost, LinkDown, LinkUp, Tick, callVars, vars
    <3> QED BY <3>1, <3>2
<1> QED
  <2>1. Calls # {}
    OBVIOUS
  <2> QED BY <1>1, <1>2, <1>3, <1>4, <1>5, <2>1 DEF Next, Call, Onward, Environment

\* A key stays in its tags for as long as its entry lives: only a call that
\* strips it takes it out, a tag that expires outlived it, and a call that is
\* to add it either does or disturbs it.
LEMMA FoundKept ==
    ASSUME TtlCovered, TypeOK, Standing, LivesWithin, Intact, Adding, Found, [Next]_vars
    PROVE  Found'
<1> USE DEF TypeOK, Steps, SetSteps, DeleteSteps, SweepSteps, ClearSteps, Covers, Pending
<1> SUFFICES ASSUME NEW k \in Keys, k \notin disturbed', entry'[k] # None, NEW t \in TagsOf[k]
             PROVE  Covers(t, k)' \/ \E c \in Calls : Pending(c, k, t)'
  BY DEF Found
<1> t \in Tags
  OBVIOUS
<1> DEFINE Goal == Covers(t, k)' \/ \E c \in Calls : Pending(c, k, t)'
<1>1. ASSUME NEW e \in Calls, NEW j \in Keys, StartSet(e, j) PROVE Goal
  BY <1>1 DEF StartSet, Go, tagVars, Found
<1>2. ASSUME NEW e \in Calls, SetEntry(e) PROVE Goal
  <2>1. CASE k \in keys[e]
    BY <1>2, <2>1 DEF SetEntry, GoToNextTag, Return, Go, Standing
  <2>2. CASE k \notin keys[e]
    BY <1>2, <2>2 DEF SetEntry, GoToNextTag, Return, Go, Setex, tagVars, Found
  <2> QED BY <2>1, <2>2
<1>3. ASSUME NEW e \in Calls, AddToTag(e) PROVE Goal
  <2>1. Covers(t, k) => Covers(t, k)'
    BY <1>3 DEF AddToTag, Sadd, SetTags
  <2> QED BY <1>3, <2>1 DEF AddToTag, Go, Found
<1>4. ASSUME NEW e \in Calls, AddFails(e) PROVE Goal
  BY <1>4 DEF AddFails, Return, Go, Disturb, tagVars, Found
<1>5. ASSUME NEW e \in Calls, ExpireTag(e) PROVE Goal
  <2>1. ASSUME NEW c \in Calls, Pending(c, k, t), c # e \/ t \in tags[e] PROVE Pending(c, k, t)'
    BY <1>5, <2>1 DEF ExpireTag, GoToNextTag, Return, Go
  <2>2. entry[k] # None /\ entry[k] \in Nat /\ entry[k] <= clock + DefaultTtl /\ k \notin disturbed
    BY <1>5 DEF ExpireTag, Disturb, LivesWithin, TtlCovered
  <2>3. Covers(t, k) => Covers(t, k)'
    BY <1>5, <2>2 DEF ExpireTag, Expire, tagVars
  <2>4. CASE Pending(e, k, t) /\ t \notin tags[e]
    <3>1. Answers /\ Expire(e) /\ tag[e] = t /\ pc[e] = "expire" /\ k \in keys[e]
      BY <1>5, <2>4 DEF ExpireTag, Disturb
    <3>2. CASE k \in members[t]
      BY <1>5, <2>2, <3>1, <3>2 DEF ExpireTag, Expire
    <3>3. ASSUME NEW d \in Calls, YetToAdd(d, k, t) PROVE Goal
      <4>1. d # e
        BY <2>4, <3>1, <3>3 DEF YetToAdd
      <4> QED BY <2>1, <3>3, <4>1 DEF YetToAdd
    <3> QED BY <2>2, <3>1, <3>2, <3>3 DEF Adding
  <2> QED BY <2>1, <2>2, <2>3, <2>4 DEF Found
<1>6. ASSUME NEW e \in Calls, NEW j \in Keys, StartDelete(e, j) PROVE Goal
  BY <1>6 DEF StartDelete, Go, DisturbSetting, Disturb, tagVars, Found
<1>7. ASSUME NEW e \in Calls, DeleteEntry(e) \/ FindTags(e) PROVE Goal
  BY <1>7 DEF DeleteEntry, FindTags, GoToNextTag, Return, Go, Delete, Disturb, tagVars, Found
<1>8. ASSUME NEW e \in Calls, RemoveFromTag(e) PROVE Goal
  <2>1. k \notin keys[e]
    BY <1>8 DEF RemoveFromTag, Intact, Strips
  <2>2. Covers(t, k) => Covers(t, k)'
    BY <1>8, <2>1 DEF RemoveFromTag, Srem, SetTags, tagVars
  <2> QED BY <1>8, <2>2 DEF RemoveFromTag, GoToNextTag, Return, Go, Found
<1>9. ASSUME NEW e \in Calls, NEW ts \in SUBSET Tags, StartInvalidate(e, ts) PROVE Goal
  BY <1>9 DEF StartInvalidate, GoToNextTag, Return, Go, DisturbSetting, Disturb, tagVars, Found
<1>10. ASSUME NEW e \in Calls, ReadMembers(e) PROVE Goal
  BY <1>10 DEF ReadMembers, ToDelete, Return, Go, tagVars, Found
<1>11. ASSUME NEW e \in Calls, NEW j \in Keys, DeleteMember(e, j) PROVE Goal
  BY <1>11 DEF DeleteMember, ToDelete, Go, Delete, Disturb, tagVars, Found
<1>12. ASSUME NEW e \in Calls, DeleteTag(e) PROVE Goal
  <2>1. t # tag[e]
    BY <1>12 DEF DeleteTag, Intact, Strips
  <2>2. Covers(t, k) => Covers(t, k)'
    BY <1>12, <2>1 DEF DeleteTag, DelTags, SetTags, tagVars
  <2> QED BY <1>12, <2>2 DEF DeleteTag, GoToNextTag, Return, Go, Found
<1>13. ASSUME NEW e \in Calls, NEW ks, NEW ts, StartClear(e, ks, ts) PROVE Goal
  BY <1>13 DEF StartClear, Go, DisturbSetting, Disturb, tagVars, Found
<1>14. ASSUME NEW e \in Calls, Scan(e) PROVE Goal
  BY <1>14 DEF Scan, Return, Go, tagVars, Found
<1>15. ASSUME NEW e \in Calls, Wipe(e) PROVE Goal
  <2>1. entry[k] = entry'[k] /\ (UNCHANGED tagVars \/ (DelTags(tags[e]) /\ t \notin tags[e]))
    <3>1. CASE Delete(keys[e]) /\ DelTags(tags[e])
      BY <1>15, <3>1 DEF Wipe, Delete, Intact, Strips
    <3>2. CASE entry' = entry /\ UNCHANGED tagVars
      BY <3>2
    <3>3. (Delete(keys[e]) /\ DelTags(tags[e])) \/ (entry' = entry /\ UNCHANGED tagVars)
      BY <1>15 DEF Wipe
    <3> QED BY <3>1, <3>2, <3>3
  <2>2. Covers(t, k) => Covers(t, k)'
    BY <1>15, <2>1 DEF DelTags, SetTags, tagVars
  <2> QED BY <1>15, <2>1, <2>2 DEF Wipe, Return, Go, Found
<1>16. ASSUME NEW e \in Calls, AnswerLost(e) PROVE Goal
  <2> USE <1>16 DEF AnswerLost, callVars
  <2>1. \A c \in Calls : Pending(c, k, t) => Pending(c, k, t)'
    OBVIOUS
  <2>2. CASE pc[e] = "setex" /\ Setex(e) /\ UNCHANGED tagVars
    <3>1. CASE k \in keys[e]
      BY <2>1, <2>2, <3>1 DEF Standing
    <3>2. CASE k \notin keys[e]
      BY <2>1, <2>2, <3>2 DEF Setex, tagVars, Found
    <3> QED BY <3>1, <3>2
  <2>3. CASE pc[e] = "sadd" /\ Sadd(e) /\ UNCHANGED entry
    BY <2>1, <2>3 DEF Sadd, SetTags, Found
  <2>4. CASE pc[e] = "expire" /\ Expire(e) /\ UNCHANGED entry
    <3>1. entry[k] \in Nat /\ entry[k] <= clock + DefaultTtl
      BY <2>4 DEF LivesWithin, TtlCovered
    <3> QED BY <2>1, <2>4, <3>1 DEF Expire, Found
  <2>5. CASE \E ks : Delete(ks) /\ UNCHANGED tagVars
    BY <2>1, <2>5 DEF Delete, tagVars, Found
  <2>6. CASE pc[e] = "srem" /\ Srem(e) /\ UNCHANGED entry
    <3>1. k \notin keys[e]
      BY <2>6 DEF Intact, Strips
    <3> QED BY <2>1, <2>6, <3>1 DEF Srem, SetTags, Found
  <2>7. CASE pc[e] = "deltag" /\ DelTags({tag[e]}) /\ UNCHANGED entry
    <3>1. t # tag[e]
      BY <2>7 DEF Intact, Strips
    <3> QED BY <2>1, <2>7, <3>1 DEF DelTags, SetTags, Found
  <2>8. CASE pc[e] = "wipe" /\ Delete(keys[e]) /\ DelTags(tags[e])
    <3>1. entry[k] = entry'[k] /\ t \notin tags[e]
      BY <2>8 DEF Delete, Intact, Strips
    <3> QED BY <2>1, <2>8, <3>1 DEF DelTags, SetTags, Found
  <2> QED BY <2>2, <2>3, <2>4, <2>5, <2>6, <2>7, <2>8
<1>17. ASSUME NEW e \in Calls, Crash(e) PROVE Goal
  BY <1>17 DEF Crash, Return, Go, Disturb, tagVars, Found
<1>18. CASE LinkDown \/ LinkUp \/ UNCHANGED vars
  BY <1>18 DEF LinkDown, LinkUp, tagVars, callVars, vars, Found
<1>19. CASE Tick
  <2>1. entry[k] = entry'[k] /\ entry[k] > clock + 1 /\ k \notin disturbed
    BY <1>19 DEF Tick, Delete, Disturb
  <2>2. Covers(t, k) => Covers(t, k)'
    BY <1>19, <2>1 DEF Tick, DelTags, SetTags
  <2> QED BY <1>19, <2>1, <2>2 DEF Tick, callVars, Found
<1> QED
  BY <1>1, <1>2, <1>3, <1>4, <1>5, <1>6, <1>7, <1>8, <1>9, <1>10, <1>11, <1>12, <1>13,
     <1>14, <1>15, <1>16, <1>17, <1>18, <1>19 DEF Next, Call

-----------------------------------------------------------------------------
\* An invalidation finds what it owes: an undisturbed key is a member of each of
\* its tags when the members are read.
LEMMA OwedKept ==
    ASSUME TtlCovered, TypeOK, Standing, Found, Intact, OwedAhead, [Next]_vars
    PROVE  OwedAhead'
<1> USE DEF TypeOK, Steps, SetSteps, DeleteSteps, SweepSteps, ClearSteps
<1> SUFFICES ASSUME NEW c \in Calls, NEW k \in owed'[c], k \notin disturbed'
             PROVE  /\ entry'[k] # None
                    /\ pc'[c] = "smembers" => TagsOf[k] \cap (tags'[c] \cup {tag'[c]}) # {}
                    /\ pc'[c] = "unlink" => k \in keys'[c] \/ TagsOf[k] \cap tags'[c] # {}
                    /\ pc'[c] = "deltag" => TagsOf[k] \cap tags'[c] # {}
  BY DEF OwedAhead
<1> DEFINE Ahead == /\ pc'[c] = "smembers" => TagsOf[k] \cap (tags'[c] \cup {tag'[c]}) # {}
                    /\ pc'[c] = "unlink" => k \in keys'[c] \/ TagsOf[k] \cap tags'[c] # {}
                    /\ pc'[c] = "deltag" => TagsOf[k] \cap tags'[c] # {}
           Goal == entry'[k] # None /\ Ahead
<1>0. clock + EntryTtl # None
  <2>1. clock + EntryTtl \in Nat
    OBVIOUS
  <2> QED BY <2>1
<1>1. ASSUME NEW e \in Calls, NEW j \in Keys, StartSet(e, j) PROVE Goal
  BY <1>1 DEF StartSet, Go, Settle, OwedAhead
<1>2. ASSUME NEW e \in Calls, SetEntry(e) PROVE Goal
  <2>1. entry[k] # None => entry'[k] # None
    BY <1>0, <1>2 DEF SetEntry, Setex
  <2> QED BY <1>2, <2>1 DEF SetEntry, GoToNextTag, Return, Go, OwedAhead
<1>3. ASSUME NEW e \in Calls, AddToTag(e) \/ AddFails(e) \/ ExpireTag(e) PROVE Goal
  BY <1>3 DEF AddToTag, AddFails, ExpireTag, GoToNextTag, Return, Go, Disturb, OwedAhead
<1>4. ASSUME NEW e \in Calls, NEW j \in Keys, StartDelete(e, j) PROVE Goal
  BY <1>4 DEF StartDelete, Go, DisturbSetting, Disturb, OwedAhead
<1>5. ASSUME NEW e \in Calls, DeleteEntry(e) PROVE Goal
  BY <1>5 DEF DeleteEntry, Go, Delete, Settle, Disturb, OwedAhead
<1>6. ASSUME NEW e \in Calls, FindTags(e) \/ RemoveFromTag(e) PROVE Goal
  BY <1>6 DEF FindTags, RemoveFromTag, GoToNextTag, Return, Go, OwedAhead
<1>7. ASSUME NEW e \in Calls, NEW ts \in SUBSET Tags, StartInvalidate(e, ts) PROVE Goal
  BY <1>7 DEF StartInvalidate, GoToNextTag, Return, Go, DisturbSetting, Disturb, OwedAhead
<1>8. ASSUME NEW e \in Calls, ReadMembers(e) PROVE Goal
  <2>1. CASE c # e \/ Return(e)
    BY <1>8, <2>1 DEF ReadMembers, ToDelete, Return, Go, OwedAhead
  <2>2. CASE c = e /\ ToDelete(e, members[tag[e]]) /\ UNCHANGED owed
    <3>1. k \in owed[c] \ disturbed /\ entry[k] # None
      BY <1>8, <2>2 DEF ReadMembers, OwedAhead
    <3>2. tag[e] \in TagsOf[k] => k \in members[tag[e]]
      <4>1. ASSUME tag[e] \in TagsOf[k] PROVE ~Setting(k)
        BY <1>8, <2>2, <3>1, <4>1 DEF ReadMembers, Intact, Strips
      <4> QED BY <3>1, <4>1 DEF Found, Covers, Pending, Setting
    <3>3. TagsOf[k] \cap (tags[e] \cup {tag[e]}) # {}
      BY <1>8, <2>2, <3>1 DEF ReadMembers, OwedAhead
    <3> QED BY <1>8, <2>2, <3>1, <3>2, <3>3 DEF ReadMembers, ToDelete, Go
  <2> QED BY <1>8, <2>1, <2>2 DEF ReadMembers
<1>9. ASSUME NEW e \in Calls, NEW j \in Keys, DeleteMember(e, j) PROVE Goal
  <2>1. k \in owed[c] \ disturbed /\ k # j /\ entry'[k] = entry[k]
    BY <1>9 DEF DeleteMember, Delete, Settle, Disturb
  <2> QED BY <1>9, <2>1 DEF DeleteMember, ToDelete, Go, OwedAhead
<1>10. ASSUME NEW e \in Calls, DeleteTag(e) PROVE Goal
  BY <1>10 DEF DeleteTag, GoToNextTag, Return, Go, OwedAhead
<1>11. ASSUME NEW e \in Calls, NEW ks, NEW ts, StartClear(e, ks, ts) PROVE Goal
  BY <1>11 DEF StartClear, Go, DisturbSetting, Disturb, OwedAhead
<1>12. ASSUME NEW e \in Calls, Scan(e) PROVE Goal
  BY <1>12 DEF Scan, Return, Go, OwedAhead
<1>13. ASSUME NEW e \in Calls, Wipe(e) PROVE Goal
  BY <1>13 DEF Wipe, Return, Go, Delete, Settle, OwedAhead
<1>14. ASSUME NEW e \in Calls, AnswerLost(e) PROVE Goal
  <2>1. k \in owed[c] \ disturbed /\ (entry[k] # None => entry'[k] # None)
    BY <1>0, <1>14 DEF AnswerLost, Setex, Delete, Settle
  <2> QED BY <1>14, <2>1 DEF AnswerLost, callVars, OwedAhead
<1>15. ASSUME NEW e \in Calls, Crash(e) PROVE Goal
  BY <1>15 DEF Crash, Return, Go, Disturb, OwedAhead
<1>16. CASE LinkDown \/ LinkUp \/ UNCHANGED vars
  BY <1>16 DEF LinkDown, LinkUp, callVars, vars, OwedAhead
<1>17. CASE Tick
  BY <1>17 DEF Tick, Delete, Settle, Disturb, callVars, OwedAhead
<1> QED
  BY <1>1, <1>2, <1>3, <1>4, <1>5, <1>6, <1>7, <1>8, <1>9, <1>10, <1>11, <1>12, <1>13,
     <1>14, <1>15, <1>16, <1>17 DEF Next, Call

IInv ==
    /\ TypeOK
    /\ Standing
    /\ TtlCovered => LivesWithin /\ Adding /\ Found /\ Intact /\ OwedAhead

LEMMA InitTagged == Init => IInv
BY InitTyped DEF Init, IInv, LivesWithin, Adding, Found, Intact, OwedAhead, Strips, SweepSteps,
   ClearSteps, DeleteSteps

LEMMA IInvKept == IInv /\ [Next]_vars => IInv'
<1> SUFFICES ASSUME IInv, [Next]_vars PROVE IInv'
  OBVIOUS
<1>1. TypeOK' /\ Standing'
  BY TypeKept, StandingKept DEF IInv
<1>2. ASSUME TtlCovered PROVE (LivesWithin /\ Adding /\ Found /\ Intact /\ OwedAhead)'
  BY <1>2, LivesWithinKept, AddingKept, FoundKept, IntactKept, OwedKept DEF IInv
<1> QED BY <1>1, <1>2 DEF IInv, TtlCovered

\* Tags find their keys: what is cached, not being set and undisturbed is a
\* member of each of its tags, which lives as long as the entry does.
THEOREM TagsFind == Spec => []Tagged
<1>1. IInv => Tagged
  BY DEF IInv, Found, Pending, Setting, Tagged
<1> QED BY <1>1, InitTagged, IInvKept, PTL DEF Spec

\* An invalidation that reaches its end has deleted what was cached under its
\* tags when it began, but for keys that were disturbed.
THEOREM SweepsFinish == Spec => []SweepComplete
<1>1. IInv => SweepComplete
  <2> SUFFICES ASSUME IInv, TtlCovered, NEW c \in Calls, pc[c] = "deltag", tags[c] = {}
               PROVE  owed[c] \subseteq disturbed
    BY DEF SweepComplete
  <2> QED BY DEF IInv, OwedAhead
<1> QED BY <1>1, InitTagged, IInvKept, PTL DEF Spec

-----------------------------------------------------------------------------
\* The tags know their keys only; and of a tag without an expiry, each key is
\* being set by a call that has yet to renew it, or is disturbed.
Belongs == \A t \in Tags : \A k \in members[t] : t \in TagsOf[k]

Awaited ==
    \A t \in Tags : falls[t] = Never =>
        \A k \in members[t] \ disturbed : \E c \in Calls : Pending(c, k, t)

LEMMA BelongsKept ==
    ASSUME TypeOK, Standing, Belongs, [Next]_vars
    PROVE  Belongs'
<1> USE DEF TypeOK, Standing, Belongs
<1>1. ASSUME NEW c \in Calls, Call(c) \/ AnswerLost(c) \/ Crash(c)
      PROVE  \/ UNCHANGED members
             \/ pc[c] = "sadd" /\ Sadd(c)
             \/ Srem(c)
             \/ \E ts : DelTags(ts)
  BY <1>1 DEF Call, StartSet, SetEntry, AddToTag, AddFails, ExpireTag, StartDelete,
     DeleteEntry, FindTags, RemoveFromTag, StartInvalidate, ReadMembers, DeleteMember,
     DeleteTag, StartClear, Scan, Wipe, AnswerLost, Crash, Expire, tagVars
<1>2. ASSUME NEW c \in Calls, pc[c] = "sadd", Sadd(c) PROVE Belongs'
  BY <1>2 DEF Sadd, SetTags
<1>3. ASSUME NEW c \in Calls, Srem(c) PROVE Belongs'
  BY <1>3 DEF Srem, SetTags
<1>4. ASSUME NEW ts, DelTags(ts) PROVE Belongs'
  BY <1>4 DEF DelTags, SetTags
<1>5. CASE LinkDown \/ LinkUp \/ UNCHANGED vars
  BY <1>5 DEF LinkDown, LinkUp, tagVars, vars
<1>6. CASE Tick
  BY <1>4, <1>6 DEF Tick
<1> QED BY <1>1, <1>2, <1>3, <1>4, <1>5, <1>6 DEF Next

LEMMA AwaitedKept ==
    ASSUME TypeOK, Standing, Belongs, Awaited, [Next]_vars
    PROVE  Awaited'
<1> USE DEF TypeOK, Steps, SetSteps, DeleteSteps, SweepSteps, ClearSteps, Pending
<1> SUFFICES ASSUME NEW t \in Tags, falls'[t] = Never,
                    NEW k \in members'[t], k \notin disturbed'
             PROVE  \E c \in Calls : Pending(c, k, t)'
  BY DEF Awaited
<1> DEFINE Goal == \E c \in Calls : Pending(c, k, t)'
<1>0. clock + DefaultTtl # Never
  <2>1. clock + DefaultTtl \in Nat
    OBVIOUS
  <2> QED BY <2>1
<1>1. ASSUME NEW e \in Calls, NEW j \in Keys, StartSet(e, j) PROVE Goal
  <2>1. CASE k = j
    BY <1>1, <2>1 DEF StartSet, Go, tagVars, Belongs
  <2>2. CASE k # j
    BY <1>1, <2>2 DEF StartSet, Go, tagVars, Awaited
  <2> QED BY <2>1, <2>2
<1>2. ASSUME NEW e \in Calls, SetEntry(e) PROVE Goal
  <2>1. PICK c \in Calls : Pending(c, k, t)
    BY <1>2 DEF SetEntry, tagVars, Awaited
  <2>2. CASE c = e
    <3>1. t \in tags[e]
      BY <1>2, <2>1, <2>2 DEF SetEntry, tagVars, Standing, Belongs
    <3> QED BY <1>2, <2>1, <2>2, <3>1 DEF SetEntry, GoToNextTag, Return, Go
  <2>3. CASE c # e
    BY <1>2, <2>1, <2>3 DEF SetEntry, GoToNextTag, Return, Go
  <2> QED BY <2>2, <2>3
<1>3. ASSUME NEW e \in Calls, AddToTag(e) PROVE Goal
  <2>1. CASE t = tag[e] /\ k \in keys[e]
    BY <1>3, <2>1 DEF AddToTag, Go
  <2>2. CASE ~(t = tag[e] /\ k \in keys[e])
    BY <1>3, <2>2 DEF AddToTag, Go, Sadd, SetTags, Awaited
  <2> QED BY <2>1, <2>2
<1>4. ASSUME NEW e \in Calls, AddFails(e) PROVE Goal
  BY <1>4 DEF AddFails, Return, Go, Disturb, tagVars, Awaited
<1>5. ASSUME NEW e \in Calls, ExpireTag(e) PROVE Goal
  <2>2. CASE Expire(e) /\ UNCHANGED disturbed
    <3>1. t # tag[e] /\ falls[t] = Never /\ k \in members[t] \ disturbed
      BY <1>0, <2>2 DEF Expire
    <3> QED BY <1>5, <3>1 DEF ExpireTag, GoToNextTag, Return, Go, Awaited
  <2>3. CASE Disturb(keys[e]) /\ UNCHANGED tagVars
    BY <1>5, <2>3 DEF ExpireTag, GoToNextTag, Return, Go, Disturb, tagVars, Awaited
  <2> QED BY <1>5, <2>2, <2>3 DEF ExpireTag
<1>6. ASSUME NEW e \in Calls, NEW j \in Keys, StartDelete(e, j) PROVE Goal
  BY <1>6 DEF StartDelete, Go, DisturbSetting, Disturb, tagVars, Awaited
<1>7. ASSUME NEW e \in Calls, DeleteEntry(e) \/ FindTags(e) PROVE Goal
  BY <1>7 DEF DeleteEntry, FindTags, GoToNextTag, Return, Go, Disturb, tagVars, Awaited
<1>8. ASSUME NEW e \in Calls, RemoveFromTag(e) PROVE Goal
  BY <1>8 DEF RemoveFromTag, GoToNextTag, Return, Go, Srem, SetTags, tagVars, Awaited
<1>9. ASSUME NEW e \in Calls, NEW ts \in SUBSET Tags, StartInvalidate(e, ts) PROVE Goal
  BY <1>9 DEF StartInvalidate, GoToNextTag, Return, Go, DisturbSetting, Disturb, tagVars, Awaited
<1>10. ASSUME NEW e \in Calls, ReadMembers(e) PROVE Goal
  BY <1>10 DEF ReadMembers, ToDelete, Return, Go, tagVars, Awaited
<1>11. ASSUME NEW e \in Calls, NEW j \in Keys, DeleteMember(e, j) PROVE Goal
  BY <1>11 DEF DeleteMember, ToDelete, Go, Disturb, tagVars, Awaited
<1>12. ASSUME NEW e \in Calls, DeleteTag(e) PROVE Goal
  BY <1>12 DEF DeleteTag, GoToNextTag, Return, Go, DelTags, SetTags, tagVars, Awaited
<1>13. ASSUME NEW e \in Calls, NEW ks, NEW ts, StartClear(e, ks, ts) PROVE Goal
  BY <1>13 DEF StartClear, Go, DisturbSetting, Disturb, tagVars, Awaited
<1>14. ASSUME NEW e \in Calls, Scan(e) PROVE Goal
  BY <1>14 DEF Scan, Return, Go, tagVars, Awaited
<1>15. ASSUME NEW e \in Calls, Wipe(e) PROVE Goal
  BY <1>15 DEF Wipe, Return, Go, DelTags, SetTags, tagVars, Awaited
<1>16. ASSUME NEW e \in Calls, AnswerLost(e) PROVE Goal
  <2> USE <1>16 DEF AnswerLost, callVars
  <2>1. CASE pc[e] = "sadd" /\ Sadd(e)
    <3>1. CASE t = tag[e] /\ k \in keys[e]
      BY <3>1, <2>1
    <3>2. CASE ~(t = tag[e] /\ k \in keys[e])
      BY <3>2, <2>1 DEF Sadd, SetTags, Awaited
    <3> QED BY <3>1, <3>2
  <2>2. CASE Srem(e) \/ \E ts : DelTags(ts)
    BY <2>2 DEF Srem, DelTags, SetTags, Awaited
  <2>3. CASE Expire(e)
    <3>1. falls[t] = Never /\ k \in members[t]
      BY <1>0, <2>3 DEF Expire
    <3> QED BY <3>1 DEF Awaited
  <2>4. CASE UNCHANGED tagVars
    BY <2>4 DEF tagVars, Awaited
  <2> QED BY <2>1, <2>2, <2>3, <2>4
<1>17. ASSUME NEW e \in Calls, Crash(e) PROVE Goal
  BY <1>17 DEF Crash, Return, Go, Disturb, tagVars, Awaited
<1>18. CASE LinkDown \/ LinkUp \/ UNCHANGED vars
  BY <1>18 DEF LinkDown, LinkUp, tagVars, callVars, vars, Awaited
<1>19. CASE Tick
  BY <1>19 DEF Tick, DelTags, SetTags, Disturb, callVars, Awaited
<1> QED
  BY <1>1, <1>2, <1>3, <1>4, <1>5, <1>6, <1>7, <1>8, <1>9, <1>10, <1>11, <1>12, <1>13,
     <1>14, <1>15, <1>16, <1>17, <1>18, <1>19 DEF Next, Call

\* Tags do not pile up: a tag that never expires is about to get its expiry, or
\* one of its keys is left from a set() that failed.
THEOREM TagsExpire == Spec => []NoImmortalTag
<1>1. Init => TypeOK /\ Standing /\ Belongs /\ Awaited
  BY InitTyped DEF Init, Belongs, Awaited
<1>2. /\ TypeOK /\ Standing /\ Belongs /\ Awaited /\ [Next]_vars
      => (TypeOK /\ Standing /\ Belongs /\ Awaited)'
  BY TypeKept, StandingKept, BelongsKept, AwaitedKept
<1>3. TypeOK /\ Awaited => NoImmortalTag
  BY DEF TypeOK, Awaited, Pending, NoImmortalTag
<1> QED BY <1>1, <1>2, <1>3, PTL DEF Spec
=============================================================================
