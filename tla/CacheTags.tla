------------------------------ MODULE CacheTags ------------------------------
(***************************************************************************)
(* CacheService with tags: set() stores an entry and adds its key to the   *)
(* set of every tag, delete() removes an entry and its key from the tags,  *)
(* invalidateByTags() deletes the members of a tag, clear() deletes what a *)
(* pattern matches.  Each is a sequence of Redis commands, and calls of    *)
(* several instances interleave between any two of them.                   *)
(*                                                                         *)
(* A command that fails, or that finds the link down, is swallowed by      *)
(* RedisService (SETEX, EXPIRE, DEL) and the call goes on; the commands    *)
(* sent by its client (SADD, SREM, SMEMBERS, KEYS, clear's DEL) wait for   *)
(* the link until the client gives up, and their failures end the call.    *)
(***************************************************************************)
EXTENDS Integers

CONSTANTS
    Calls,      \* calls in flight at the same time
    Keys,       \* cache keys
    Tags,       \* tags
    TagsOf,     \* TagsOf[k]: options.tags of whoever sets k
    Patterns,   \* the sets of keys that a namespace matches
    EntryTtl,   \* seconds an entry lives (options.ttl)
    DefaultTtl, \* seconds a tag lives (REDIS_TTL)
    MaxClock,   \* bound on the clock
    Events,     \* what the environment does, see below
    MaxFaults,  \* bound on those events
    None,       \* no entry, no tag
    Never       \* no expiry

\* An answer of Redis lost with the connection, a command that fails, the
\* link going down, an instance crashing.
AllEvents == {"answer_lost", "command_fails", "link_down", "crash"}

ASSUME TagsAssumption ==
    /\ TagsOf \in [Keys -> SUBSET Tags]
    /\ Patterns \subseteq SUBSET Keys
    /\ {EntryTtl, DefaultTtl} \subseteq Nat \ {0}
    /\ {MaxClock, MaxFaults} \subseteq Nat
    /\ Events \subseteq AllEvents
    /\ {None, Never} \cap (Nat \cup Tags) = {}

VARIABLES
    clock,     \* the second
    entry,     \* entry[k]: when the entry of k expires, or None
    members,   \* members[t]: the keys in the set of tag t
    falls,     \* falls[t]: when that set expires, or Never
    up,        \* RedisService.isHealthy()
    pc,        \* pc[c]: the command c waits for
    keys,      \* keys[c]: the key c sets or deletes, the keys c has yet to delete
    tag,       \* tag[c]: the tag c is at
    tags,      \* tags[c]: the tags c has yet to do
    disturbed, \* history: keys whose set() was overlapped or failed, see Disturb
    owed,      \* history: owed[c]: entries that c's invalidation has to delete
    faults     \* number of events so far

vars == <<clock, entry, members, falls, up, pc, keys, tag, tags, disturbed, owed, faults>>
tagVars == <<members, falls>>
callVars == <<pc, keys, tag, tags>>

-----------------------------------------------------------------------------
SetSteps == {"setex", "sadd", "expire"}
DeleteSteps == {"del", "keys", "srem"}
SweepSteps == {"smembers", "unlink", "deltag"}
ClearSteps == {"scan", "wipe"}
Steps == {"idle"} \cup SetSteps \cup DeleteSteps \cup SweepSteps \cup ClearSteps

TypeOK ==
    /\ clock \in Nat
    /\ entry \in [Keys -> Nat \cup {None}]
    /\ members \in [Tags -> SUBSET Keys]
    /\ falls \in [Tags -> Nat \cup {Never}]
    /\ up \in BOOLEAN
    /\ pc \in [Calls -> Steps]
    /\ keys \in [Calls -> SUBSET Keys]
    /\ tag \in [Calls -> Tags \cup {None}]
    /\ tags \in [Calls -> SUBSET Tags]
    /\ disturbed \subseteq Keys
    /\ owed \in [Calls -> SUBSET Keys]
    /\ faults \in 0 .. MaxFaults

Init ==
    /\ clock = 0
    /\ entry = [k \in Keys |-> None]
    /\ members = [t \in Tags |-> {}]
    /\ falls = [t \in Tags |-> Never]
    /\ up = TRUE
    /\ pc = [c \in Calls |-> "idle"]
    /\ keys = [c \in Calls |-> {}]
    /\ tag = [c \in Calls |-> None]
    /\ tags = [c \in Calls |-> {}]
    /\ disturbed = {}
    /\ owed = [c \in Calls |-> {}]
    /\ faults = 0

-----------------------------------------------------------------------------
Event(e) ==
    /\ e \in Events
    /\ faults < MaxFaults
    /\ faults' = faults + 1

\* Redis does not do the command of a call: the link is down, or it fails.
Fails == (~up /\ UNCHANGED faults) \/ Event("command_fails")

\* Redis does it and answers.
Answers == up /\ UNCHANGED faults

\* Call c goes on to a command, with these keys, at tag t, and tags to do.
Go(c, step, ks, t, ts) ==
    /\ pc' = [pc EXCEPT ![c] = step]
    /\ keys' = [keys EXCEPT ![c] = ks]
    /\ tag' = [tag EXCEPT ![c] = t]
    /\ tags' = [tags EXCEPT ![c] = ts]

Return(c) == Go(c, "idle", {}, None, {})

\* The loops over tags, in whatever order they are given.
GoToNextTag(c, step, ks, ts) ==
    \/ ts = {} /\ Return(c)
    \/ \E t \in ts : Go(c, step, ks, t, ts \ {t})

-----------------------------------------------------------------------------
(***************************************************************************)
(* History.  A key is disturbed when its last set() was overlapped by a    *)
(* call that takes its tags away, or failed halfway, or when a deletion of *)
(* its entry failed; a new, undisturbed set() makes up for that.           *)
(***************************************************************************)

\* Call c may take the key k out of a tag from now on.
Strips(c, k) ==
    \/ pc[c] \in DeleteSteps /\ k \in keys[c]
    \/ pc[c] \in SweepSteps \cup ClearSteps /\ TagsOf[k] \cap (tags[c] \cup {tag[c]}) # {}

Setting(k) == \E c \in Calls : pc[c] \in SetSteps /\ k \in keys[c]

Disturb(ks) == disturbed' = disturbed \cup ks

\* A call that strips these keys starts: it disturbs those being set.
DisturbSetting(ks) == Disturb({k \in ks : Setting(k)})

\* The entries of ks are gone or replaced: no invalidation owes them.
Settle(ks) == owed' = [c \in Calls |-> owed[c] \ ks]

-----------------------------------------------------------------------------
(***************************************************************************)
(* The commands.  Redis deletes a set with its last member, so that the    *)
(* set of the next one has no expiry.                                      *)
(***************************************************************************)
SetTags(m) ==
    /\ members' = m
    /\ falls' = [t \in Tags |-> IF m[t] = {} THEN Never ELSE falls[t]]

Delete(ks) ==
    /\ entry' = [k \in Keys |-> IF k \in ks THEN None ELSE entry[k]]
    /\ Settle(ks)

\* Seeded fault: SET without an expiry.
Setex_Forever(c) == entry' = [k \in Keys |-> IF k \in keys[c] THEN Never ELSE entry[k]]

Setex(c) == entry' = [k \in Keys |-> IF k \in keys[c] THEN clock + EntryTtl ELSE entry[k]]

Sadd(c) == SetTags([members EXCEPT ![tag[c]] = @ \cup keys[c]])

\* Seeded fault: only a set without an expiry gets one (EXPIRE NX).
Expire_IfNone(c) ==
    /\ falls' = IF members[tag[c]] # {} /\ falls[tag[c]] = Never
                  THEN [falls EXCEPT ![tag[c]] = clock + DefaultTtl] ELSE falls
    /\ UNCHANGED members

\* EXPIRE of a key that is not there does nothing.
Expire(c) ==
    /\ falls' = IF members[tag[c]] # {}
                  THEN [falls EXCEPT ![tag[c]] = clock + DefaultTtl] ELSE falls
    /\ UNCHANGED members

Srem(c) == SetTags([members EXCEPT ![tag[c]] = @ \ keys[c]])

DelTags(ts) == SetTags([t \in Tags |-> IF t \in ts THEN {} ELSE members[t]])

-----------------------------------------------------------------------------
\* set(): SETEX, then SADD and EXPIRE for every tag.
StartSet(c, k) ==
    /\ up
    /\ pc[c] = "idle"
    /\ Go(c, "setex", {k}, None, TagsOf[k])
    /\ disturbed' = IF \E d \in Calls : Strips(d, k) THEN disturbed \cup {k}
                                                   ELSE disturbed \ {k}
    /\ Settle({k})
    /\ UNCHANGED <<clock, entry, tagVars, up, faults>>

SetEntry(c) ==
    /\ pc[c] = "setex"
    /\ \/ Answers /\ Setex(c)
       \/ Fails /\ UNCHANGED entry
    /\ GoToNextTag(c, "sadd", keys[c], tags[c])
    /\ UNCHANGED <<clock, tagVars, up, disturbed, owed>>

\* Seeded fault: the tag's expiry is left alone.
AddToTag_NoExpire(c) ==
    /\ pc[c] = "sadd"
    /\ Answers
    /\ Sadd(c)
    /\ GoToNextTag(c, "sadd", keys[c], tags[c])
    /\ UNCHANGED <<clock, entry, up, disturbed, owed>>

AddToTag(c) ==
    /\ pc[c] = "sadd"
    /\ Answers
    /\ Sadd(c)
    /\ Go(c, "expire", keys[c], tag[c], tags[c])
    /\ UNCHANGED <<clock, entry, up, disturbed, owed>>

AddFails(c) ==
    /\ pc[c] = "sadd"
    /\ Fails
    /\ Return(c)
    /\ Disturb(keys[c])
    /\ UNCHANGED <<clock, entry, tagVars, up, owed>>

ExpireTag(c) ==
    /\ pc[c] = "expire"
    /\ \/ Answers /\ Expire(c) /\ UNCHANGED disturbed
       \/ Fails /\ Disturb(keys[c]) /\ UNCHANGED tagVars
    /\ GoToNextTag(c, "sadd", keys[c], tags[c])
    /\ UNCHANGED <<clock, entry, up, owed>>

-----------------------------------------------------------------------------
\* delete(): DEL, then KEYS cache:tag:* and SREM from every tag found.
StartDelete(c, k) ==
    /\ up
    /\ pc[c] = "idle"
    /\ Go(c, "del", {k}, None, {})
    /\ DisturbSetting({k})
    /\ UNCHANGED <<clock, entry, tagVars, up, owed, faults>>

DeleteEntry(c) ==
    /\ pc[c] = "del"
    /\ \/ Answers /\ Delete(keys[c]) /\ UNCHANGED disturbed
       \/ Fails /\ Disturb(keys[c]) /\ UNCHANGED <<entry, owed>>
    /\ Go(c, "keys", keys[c], None, {})
    /\ UNCHANGED <<clock, tagVars, up>>

FindTags(c) ==
    /\ pc[c] = "keys"
    /\ \/ Answers /\ GoToNextTag(c, "srem", keys[c], {t \in Tags : members[t] # {}})
       \/ Fails /\ Return(c)
    /\ UNCHANGED <<clock, entry, tagVars, up, disturbed, owed>>

RemoveFromTag(c) ==
    /\ pc[c] = "srem"
    /\ \/ Answers /\ Srem(c) /\ GoToNextTag(c, "srem", keys[c], tags[c])
       \/ Fails /\ UNCHANGED tagVars /\ Return(c)
    /\ UNCHANGED <<clock, entry, up, disturbed, owed>>

-----------------------------------------------------------------------------
\* invalidateByTags(): for every tag SMEMBERS, DEL of each member, DEL of the
\* tag.  It owes the entries that have such a tag when it starts.
StartInvalidate(c, ts) ==
    /\ up
    /\ pc[c] = "idle"
    /\ GoToNextTag(c, "smembers", {}, ts)
    /\ LET ks == {k \in Keys : TagsOf[k] \cap ts # {}}
       IN  /\ DisturbSetting(ks)
           /\ owed' = [owed EXCEPT ![c] = {k \in ks : entry[k] # None /\ ~Setting(k)}]
    /\ UNCHANGED <<clock, entry, tagVars, up, faults>>

\* The members read: their entries go first, then the tag.
ToDelete(c, ks) ==
    Go(c, IF ks = {} THEN "deltag" ELSE "unlink", ks, tag[c], tags[c])

ReadMembers(c) ==
    /\ pc[c] = "smembers"
    /\ \/ Answers /\ ToDelete(c, members[tag[c]]) /\ UNCHANGED owed
       \/ Fails /\ Return(c) /\ owed' = [owed EXCEPT ![c] = {}]
    /\ UNCHANGED <<clock, entry, tagVars, up, disturbed>>

\* Seeded fault: the first DEL that fails ends the loop over the members.
DeleteMember_Stops(c, k) ==
    /\ pc[c] = "unlink"
    /\ k \in keys[c]
    /\ \/ Answers /\ Delete({k}) /\ UNCHANGED disturbed /\ ToDelete(c, keys[c] \ {k})
       \/ Fails /\ Disturb({k}) /\ UNCHANGED <<entry, owed>> /\ ToDelete(c, {})
    /\ UNCHANGED <<clock, tagVars, up>>

DeleteMember(c, k) ==
    /\ pc[c] = "unlink"
    /\ k \in keys[c]
    /\ \/ Answers /\ Delete({k}) /\ UNCHANGED disturbed
       \/ Fails /\ Disturb({k}) /\ UNCHANGED <<entry, owed>>
    /\ ToDelete(c, keys[c] \ {k})
    /\ UNCHANGED <<clock, tagVars, up>>

DeleteTag(c) ==
    /\ pc[c] = "deltag"
    /\ \/ Answers /\ DelTags({tag[c]})
       \/ Fails /\ UNCHANGED tagVars
    /\ GoToNextTag(c, "smembers", {}, tags[c])
    /\ owed' = [owed EXCEPT ![c] = IF tags[c] = {} THEN {} ELSE @]
    /\ UNCHANGED <<clock, entry, up, disturbed>>

-----------------------------------------------------------------------------
\* clear(): KEYS of the pattern, then one DEL of what was found.  The pattern
\* of a namespace matches some keys, the one of all matches the tags as well.
StartClear(c, ks, ts) ==
    /\ up
    /\ pc[c] = "idle"
    /\ Go(c, "scan", ks, None, ts)
    /\ DisturbSetting({k \in Keys : TagsOf[k] \cap ts # {}})
    /\ UNCHANGED <<clock, entry, tagVars, up, owed, faults>>

Scan(c) ==
    /\ pc[c] = "scan"
    /\ LET ks == {k \in keys[c] : entry[k] # None}
           ts == {t \in tags[c] : members[t] # {}}
       IN  \/ Answers /\ ks \cup ts # {} /\ Go(c, "wipe", ks, None, ts)
           \/ Answers /\ ks \cup ts = {} /\ Return(c)
           \/ Fails /\ Return(c)
    /\ UNCHANGED <<clock, entry, tagVars, up, disturbed, owed>>

Wipe(c) ==
    /\ pc[c] = "wipe"
    /\ \/ Answers /\ Delete(keys[c]) /\ DelTags(tags[c])
       \/ Fails /\ UNCHANGED <<entry, owed, tagVars>>
    /\ Return(c)
    /\ UNCHANGED <<clock, up, disturbed>>

-----------------------------------------------------------------------------
\* Redis did the command and its answer was lost: ioredis sends it again, and
\* the call still waits.
AnswerLost(c) ==
    /\ Event("answer_lost")
    /\ up
    /\ UNCHANGED <<clock, up, callVars, disturbed>>
    /\ \/ pc[c] = "setex" /\ Setex(c) /\ UNCHANGED <<tagVars, owed>>
       \/ pc[c] = "sadd" /\ Sadd(c) /\ UNCHANGED <<entry, owed>>
       \/ pc[c] = "expire" /\ Expire(c) /\ UNCHANGED <<entry, owed>>
       \/ pc[c] = "del" /\ Delete(keys[c]) /\ UNCHANGED tagVars
       \/ pc[c] = "srem" /\ Srem(c) /\ UNCHANGED <<entry, owed>>
       \/ \E k \in keys[c] : pc[c] = "unlink" /\ Delete({k}) /\ UNCHANGED tagVars
       \/ pc[c] = "deltag" /\ DelTags({tag[c]}) /\ UNCHANGED <<entry, owed>>
       \/ pc[c] = "wipe" /\ Delete(keys[c]) /\ DelTags(tags[c])

\* The instance of c dies between two commands.
Crash(c) ==
    /\ Event("crash")
    /\ pc[c] # "idle"
    /\ Return(c)
    /\ Disturb(IF pc[c] \in SetSteps THEN keys[c] ELSE {})
    /\ owed' = [owed EXCEPT ![c] = {}]
    /\ UNCHANGED <<clock, entry, tagVars, up>>

LinkDown ==
    /\ Event("link_down")
    /\ up
    /\ up' = FALSE
    /\ UNCHANGED <<clock, entry, tagVars, callVars, disturbed, owed>>

LinkUp ==
    /\ ~up
    /\ up' = TRUE
    /\ UNCHANGED <<clock, entry, tagVars, callVars, disturbed, owed, faults>>

\* Time, and what expires.  A tag may expire after SADD and before EXPIRE.
Tick ==
    LET dead == {t \in Tags : falls[t] # Never /\ falls[t] <= clock + 1}
    IN  /\ clock < MaxClock
        /\ clock' = clock + 1
        /\ Delete({k \in Keys : entry[k] # None /\ entry[k] <= clock + 1})
        /\ DelTags(dead)
        /\ Disturb({k \in Keys : \E c \in Calls :
                        pc[c] = "expire" /\ k \in keys[c] /\ tag[c] \in dead})
        /\ UNCHANGED <<up, callVars, faults>>

-----------------------------------------------------------------------------
Call(c) ==
    \/ \E k \in Keys : StartSet(c, k)
    \/ SetEntry(c) \/ AddToTag(c) \/ AddFails(c) \/ ExpireTag(c)
    \/ \E k \in Keys : StartDelete(c, k)
    \/ DeleteEntry(c) \/ FindTags(c) \/ RemoveFromTag(c)
    \/ \E ts \in SUBSET Tags \ {{}} : StartInvalidate(c, ts)
    \/ ReadMembers(c) \/ DeleteTag(c)
    \/ \E k \in Keys : DeleteMember(c, k)
    \/ StartClear(c, Keys, Tags)
    \/ \E ks \in Patterns : StartClear(c, ks, {})
    \/ Scan(c) \/ Wipe(c)

Next ==
    \/ \E c \in Calls : Call(c) \/ AnswerLost(c) \/ Crash(c)
    \/ LinkDown
    \/ LinkUp
    \/ Tick

Spec == Init /\ [][Next]_vars

-----------------------------------------------------------------------------
\* The tags outlive the entries: options.ttl is at most REDIS_TTL.  set() does
\* not see to it.
TtlCovered == EntryTtl <= DefaultTtl

\* Tag t will still have the key k when the entry of k expires.
Covers(t, k) == k \in members[t] /\ (falls[t] = Never \/ falls[t] >= entry[k])

\* SAFETY: what is cached can be found by each of its tags for as long as it is
\* cached, unless it is being set, or its last set() failed halfway or was
\* overlapped by a call that takes tags away.  cache.service.ts:76-79 stores
\* the tags after the entry, and 302-303 renews their expiry after adding to
\* them.
Tagged ==
    TtlCovered =>
        \A k \in Keys \ disturbed :
            entry[k] # None /\ ~Setting(k) => \A t \in TagsOf[k] : Covers(t, k)

\* SAFETY: when invalidateByTags() reaches its end, whatever was cached under
\* its tags when it began is gone or was set again, except keys whose tags
\* were lost by a named cause and those whose DEL failed; the code counts the
\* latter as invalidated (cache.service.ts:127-130).
SweepComplete ==
    TtlCovered =>
        \A c \in Calls : pc[c] = "deltag" /\ tags[c] = {} => owed[c] \subseteq disturbed

\* SAFETY: a tag that never expires is about to get an expiry, or a set() of
\* one of its keys failed before it could (cache.service.ts:302-303 are two
\* commands).
NoImmortalTag ==
    \A t \in Tags : members[t] # {} /\ falls[t] = Never =>
        \/ \E c \in Calls : pc[c] \in SetSteps /\ t \in tags[c] \cup {tag[c]}
        \/ members[t] \cap disturbed # {}
=============================================================================
