----------------------------- MODULE AuthSession -----------------------------
(***************************************************************************)
(* AuthService for one email: registration, login, refresh and logout over *)
(* the users table and the one Redis key refresh_token:<userId>.  Every    *)
(* login and refresh signs a refresh token, stores it at the key, and      *)
(* answers with it; a refresh is granted to the token that is stored.      *)
(*                                                                         *)
(* A token is a JWT whose payload is the user and the second it was signed *)
(* in: tokens of one user signed in one second are equal.  A token is that *)
(* second.  One action is the code between two awaits.                     *)
(***************************************************************************)
EXTENDS Integers

CONSTANTS
    Calls,     \* calls of the auth routes in flight at the same time
    AccessTtl, \* seconds an access token is valid (JWT_EXPIRES_IN)
    JwtTtl,    \* seconds a refresh token is valid (JWT_REFRESH_EXPIRES_IN)
    RedisTtl,  \* seconds Redis keeps it: parseExpiryToSeconds of the same
    MaxClock,  \* bound on the clock
    Events,    \* what the environment does, see below
    MaxFaults, \* bound on those events
    None       \* no token

\* An answer of Redis lost with the connection, a command that fails, the
\* link going down, an instance crashing.
AllEvents == {"answer_lost", "command_fails", "link_down", "crash"}

ASSUME AuthAssumption ==
    /\ {AccessTtl, JwtTtl, RedisTtl} \subseteq Nat \ {0}
    /\ {MaxClock, MaxFaults} \subseteq Nat
    /\ Events \subseteq AllEvents
    /\ None \notin Int

VARIABLES
    clock,   \* the second
    user,    \* the email has a row in users
    stored,  \* the token at the key, with the second its EX falls due
    up,      \* RedisService.isHealthy()
    pc,      \* pc[c]: the await at which c is
    tok,     \* tok[c]: the token c was given, then the one c signed
    handed,  \* tokens that clients got and that have not expired
    last,    \* history: the token stored last, None once it was deleted
    revoked, \* history: those of handed when the key was deleted or replaced
    unkept,  \* history: tokens whose last store failed, or whose call died
    faults   \* number of events so far

vars == <<clock, user, stored, up, pc, tok, handed, last, revoked, unkept, faults>>
redisVars == <<stored, last, revoked, unkept>>

-----------------------------------------------------------------------------
Steps == {"idle", "find", "insert", "password", "read", "lookup", "store", "del"}

Token == [token : Nat, expireAt : Nat]

ASSUME TokenAssumption == None \notin Token

TypeOK ==
    /\ clock \in Nat
    /\ user \in BOOLEAN
    /\ stored \in Token \cup {None}
    /\ up \in BOOLEAN
    /\ pc \in [Calls -> Steps]
    /\ tok \in [Calls -> Nat \cup {None}]
    /\ \A c \in Calls : pc[c] \in {"read", "lookup", "store"} => tok[c] \in Nat
    /\ handed \subseteq Nat
    /\ last \in Nat \cup {None}
    /\ revoked \subseteq Nat
    /\ unkept \subseteq Nat
    /\ faults \in 0 .. MaxFaults

Init ==
    /\ clock = 0
    /\ user = FALSE
    /\ stored = None
    /\ up = TRUE
    /\ pc = [c \in Calls |-> "idle"]
    /\ tok = [c \in Calls |-> None]
    /\ handed = {}
    /\ last = None
    /\ revoked = {}
    /\ unkept = {}
    /\ faults = 0

Event(e) ==
    /\ e \in Events
    /\ faults < MaxFaults
    /\ faults' = faults + 1

\* Redis does not do the command of a call: the link is down, or it fails.
Fails == (~up /\ UNCHANGED faults) \/ Event("command_fails")

Goto(c, step) == pc' = [pc EXCEPT ![c] = step]

\* The call returns.
Return(c) ==
    /\ Goto(c, "idle")
    /\ tok' = [tok EXCEPT ![c] = None]

-----------------------------------------------------------------------------
\* login(): signs the tokens and stores the refresh token.  A token signed
\* again in the second in which it was revoked counts as a new one.
Sign(c) ==
    /\ Goto(c, "store")
    /\ tok' = [tok EXCEPT ![c] = clock]
    /\ revoked' = revoked \ {clock}
    /\ UNCHANGED <<clock, stored, last, unkept, up, handed, faults>>

Register(c) ==
    /\ pc[c] = "idle"
    /\ Goto(c, "find")
    /\ UNCHANGED <<clock, user, up, tok, redisVars, handed, faults>>

\* findByEmail: the email is taken (401), or its password is hashed.
Find(c) ==
    /\ pc[c] = "find"
    /\ IF user THEN Return(c) ELSE Goto(c, "insert") /\ UNCHANGED tok
    /\ UNCHANGED <<clock, user, up, redisVars, handed, faults>>

Insert(c) ==
    /\ pc[c] = "insert"
    /\ ~user
    /\ user' = TRUE
    /\ Sign(c)

\* The unique index refuses a second row: the error is not an HttpException.
InsertFails(c) ==
    /\ pc[c] = "insert"
    /\ user
    /\ Return(c)
    /\ UNCHANGED <<clock, user, up, redisVars, handed, faults>>

Login(c) ==
    /\ pc[c] = "idle"
    /\ user
    /\ Goto(c, "password")
    /\ UNCHANGED <<clock, user, up, tok, redisVars, handed, faults>>

\* The password is right; a wrong one is a 401 and changes nothing.
Validate(c) ==
    /\ pc[c] = "password"
    /\ Sign(c)
    /\ UNCHANGED user

\* A refresh token with a good signature that has not expired.
Refresh(c, t) ==
    /\ pc[c] = "idle"
    /\ clock < t + JwtTtl
    /\ Goto(c, "read")
    /\ tok' = [tok EXCEPT ![c] = t]
    /\ UNCHANGED <<clock, user, up, redisVars, handed, faults>>

\* GET: the token is the one stored, or it is a 401.
Compare(c) ==
    /\ pc[c] = "read"
    /\ up
    /\ IF stored # None /\ stored.token = tok[c]
         THEN Goto(c, "lookup") /\ UNCHANGED tok
         ELSE Return(c)
    /\ UNCHANGED <<clock, user, up, redisVars, handed, faults>>

\* Without Redis every refresh is a 401.
ReadFails(c) ==
    /\ pc[c] = "read"
    /\ Fails
    /\ Return(c)
    /\ UNCHANGED <<clock, user, up, redisVars, handed>>

\* Seeded fault: a refresh keeps the token and extends its time.
Lookup_KeepsToken(c) ==
    /\ pc[c] = "lookup"
    /\ user
    /\ Goto(c, "store")
    /\ UNCHANGED <<clock, user, up, tok, redisVars, handed, faults>>

\* findById, then login.
Lookup(c) ==
    /\ pc[c] = "lookup"
    /\ user
    /\ Sign(c)
    /\ UNCHANGED user

-----------------------------------------------------------------------------
\* The client gets the token c signed.
Answer(c) ==
    /\ Return(c)
    /\ handed' = handed \cup (IF clock < tok[c] + JwtTtl THEN {tok[c]} ELSE {})

\* What clients hold is revoked, but for a token of a second in which another
\* call signed the one it is about to store.
Revoke == revoked' = revoked \cup (handed \ {tok[c] : c \in {d \in Calls : pc[d] = "store"}})

\* Seeded faults: the key without expiry; the access token's time to live.
PutToken_NoExpiry(c) ==
    /\ stored' = [token |-> tok[c]]
    /\ last' = tok[c]
    /\ Revoke
    /\ unkept' = unkept \ {tok[c]}
PutToken_AccessTtl(c) ==
    /\ stored' = [token |-> tok[c], expireAt |-> clock + AccessTtl]
    /\ last' = tok[c]
    /\ Revoke
    /\ unkept' = unkept \ {tok[c]}

\* Seeded fault: SET with NX.
PutToken_IfNone(c) ==
    /\ stored' = IF stored = None THEN [token |-> tok[c], expireAt |-> clock + RedisTtl] ELSE stored
    /\ last' = tok[c]
    /\ Revoke
    /\ unkept' = unkept \ {tok[c]}

\* SETEX replaces whatever token is there.
PutToken(c) ==
    /\ stored' = [token |-> tok[c], expireAt |-> clock + RedisTtl]
    /\ last' = tok[c]
    /\ Revoke
    /\ unkept' = unkept \ {tok[c]}

Store(c) ==
    /\ pc[c] = "store"
    /\ up
    /\ PutToken(c)
    /\ Answer(c)
    /\ UNCHANGED <<clock, user, up, faults>>

\* set() returns false, and login does not look.
StoreFails(c) ==
    /\ pc[c] = "store"
    /\ Fails
    /\ Answer(c)
    /\ unkept' = unkept \cup {tok[c]}
    /\ UNCHANGED <<clock, user, up, stored, last, revoked>>

\* JwtAuthGuard lets through whoever holds an access token in time; access
\* tokens are handed out with refresh tokens.
Logout(c) ==
    /\ pc[c] = "idle"
    /\ \E t \in handed : clock < t + AccessTtl
    /\ Goto(c, "del")
    /\ UNCHANGED <<clock, user, up, tok, redisVars, handed, faults>>

\* DEL, whatever token is there.
DropToken ==
    /\ stored' = None
    /\ last' = None
    /\ Revoke
    /\ UNCHANGED unkept

Del(c) ==
    /\ pc[c] = "del"
    /\ up
    /\ DropToken
    /\ Return(c)
    /\ UNCHANGED <<clock, user, up, handed, faults>>

\* del() returns false, and logout does not look.
DelFails(c) ==
    /\ pc[c] = "del"
    /\ Fails
    /\ Return(c)
    /\ UNCHANGED <<clock, user, up, redisVars, handed>>

\* The command ran and its answer was lost: ioredis sends it again.
AnswerLost(c) ==
    /\ Event("answer_lost")
    /\ up
    /\ \/ pc[c] = "store" /\ PutToken(c)
       \/ pc[c] = "del" /\ DropToken
    /\ UNCHANGED <<clock, user, up, pc, tok, handed>>

Crash(c) ==
    /\ Event("crash")
    /\ pc[c] # "idle"
    /\ Return(c)
    /\ unkept' = IF pc[c] = "store" THEN unkept \cup {tok[c]} ELSE unkept
    /\ UNCHANGED <<clock, user, up, stored, last, revoked, handed>>

LinkDown ==
    /\ Event("link_down")
    /\ up
    /\ up' = FALSE
    /\ UNCHANGED <<clock, user, pc, tok, redisVars, handed>>

LinkUp ==
    /\ ~up
    /\ up' = TRUE
    /\ UNCHANGED <<clock, user, pc, tok, redisVars, handed, faults>>

\* A second passes; a key whose EX falls due is gone, and expired tokens are
\* of no use to their clients.
Tick ==
    /\ clock < MaxClock
    /\ clock' = clock + 1
    /\ stored' = IF stored # None /\ stored.expireAt <= clock + 1 THEN None ELSE stored
    /\ handed' = {t \in handed : clock + 1 < t + JwtTtl}
    /\ revoked' = {t \in revoked : clock + 1 < t + JwtTtl}
    /\ unkept' = {t \in unkept : clock + 1 < t + JwtTtl}
    /\ UNCHANGED <<user, up, pc, tok, last, faults>>

\* What a call does with the answer it waited for.
Advance(c) ==
    \/ Find(c)
    \/ Insert(c)
    \/ InsertFails(c)
    \/ Validate(c)
    \/ Compare(c)
    \/ ReadFails(c)
    \/ Lookup(c)
    \/ Store(c)
    \/ StoreFails(c)
    \/ Del(c)
    \/ DelFails(c)

Next ==
    \/ \E c \in Calls : Register(c)
    \/ \E c \in Calls : Login(c)
    \/ \E c \in Calls, t \in handed : Refresh(c, t)
    \/ \E c \in Calls : Logout(c)
    \/ \E c \in Calls : Advance(c)
    \/ \E c \in Calls : AnswerLost(c)
    \/ \E c \in Calls : Crash(c)
    \/ LinkDown
    \/ LinkUp
    \/ Tick

Spec == Init /\ [][Next]_vars

-----------------------------------------------------------------------------
\* A logout ends the sessions of everybody (auth.service.ts:130-134), and a
\* refresh or a login the sessions before it (107-114 and 162-168): a token
\* that a client held when the key was deleted or replaced is not accepted
\* again, although refreshes that read it before go on after it, answers are
\* lost and commands are sent again.
RevokedStays == stored # None => stored.token \notin revoked

\* A session lasts for as long as Redis was told to keep its token
\* (auth.service.ts:32-37), be that the token's own life or, for a setting that
\* parseExpiryToSeconds cannot read and jsonwebtoken can, less or more of it:
\* the token stored last is there for RedisTtl seconds from its signature,
\* however late it was stored, unless a logout deletes it.
KeptWhileValid ==
    \A t \in {last} \ {None} : clock < t + RedisTtl => stored # None /\ stored.token = t

\* No client is left with a dead token unless it was told or something failed:
\* a refresh token that a client holds and that Redis was told to keep is the
\* one that is accepted, or a call is about to store it again, unless a logout,
\* a refresh or a login revoked it, or the set() whose result login ignores
\* (auth.service.ts:162-168) failed or was never made.
HeldIsHonoured ==
    \A t \in handed \ (revoked \cup unkept) : clock < t + RedisTtl =>
        \/ stored # None /\ stored.token = t
        \/ \E c \in Calls : pc[c] = "store" /\ tok[c] = t

\* What these rest on.  No call is about to store a revoked token, tokens
\* are signed before they are stored, and a key lives as long as it was to.
SessionSound ==
    /\ \A c \in Calls : pc[c] = "store" => tok[c] <= clock /\ tok[c] \notin revoked
    /\ stored # None => last = stored.token
    /\ last # None => IF stored = None THEN last + RedisTtl <= clock
                                       ELSE last + RedisTtl <= stored.expireAt
=============================================================================
