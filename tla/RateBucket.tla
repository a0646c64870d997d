------------------------------ MODULE RateBucket ------------------------------
(***************************************************************************)
(* What a rate limiter promises of one identifier: a bucket that fills at  *)
(* a constant rate up to a bound.  A request is granted exactly when a     *)
(* whole token is there at the time it was sampled, and the grant takes at *)
(* least a token and less than two: what exceeds the token is a fraction   *)
(* that the limiter may keep.  A bucket left alone for its idle time may   *)
(* be forgotten, and is then full.                                         *)
(*                                                                         *)
(* checkTokenBucket stores whole tokens and rounds each refill down; that  *)
(* it implements this bucket says what the rounding costs.                 *)
(***************************************************************************)
EXTENDS Integers

CONSTANTS
    Callers,  \* requests that may be in the limiter at the same time
    Routes,   \* the limits that share the identifier's bucket
    Token,    \* a token, in units
    Burst,    \* Burst[r]: tokens a full bucket holds for route r
    Rate,     \* Rate[r]: units a tick adds for route r
    Second,   \* the grain of a retry time, in ticks
    Life,     \* Life[r]: ticks after a grant at which the bucket is forgotten
    None      \* absence: nothing stored, no request in flight, no promise

VARIABLES
    clock,    \* time where the bucket is kept
    store,    \* what the last grant left, None for a full bucket
    call,     \* call[c]: the request c made and has no answer to
    promise   \* the latest refusal's retry time, until a token goes

vars == <<clock, store, call, promise>>

Request == [route : Routes, now : Int, sentAt : Int]
Store == [units : Nat, stamp : Int, forgetAt : Int]

-----------------------------------------------------------------------------
\* Units in the stored bucket at time t, if nothing bounded them.
Filled(r, t) == store.units + (t - store.stamp) * Rate[r]

Level(r, t) ==
    IF store = None \/ Filled(r, t) > Burst[r] * Token
      THEN Burst[r] * Token
      ELSE Filled(r, t)

Init ==
    /\ clock = 0
    /\ store = None
    /\ call = [c \in Callers |-> None]
    /\ promise = None

Ask(c) ==
    /\ call[c] = None
    /\ call'[c] \in Request
    /\ call' = [call EXCEPT ![c] = call'[c]]
    /\ UNCHANGED <<clock, store, promise>>

\* A whole token is there: it goes, and less than one more.  The answer may
\* be lost, in which case the request is still in the limiter.
Grant(c) ==
    LET r == call[c].route
        now == call[c].now
        level == Level(r, now)
    IN  /\ call[c] # None
        /\ call' = call \/ call' = [call EXCEPT ![c] = None]
        /\ promise' = None
        /\ clock' = clock
        /\ \E left \in 0 .. level - Token :
              /\ level - 2 * Token < left
              /\ store' = [units |-> left, stamp |-> now, forgetAt |-> clock + Life[r]]

\* No whole token is there.  The retry time is one at which a token is there
\* if nobody takes one, late by less than a token's time and a second.
Refuse(c) ==
    LET r == call[c].route
        at == promise'.at
    IN  /\ call[c] # None
        /\ call' = [call EXCEPT ![c] = None]
        /\ UNCHANGED <<clock, store>>
        /\ Level(r, call[c].now) < Token
        /\ promise' # None
        /\ promise' = [route |-> r, at |-> at]
        /\ at \in Int
        /\ Token <= Level(r, at)
        /\ Filled(r, at) < 2 * Token + Second * Rate[r]

\* The limiter gives up on a request, which takes nothing.
Drop(c) ==
    /\ call[c] # None
    /\ call' = [call EXCEPT ![c] = None]
    /\ UNCHANGED <<clock, store, promise>>

\* Time passes; a bucket is forgotten when its idle time is over, no sooner.
Tick ==
    /\ clock' = clock + 1
    /\ store' = IF store # None /\ store.forgetAt <= clock + 1 THEN None ELSE store
    /\ UNCHANGED <<call, promise>>

Next ==
    \/ \E c \in Callers : Ask(c)
    \/ \E c \in Callers : Grant(c)
    \/ \E c \in Callers : Refuse(c)
    \/ \E c \in Callers : Drop(c)
    \/ Tick

Spec == Init /\ [][Next]_vars
=============================================================================
