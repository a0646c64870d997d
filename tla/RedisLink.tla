------------------------------ MODULE RedisLink ------------------------------
(***************************************************************************)
(* RedisService on its ioredis client: the flag isConnected that every     *)
(* other service reads through isHealthy(), kept by the client's events    *)
(* and by ping(), which only GET /v1/health calls.                         *)
(*                                                                         *)
(* The client's own behaviour (lazyConnect, ready check, retryStrategy,    *)
(* maxRetriesPerRequest, resending after a reconnect) is external to the   *)
(* repository and modelled as redis.module.ts configures it.               *)
(***************************************************************************)
EXTENDS Integers

CONSTANTS
    Calls,        \* commands of the services in flight at the same time
    Probes,       \* health probes in flight at the same time
    MaxRetriesPerRequest,  \* failed attempts before the queue is flushed
    ServerStates, \* what Redis may do: be "up", be "down", reply with errors
    MaxChanges    \* bound on the changes of the server and on dropped links

ASSUME LinkAssumption ==
    /\ MaxRetriesPerRequest \in Nat \ {0}
    /\ MaxChanges \in Nat
    /\ {"up"} \subseteq ServerStates
    /\ ServerStates \subseteq {"up", "down", "erring"}

VARIABLES
    status,      \* the client's status
    isConnected, \* RedisService.isConnected
    server,      \* what Redis does
    sent,        \* commands and probes whose promise is pending
    attempts,    \* failed attempts since the last flush or ready
    asked,       \* history: a service asked for a command
    changes      \* number of changes so far

vars == <<status, isConnected, server, sent, attempts, asked, changes>>

TypeOK ==
    /\ status \in {"wait", "connecting", "connect", "ready", "reconnecting"}
    /\ isConnected \in BOOLEAN
    /\ server \in ServerStates
    /\ sent \subseteq Calls \cup Probes
    /\ attempts \in 0 .. MaxRetriesPerRequest
    /\ asked \in BOOLEAN
    /\ changes \in 0 .. MaxChanges

\* lazyConnect: nothing has been sent yet, and onModuleInit, which connects
\* only a client without status or one that has ended, leaves it so.
Init ==
    /\ status = "wait"
    /\ isConnected = FALSE
    /\ server \in ServerStates
    /\ sent = {}
    /\ attempts = 0
    /\ asked = FALSE
    /\ changes = 0

-----------------------------------------------------------------------------
\* The first command sent to a waiting client makes it connect.
Send(x) ==
    /\ sent' = sent \cup {x}
    /\ status' = IF status = "wait" THEN "connecting" ELSE status

\* get, set, del, exists, incr, expire, and the scripts behind isHealthy():
\* nothing is sent while the flag is down.
Ask(c) ==
    /\ c \notin sent
    /\ asked' = TRUE
    /\ IF isConnected THEN Send(c) ELSE UNCHANGED <<sent, status>>
    /\ UNCHANGED <<isConnected, server, attempts, changes>>

\* ping() always sends.
Ping(k) ==
    /\ k \notin sent
    /\ Send(k)
    /\ UNCHANGED <<isConnected, server, attempts, asked, changes>>

\* Redis answers a command, with a value or with an error.
Answer(c) ==
    /\ status = "ready"
    /\ server # "down"
    /\ c \in sent
    /\ sent' = sent \ {c}
    /\ UNCHANGED <<status, isConnected, server, attempts, asked, changes>>

\* Seeded fault: an answered probe never raises a flag that is down.
Pong_Sticky(k) ==
    /\ status = "ready"
    /\ server # "down"
    /\ k \in sent
    /\ sent' = sent \ {k}
    /\ isConnected' = (isConnected /\ server = "up")
    /\ UNCHANGED <<status, server, attempts, asked, changes>>

\* A probe's answer sets the flag either way.
Pong(k) ==
    /\ status = "ready"
    /\ server # "down"
    /\ k \in sent
    /\ sent' = sent \ {k}
    /\ isConnected' = (server = "up")
    /\ UNCHANGED <<status, server, attempts, asked, changes>>

-----------------------------------------------------------------------------
Connect ==
    /\ status = "connecting"
    /\ server # "down"
    /\ status' = "connect"
    /\ UNCHANGED <<isConnected, server, sent, attempts, asked, changes>>

\* 'ready' raises the flag; what was queued is sent again.
Ready ==
    /\ status = "connect"
    /\ server # "down"
    /\ status' = "ready"
    /\ isConnected' = TRUE
    /\ attempts' = 0
    /\ UNCHANGED <<server, sent, asked, changes>>

\* Seeded fault: attempts are counted on without a flush.
Close_NoFlush ==
    /\ status' = "reconnecting"
    /\ isConnected' = FALSE
    /\ attempts' = attempts + 1
    /\ UNCHANGED sent

\* Seeded fault: attempts start over and what is pending stays pending.
Close_KeepsQueue ==
    /\ status' = "reconnecting"
    /\ isConnected' = FALSE
    /\ attempts' = IF attempts = MaxRetriesPerRequest THEN 0 ELSE attempts + 1
    /\ UNCHANGED sent

\* Seeded fault: 'close' leaves the flag to the next probe.
Close_KeepsFlag ==
    LET flush == attempts = MaxRetriesPerRequest
    IN  /\ status' = "reconnecting"
        /\ attempts' = IF flush THEN 0 ELSE attempts + 1
        /\ sent' = IF flush THEN {} ELSE sent
        /\ UNCHANGED isConnected

\* 'close' lowers the flag.  After MaxRetriesPerRequest reconnects that
\* failed, everything pending is rejected, probes included.
Close ==
    LET flush == attempts = MaxRetriesPerRequest
    IN  /\ status' = "reconnecting"
        /\ isConnected' = FALSE
        /\ attempts' = IF flush THEN 0 ELSE attempts + 1
        /\ sent' = IF flush THEN {} ELSE sent

\* The server is gone: an attempt, or the link, fails.
LinkFails ==
    /\ status \in {"connecting", "connect", "ready"}
    /\ server = "down"
    /\ Close
    /\ UNCHANGED <<server, asked, changes>>

\* The link drops although the server is there.
LinkDrops ==
    /\ status \in {"connect", "ready"}
    /\ changes < MaxChanges
    /\ changes' = changes + 1
    /\ Close
    /\ UNCHANGED <<server, asked>>

\* retryStrategy always names a delay, so the client always tries again.
Reconnect ==
    /\ status = "reconnecting"
    /\ status' = "connecting"
    /\ UNCHANGED <<isConnected, server, sent, attempts, asked, changes>>

ServerChanges ==
    /\ changes < MaxChanges
    /\ changes' = changes + 1
    /\ server' \in ServerStates \ {server}
    /\ UNCHANGED <<status, isConnected, sent, attempts, asked>>

Next ==
    \/ \E c \in Calls : Ask(c)
    \/ \E c \in Calls : Answer(c)
    \/ \E k \in Probes : Ping(k)
    \/ \E k \in Probes : Pong(k)
    \/ Connect
    \/ Ready
    \/ LinkFails
    \/ LinkDrops
    \/ Reconnect
    \/ ServerChanges

Spec == Init /\ [][Next]_vars

\* The client's timers and sockets make progress, and a server that is there
\* answers.
ClientFairness ==
    /\ WF_vars(Connect)
    /\ WF_vars(Ready)
    /\ WF_vars(LinkFails)
    /\ WF_vars(Reconnect)
    /\ \A c \in Calls : WF_vars(Answer(c))
    /\ \A k \in Probes : WF_vars(Pong(k))

\* Requests keep coming.
CallFairness == \A c \in Calls : WF_vars(Ask(c))

UnprobedSpec == Spec /\ ClientFairness /\ CallFairness

-----------------------------------------------------------------------------
\* The services never take a client without a link for healthy, in whatever
\* order events, answers to probes and flushes arrive.
FlagSound == isConnected => status = "ready"

\* "If lazyConnect is true, connection happens on first command"
\* (redis.service.ts:48).
ConnectsOnFirstCommand == []((asked /\ [](server = "up")) => <>isConnected)
=============================================================================
