--------------------------- MODULE RequestPipeline ---------------------------
(***************************************************************************)
(* One instance of the application: requests go through the global guard   *)
(* that limits them, the guard of their route, the idempotency check, the  *)
(* handler and the idempotency store, on the client of RedisLink, until a  *)
(* signal shuts the instance down.                                         *)
(*                                                                         *)
(* Commands are those of RedisLink: Calls are requests with at most one    *)
(* command pending, Probes are requests to GET /v1/health.  What scripts   *)
(* and entries say is TokenBucket's and Idempotency's business; here a     *)
(* value may be either.  Handlers' own commands are AuthSession's.         *)
(***************************************************************************)
EXTENDS RedisLink

CONSTANTS
    Limited, \* requests to a handler with @RateLimit
    Guarded, \* requests to a route with a guard of its own (JWT, local)
    Keyed    \* requests that change something and bring an Idempotency-Key

ASSUME RequestAssumption == Limited \cup Guarded \cup Keyed \subseteq Calls

VARIABLES
    at,       \* at[r]: the stage of request r, or how it was answered
    awaiting, \* requests whose command was sent and has not come back to them
    verdict,  \* history: verdict[r]: what the limiter's script said of r
    skip,     \* RATE_LIMIT_SKIP_IF_REDIS_DOWN, read at start
    process   \* the process: running, closing, or its exit code

linkVars == vars
pipeVars == <<vars, at, awaiting, verdict, skip, process>>

Stages == {"limit", "auth", "check", "handle"}
Outcomes == {"none", "answered", "refused", "denied", "failed"}

\* Where a request is once the limiter has let it pass.
Passed == {"auth", "check", "handle", "store", "answered", "denied", "failed"}

\* Requests and probes whose response is not out yet.
Serving == {r \in Calls : at[r] \in Stages}
InFlight == Serving \cup (Probes \cap sent)

PipeTypeOK ==
    /\ TypeOK
    /\ at \in [Calls -> Stages \cup {"store"} \cup Outcomes]
    /\ awaiting \subseteq Calls
    /\ verdict \in [Calls -> {"none", "granted", "refused"}]
    /\ skip \in BOOLEAN
    /\ process \in {"running", "closing", "exit0", "exit1"}

PipeInit ==
    /\ Init
    /\ at = [r \in Calls |-> "none"]
    /\ awaiting = {}
    /\ verdict = [r \in Calls |-> "none"]
    /\ skip \in BOOLEAN
    /\ process = "running"

-----------------------------------------------------------------------------
Alive == process \in {"running", "closing"}

Goto(r, stage) == at' = [at EXCEPT ![r] = stage]

\* The order of the stages: the limiter is an APP_GUARD and comes first,
\* interceptors come after all guards.
ToCheck(r) == IF r \in Keyed THEN "check" ELSE "handle"
ToAuth(r) == IF r \in Guarded THEN "auth" ELSE ToCheck(r)
ToLimit(r) == IF r \in Limited THEN "limit" ELSE ToAuth(r)

\* Seeded fault: a closing server goes on accepting.
Accept_Closing(r) ==
    /\ Alive
    /\ at[r] \in Outcomes
    /\ Goto(r, ToLimit(r))
    /\ verdict' = [verdict EXCEPT ![r] = "none"]
    /\ UNCHANGED <<linkVars, awaiting, skip, process>>

Accept(r) ==
    /\ process = "running"
    /\ at[r] \in Outcomes
    /\ Goto(r, ToLimit(r))
    /\ verdict' = [verdict EXCEPT ![r] = "none"]
    /\ UNCHANGED <<linkVars, awaiting, skip, process>>

\* Seeded fault: the catch block lets requests pass whatever the configuration.
WithoutRedis_Open(r) ==
    /\ UNCHANGED verdict
    /\ \/ at[r] = "limit" /\ Goto(r, ToAuth(r))
       \/ at[r] = "check" /\ Goto(r, "handle")
       \/ at[r] = "store" /\ Goto(r, "answered")

\* Redis is flagged down, or the command failed: the limiter fails open or
\* closed, the check finds no duplicate, the store gives up.
WithoutRedis(r) ==
    /\ UNCHANGED verdict
    /\ \/ at[r] = "limit" /\ Goto(r, IF skip THEN ToAuth(r) ELSE "refused")
       \/ at[r] = "check" /\ Goto(r, "handle")
       \/ at[r] = "store" /\ Goto(r, "answered")

\* Seeded fault: the script is sent without asking isHealthy().
AskRedis_Ungated(r) ==
    /\ Alive
    /\ at[r] \in {"limit", "check", "store"}
    /\ r \notin awaiting
    /\ Send(r)
    /\ asked' = TRUE
    /\ awaiting' = awaiting \cup {r}
    /\ UNCHANGED <<isConnected, server, attempts, changes, at, verdict, skip, process>>

\* A stage that needs Redis sends its command, if Redis is healthy.
AskRedis(r) ==
    /\ Alive
    /\ at[r] \in {"limit", "check", "store"}
    /\ r \notin awaiting
    /\ Ask(r)
    /\ IF isConnected THEN awaiting' = awaiting \cup {r} /\ UNCHANGED <<at, verdict>>
                      ELSE WithoutRedis(r) /\ UNCHANGED awaiting
    /\ UNCHANGED <<skip, process>>

\* What Redis says: the limiter grants or refuses, the key is known or new.
WithRedis(r) ==
    \/ /\ at[r] = "limit"
       /\ \/ Goto(r, ToAuth(r)) /\ verdict' = [verdict EXCEPT ![r] = "granted"]
          \/ Goto(r, "refused") /\ verdict' = [verdict EXCEPT ![r] = "refused"]
    \/ at[r] = "check" /\ (Goto(r, "handle") \/ Goto(r, "answered")) /\ UNCHANGED verdict
    \/ at[r] = "store" /\ Goto(r, "answered") /\ UNCHANGED verdict

Answered(r) ==
    /\ Alive
    /\ Answer(r)
    /\ r \in awaiting
    /\ awaiting' = awaiting \ {r}
    /\ IF server = "up" THEN WithRedis(r) ELSE WithoutRedis(r)
    /\ UNCHANGED <<skip, process>>

\* The client has flushed the command: its promise rejects.
Rejected(r) ==
    /\ Alive
    /\ r \in awaiting \ sent
    /\ awaiting' = awaiting \ {r}
    /\ WithoutRedis(r)
    /\ UNCHANGED <<linkVars, skip, process>>

\* The route's guard asks the database: it passes, denies or throws.
Authenticate(r) ==
    /\ Alive
    /\ at[r] = "auth"
    /\ Goto(r, ToCheck(r)) \/ Goto(r, "denied") \/ Goto(r, "failed")
    /\ UNCHANGED <<linkVars, awaiting, verdict, skip, process>>

\* The handler returns, and the response goes out before the result is stored;
\* or it throws, and the exception filter answers.
Handle(r) ==
    /\ Alive
    /\ at[r] = "handle"
    /\ Goto(r, IF r \in Keyed THEN "store" ELSE "answered") \/ Goto(r, "failed")
    /\ UNCHANGED <<linkVars, awaiting, verdict, skip, process>>

\* GET /v1/health always pings.
Probe(k) ==
    /\ process = "running"
    /\ Ping(k)
    /\ UNCHANGED <<at, awaiting, verdict, skip, process>>

ProbeAnswered(k) ==
    /\ Alive
    /\ Pong(k)
    /\ UNCHANGED <<at, awaiting, verdict, skip, process>>

-----------------------------------------------------------------------------
\* A signal, or an error nobody caught: app.close() is called.  A second one
\* calls it again, which changes nothing unless it makes a close() reject.
GracefulShutdown ==
    /\ process = "running"
    /\ process' = "closing"
    /\ UNCHANGED <<linkVars, at, awaiting, verdict, skip>>

\* close() waits for the responses; what is still being stored is cut off.
CloseResolves ==
    /\ process = "closing"
    /\ InFlight = {}
    /\ process' = "exit0"
    /\ UNCHANGED <<linkVars, at, awaiting, verdict, skip>>

CloseRejects ==
    /\ process = "closing"
    /\ process' = "exit1"
    /\ UNCHANGED <<linkVars, at, awaiting, verdict, skip>>

\* The rest of the client and its server.
LinkStep ==
    /\ Alive
    /\ Connect \/ Ready \/ LinkFails \/ LinkDrops \/ Reconnect \/ ServerChanges
    /\ UNCHANGED <<at, awaiting, verdict, skip, process>>

Exited == ~Alive /\ UNCHANGED pipeVars

Serve(r) == AskRedis(r) \/ Answered(r) \/ Rejected(r) \/ Authenticate(r) \/ Handle(r)

PipeNext ==
    \/ \E r \in Calls : Accept(r) \/ Serve(r)
    \/ \E k \in Probes : Probe(k) \/ ProbeAnswered(k)
    \/ GracefulShutdown
    \/ CloseResolves
    \/ CloseRejects
    \/ LinkStep
    \/ Exited

\* The client makes progress as in RedisLink; the database and the handlers
\* answer; docker-compose.yml:28-41 probes GET /v1/health every 30 seconds;
\* close() is told when it may resolve.
PipeFairness ==
    /\ WF_pipeVars(LinkStep /\ Connect)
    /\ WF_pipeVars(LinkStep /\ Ready)
    /\ WF_pipeVars(LinkStep /\ LinkFails)
    /\ WF_pipeVars(LinkStep /\ Reconnect)
    /\ \A r \in Calls : WF_pipeVars(Serve(r))
    /\ \A k \in Probes : WF_pipeVars(Probe(k)) /\ WF_pipeVars(ProbeAnswered(k))
    /\ WF_pipeVars(CloseResolves)

PipeSpec == PipeInit /\ [][PipeNext]_pipeVars /\ PipeFairness

-----------------------------------------------------------------------------
\* SAFETY: the limiter decides when it can and the configuration when it
\* cannot: without skip no limited request gets past the guard that the
\* script has not granted, with skip none is refused that the script has not
\* refused (rate-limit.service.ts:43-65 and 121-142).
LimitHonoured ==
    \A r \in Limited :
        /\ ~skip /\ at[r] \in Passed => verdict[r] = "granted"
        /\ skip /\ at[r] = "refused" => verdict[r] = "refused"

\* LIVENESS: every request that was accepted is answered, even if Redis goes
\* away in the middle of it and never comes back, unless the process has to
\* exit with an error.  "No user-facing errors" (FAILURE_SCENARIOS.md:38).
RequestsAnswered ==
    \A r \in Calls : r \in Serving ~> r \notin Serving \/ process = "exit1"

\* LIVENESS: a graceful shutdown comes to its end, whatever Redis does
\* (main.ts:135-147).
Drains == process = "closing" ~> ~Alive

\* LIVENESS: while the instance runs, is probed, and Redis stays up, the flag
\* comes back for good.
FlagRecovers == <>[](server = "up" /\ process = "running") => <>[]isConnected
=============================================================================
