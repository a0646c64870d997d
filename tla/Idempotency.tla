----------------------------- MODULE Idempotency -----------------------------
(***************************************************************************)
(* IdempotencyInterceptor and IdempotencyService for one Redis key, that   *)
(* is, one Idempotency-Key header of one client on one route: requests     *)
(* with that key, retries among them, reach several instances of the API.  *)
(*                                                                         *)
(* An instance checks the key (GET), runs the handler unless the answer is *)
(* cached, and sends the result both to Redis (SETEX), without waiting,    *)
(* and to the client.  An instance has one connection, on which Redis      *)
(* answers commands in the order in which they were sent.  A response is   *)
(* named by the request whose handler made it.                             *)
(***************************************************************************)
EXTENDS Integers, Sequences, FiniteSets

CONSTANTS
    Requests,  \* requests that carry the key
    Instances, \* instances of the API behind the load balancer
    Bodies,    \* request bodies, told apart by their hash
    Events,    \* what the environment does, see below
    MaxFaults, \* bound on those events
    None       \* absence: no entry, no response, not yet started

\* An answer of Redis lost with the connection, a command that fails, a link
\* going down, the entry's expiry, a handler that throws, an instance crashing.
AllEvents == {"answer_lost", "command_fails", "link_down", "expires", "throws", "crash"}

ASSUME IdempotencyAssumption ==
    /\ Events \subseteq AllEvents
    /\ MaxFaults \in Nat
    /\ None \notin Requests \cup Instances \cup Bodies

VARIABLES
    pc,       \* pc[r]: "new", "check" (awaits GET), "handle", "done"
    at,       \* at[r]: the instance r reached
    body,     \* body[r]: r's body
    reply,    \* reply[r]: the response r's client got, None for an error
    entry,    \* the stored body hash and response, or None
    sent,     \* sent[i]: commands of instance i that Redis has to answer
    up,       \* up[i]: isHealthy() at instance i
    executed, \* history: requests whose handler took effect
    kept,     \* history: requests whose result was sent to Redis, and that
              \* nothing has since excused from being stored
    owed,     \* history: requests sent when their response was stored, or on
              \* its way from the same instance, and not excused since
    faults    \* number of events so far

vars == <<pc, at, body, reply, entry, sent, up, executed, kept, owed, faults>>
requestVars == <<at, body>>
historyVars == <<kept, owed>>

-----------------------------------------------------------------------------
Entry == [hash : Bodies, response : Requests]

ASSUME EntryAssumption == None \notin Entry

\* A command is the GET or the SETEX of a request.
Command == [op : {"get", "set"}, of : Requests]

TypeOK ==
    /\ pc \in [Requests -> {"new", "check", "handle", "done"}]
    /\ at \in [Requests -> Instances \cup {None}]
    /\ body \in [Requests -> Bodies \cup {None}]
    /\ reply \in [Requests -> Requests \cup {None}]
    /\ entry \in Entry \cup {None}
    /\ sent \in [Instances -> Seq(Command)]
    /\ up \in [Instances -> BOOLEAN]
    /\ executed \subseteq Requests
    /\ kept \subseteq Requests
    /\ owed \subseteq Requests
    /\ faults \in 0 .. MaxFaults

Init ==
    /\ pc = [r \in Requests |-> "new"]
    /\ at = [r \in Requests |-> None]
    /\ body = [r \in Requests |-> None]
    /\ reply = [r \in Requests |-> None]
    /\ entry = None
    /\ sent = [i \in Instances |-> <<>>]
    /\ up = [i \in Instances |-> TRUE]
    /\ executed = {}
    /\ kept = {}
    /\ owed = {}
    /\ faults = 0

Event(e) ==
    /\ e \in Events
    /\ faults < MaxFaults
    /\ faults' = faults + 1

Goto(r, step) == pc' = [pc EXCEPT ![r] = step]

\* The stored response answers a request with body b, for the service.
Matches(b) == entry # None /\ entry.hash = b

\* It is the response to a request with body b.
Stored(b) == entry # None /\ body[entry.response] = b

\* Redis answers the oldest command of instance i, which is op of r.
Answers(i, op, r) ==
    /\ i # None
    /\ up[i]
    /\ sent[i] # <<>>
    /\ Head(sent[i]) = [op |-> op, of |-> r]

Pop(i) == sent' = [sent EXCEPT ![i] = Tail(@)]

-----------------------------------------------------------------------------
\* The interceptor checks the key, or, Redis being down, goes on without.
Start(r, i, b) ==
    /\ pc[r] = "new"
    /\ at' = [at EXCEPT ![r] = i]
    /\ body' = [body EXCEPT ![r] = b]
    /\ IF up[i]
         THEN /\ Goto(r, "check")
              /\ sent' = [sent EXCEPT ![i] = Append(@, [op |-> "get", of |-> r])]
         ELSE Goto(r, "handle") /\ UNCHANGED sent
    /\ owed' = IF up[i] /\ (Stored(b) \/ \E q \in kept : at[q] = i /\ body[q] = b)
                 THEN owed \cup {r} ELSE owed
    /\ UNCHANGED <<reply, entry, up, executed, kept, faults>>

\* Seeded fault: the hash is not compared.
Read_AnyBody(r) ==
    /\ pc[r] = "check"
    /\ Answers(at[r], "get", r)
    /\ Pop(at[r])
    /\ IF entry # None
         THEN Goto(r, "done") /\ reply' = [reply EXCEPT ![r] = entry.response]
         ELSE Goto(r, "handle") /\ UNCHANGED reply
    /\ UNCHANGED <<requestVars, entry, up, executed, historyVars, faults>>

\* The key's entry is returned, unless its hash differs or it is missing.
Read(r) ==
    /\ pc[r] = "check"
    /\ Answers(at[r], "get", r)
    /\ Pop(at[r])
    /\ IF Matches(body[r])
         THEN Goto(r, "done") /\ reply' = [reply EXCEPT ![r] = entry.response]
         ELSE Goto(r, "handle") /\ UNCHANGED reply
    /\ UNCHANGED <<requestVars, entry, up, executed, historyVars, faults>>

\* Seeded fault: the result is not sent to Redis.
HandlerReturns_Unstored(r) ==
    /\ pc[r] = "handle"
    /\ Goto(r, "done")
    /\ executed' = executed \cup {r}
    /\ reply' = [reply EXCEPT ![r] = r]
    /\ kept' = IF up[at[r]] THEN kept \cup {r} ELSE kept
    /\ UNCHANGED <<requestVars, entry, sent, up, owed, faults>>

\* The handler takes effect; its result is sent to Redis, and to the client
\* without waiting for Redis.
HandlerReturns(r) ==
    /\ pc[r] = "handle"
    /\ Goto(r, "done")
    /\ executed' = executed \cup {r}
    /\ reply' = [reply EXCEPT ![r] = r]
    /\ sent' = IF up[at[r]]
                 THEN [sent EXCEPT ![at[r]] = Append(@, [op |-> "set", of |-> r])]
                 ELSE sent
    /\ kept' = IF up[at[r]] THEN kept \cup {r} ELSE kept
    /\ UNCHANGED <<requestVars, entry, up, owed, faults>>

\* An error passes the interceptor by: nothing is stored.
HandlerThrows(r) ==
    /\ Event("throws")
    /\ pc[r] = "handle"
    /\ Goto(r, "done")
    /\ UNCHANGED <<reply, requestVars, entry, sent, up, executed, historyVars>>

\* SETEX replaces what is there; another body's response is kept, and owed,
\* no more.
Write(r) ==
    /\ entry' = [hash |-> body[r], response |-> r]
    /\ kept' = {q \in kept : body[q] = body[r]}
    /\ owed' = {q \in owed : body[q] = body[r]}

\* Seeded fault: the entry is stored without its hash.
Store_NoHash(r) ==
    /\ Answers(at[r], "set", r)
    /\ Pop(at[r])
    /\ entry' = [hash |-> None, response |-> r]
    /\ UNCHANGED <<pc, reply, requestVars, up, executed, historyVars, faults>>

\* Seeded fault: the hash stored is another request's.
Store_OtherHash(r) ==
    /\ Answers(at[r], "set", r)
    /\ Pop(at[r])
    /\ \E b \in Bodies : entry' = [hash |-> b, response |-> r]
    /\ UNCHANGED <<pc, reply, requestVars, up, executed, historyVars, faults>>

Store(r) ==
    /\ Answers(at[r], "set", r)
    /\ Pop(at[r])
    /\ Write(r)
    /\ UNCHANGED <<pc, reply, requestVars, up, executed, faults>>

\* The SETEX ran and its answer was lost: ioredis sends it again.
StoreAnswerLost(r) ==
    /\ Event("answer_lost")
    /\ Answers(at[r], "set", r)
    /\ Write(r)
    /\ UNCHANGED <<pc, reply, requestVars, sent, up, executed>>

-----------------------------------------------------------------------------
\* Requests that wait for a GET in cmds.
Asking(cmds) ==
    {r \in Requests : /\ pc[r] = "check"
                      /\ \E k \in DOMAIN cmds : cmds[k] = [op |-> "get", of |-> r]}

\* Requests whose SETEX is in cmds.
Storing(cmds) ==
    {r \in Requests : \E k \in DOMAIN cmds : cmds[k] = [op |-> "set", of |-> r]}

\* The client rejects cmds.  A rejected GET counts as a miss; a rejected SETEX
\* is only logged, and excuses the requests that counted on it.
Reject(cmds) ==
    /\ pc' = [r \in Requests |-> IF r \in Asking(cmds) THEN "handle" ELSE pc[r]]
    /\ kept' = kept \ Storing(cmds)
    /\ owed' = {r \in owed \ Asking(cmds) :
                   Stored(body[r]) \/ \A q \in Storing(cmds) : body[q] # body[r]}

CommandFails(i) ==
    /\ Event("command_fails")
    /\ up[i]
    /\ sent[i] # <<>>
    /\ Pop(i)
    /\ Reject(<<Head(sent[i])>>)
    /\ UNCHANGED <<reply, requestVars, entry, up, executed>>

LinkDown(i) ==
    /\ Event("link_down")
    /\ up[i]
    /\ up' = [up EXCEPT ![i] = FALSE]
    /\ UNCHANGED <<pc, reply, requestVars, entry, sent, executed, historyVars>>

\* After maxRetriesPerRequest the client rejects all it has sent ...
Flush(i) ==
    /\ ~up[i]
    /\ sent[i] # <<>>
    /\ sent' = [sent EXCEPT ![i] = <<>>]
    /\ Reject(sent[i])
    /\ UNCHANGED <<reply, requestVars, entry, up, executed, faults>>

\* ... or it reconnects first and sends it again.
LinkUp(i) ==
    /\ ~up[i]
    /\ up' = [up EXCEPT ![i] = TRUE]
    /\ UNCHANGED <<pc, reply, requestVars, entry, sent, executed, historyVars, faults>>

Expire ==
    /\ Event("expires")
    /\ entry # None
    /\ entry' = None
    /\ kept' = {}
    /\ owed' = {}
    /\ UNCHANGED <<pc, reply, requestVars, sent, up, executed>>

\* An instance dies with its requests and restarts with an empty connection.
Crash(i) ==
    LET lost == {r \in Requests : at[r] = i /\ pc[r] \in {"check", "handle"}}
    IN  /\ Event("crash")
        /\ pc' = [r \in Requests |-> IF r \in lost THEN "done" ELSE pc[r]]
        /\ sent' = [sent EXCEPT ![i] = <<>>]
        /\ up' = [up EXCEPT ![i] = FALSE]
        /\ kept' = kept \ Storing(sent[i])
        /\ owed' = owed \ lost
        /\ UNCHANGED <<reply, requestVars, entry, executed>>

\* Every request has been served.
Served ==
    /\ \A r \in Requests : pc[r] = "done"
    /\ \A i \in Instances : sent[i] = <<>>
    /\ UNCHANGED vars

Next ==
    \/ \E r \in Requests, i \in Instances, b \in Bodies : Start(r, i, b)
    \/ \E r \in Requests : Read(r)
    \/ \E r \in Requests : HandlerReturns(r)
    \/ \E r \in Requests : HandlerThrows(r)
    \/ \E r \in Requests : Store(r)
    \/ \E r \in Requests : StoreAnswerLost(r)
    \/ \E i \in Instances : CommandFails(i)
    \/ \E i \in Instances : LinkDown(i)
    \/ \E i \in Instances : Flush(i)
    \/ \E i \in Instances : LinkUp(i)
    \/ \E i \in Instances : Crash(i)
    \/ Expire
    \/ Served

Spec == Init /\ [][Next]_vars

-----------------------------------------------------------------------------
\* "Verify request body hash to prevent conflicts" (README.md:239): what a
\* client gets is the result of an execution that happened, of its own body,
\* although requests with the same key and another body replace the entry
\* at any time.
ReplayFaithful ==
    \A r \in Requests : reply[r] # None =>
        /\ reply[r] \in executed
        /\ body[reply[r]] = body[r]

\* "Return cached response if the same key is used" (README.md:237): a
\* request that comes while its response is stored, or is on its way from
\* the instance it reaches, is answered with it and not executed, unless the
\* entry expires, another body replaces it, or Redis fails.
OwedIsReplayed == \A r \in owed : pc[r] # "handle" /\ r \notin executed

\* "Idempotency keys prevent duplicates" (FAILURE_SCENARIOS.md:134): of the
\* requests with one key and one body, one at most is executed.
ExecutedOnce == \A p, q \in executed : body[p] = body[q] => p = q

\* Commands of Redis: a SETEX stores the result of an execution.
Backed == {c \in Command : c.op = "set" => c.of \in executed}

\* ReplayFaithful is inductive with what is stored and under way.
StoredFaithful ==
    /\ entry # None => entry.response \in executed /\ body[entry.response] = entry.hash
    /\ sent \in [Instances -> Seq(Backed)]
    /\ \A r \in Requests : pc[r] # "new" => body[r] # None /\ at[r] # None
    /\ \A r \in Requests : r \in executed \/ reply[r] # None => pc[r] = "done"
=============================================================================
