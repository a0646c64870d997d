------------------------ MODULE RequestPipelineProofs ------------------------
(***************************************************************************)
(* Proofs about RequestPipeline for any number of requests and of probes,  *)
(* whichever of them are limited, guarded or bring a key.                  *)
(***************************************************************************)
EXTENDS RequestPipeline, RedisLinkProofs

-----------------------------------------------------------------------------
\* Where the next stage of a request may be.
LEMMA StagesAhead ==
    ASSUME NEW r \in Calls
    PROVE  /\ ToCheck(r) \in {"check", "handle"}
           /\ ToAuth(r) \in {"auth", "check", "handle"}
           /\ ToLimit(r) \in Stages
           /\ r \in Limited => ToLimit(r) = "limit"
BY DEF ToCheck, ToAuth, ToLimit, Stages

\* What happens to the client in a step of the pipeline: what RedisLink
\* allows, or nothing.
LEMMA StepOfTheLink == PipeNext => [Next]_vars
<1>. SUFFICES ASSUME PipeNext PROVE [Next]_vars
  OBVIOUS
<1>1. ASSUME NEW r \in Calls, Accept(r) PROVE UNCHANGED vars
  BY <1>1 DEF Accept, linkVars
<1>2. ASSUME NEW r \in Calls, Serve(r) PROVE [Next]_vars
  <2>1. CASE AskRedis(r)
    BY <2>1 DEF AskRedis, Next
  <2>2. CASE Answered(r)
    BY <2>2 DEF Answered, Next
  <2>3. CASE Rejected(r) \/ Authenticate(r) \/ Handle(r)
    BY <2>3 DEF Rejected, Authenticate, Handle, linkVars
  <2>. QED
    BY <1>2, <2>1, <2>2, <2>3 DEF Serve
<1>3. ASSUME NEW k \in Probes, Probe(k) \/ ProbeAnswered(k) PROVE Next
  BY <1>3 DEF Probe, ProbeAnswered, Next
<1>4. CASE LinkStep
  BY <1>4 DEF LinkStep, Next
<1>5. CASE GracefulShutdown \/ CloseResolves \/ CloseRejects \/ Exited
  BY <1>5 DEF GracefulShutdown, CloseResolves, CloseRejects, Exited, pipeVars, linkVars
<1>. QED
  BY <1>1, <1>2, <1>3, <1>4, <1>5 DEF PipeNext

\* The application uses its client only as RedisLink says services do: no
\* request reaches Redis past isHealthy(), no probe is held back by it.
THEOREM LinkImplemented == PipeSpec => Spec
<1>1. PipeInit => Init
  BY DEF PipeInit
<1>2. [PipeNext]_pipeVars => [Next]_vars
  BY StepOfTheLink DEF pipeVars
<1>. QED
  BY <1>1, <1>2, PTL DEF PipeSpec, Spec

\* The health flag is as sound in the running application as on its own.
THEOREM FlagStaysSound == PipeSpec => []FlagSound
BY LinkImplemented, FlagIsSound, PTL

-----------------------------------------------------------------------------
\* Without Redis a request moves on to a stage or to an outcome, and what the
\* script said of it stays.
LEMMA WithoutType ==
    ASSUME NEW r \in Calls, PipeTypeOK, WithoutRedis(r)
    PROVE  /\ at' \in [Calls -> Stages \cup {"store"} \cup Outcomes]
           /\ verdict' = verdict
<1>. at \in [Calls -> Stages \cup {"store"} \cup Outcomes]
  BY DEF PipeTypeOK
<1>1. ASSUME NEW s \in Stages \cup Outcomes, Goto(r, s)
      PROVE  at' \in [Calls -> Stages \cup {"store"} \cup Outcomes]
  BY <1>1 DEF Goto
<1>2. {"auth", "check", "handle"} \subseteq Stages /\ {"answered", "refused"} \subseteq Outcomes
  BY DEF Stages, Outcomes
<1>. QED
  BY <1>1, <1>2, StagesAhead DEF WithoutRedis

LEMMA WithType ==
    ASSUME NEW r \in Calls, PipeTypeOK, WithRedis(r)
    PROVE  /\ at' \in [Calls -> Stages \cup {"store"} \cup Outcomes]
           /\ verdict' \in [Calls -> {"none", "granted", "refused"}]
<1>. /\ at \in [Calls -> Stages \cup {"store"} \cup Outcomes]
     /\ verdict \in [Calls -> {"none", "granted", "refused"}]
  BY DEF PipeTypeOK
<1>1. ASSUME NEW s \in Stages \cup Outcomes, Goto(r, s)
      PROVE  at' \in [Calls -> Stages \cup {"store"} \cup Outcomes]
  BY <1>1 DEF Goto
<1>2. {"auth", "check", "handle"} \subseteq Stages /\ {"answered", "refused"} \subseteq Outcomes
  BY DEF Stages, Outcomes
<1>. QED
  BY <1>1, <1>2, StagesAhead DEF WithRedis

\* Every reachable state of the pipeline is well typed.
THEOREM PipeTypeCorrect == PipeSpec => []PipeTypeOK
<1>1. PipeInit /\ TypeOK => PipeTypeOK
  BY DEF PipeInit, PipeTypeOK, Outcomes
<1>2. PipeTypeOK /\ TypeOK' /\ [PipeNext]_pipeVars => PipeTypeOK'
  <2>. SUFFICES ASSUME PipeTypeOK, TypeOK', [PipeNext]_pipeVars PROVE PipeTypeOK'
    OBVIOUS
  <2>. USE DEF PipeTypeOK
  <2>1. ASSUME NEW r \in Calls, Accept(r) PROVE PipeTypeOK'
    BY <2>1, StagesAhead DEF Accept, Goto
  <2>2. ASSUME NEW r \in Calls, Serve(r) PROVE PipeTypeOK'
    <3>1. CASE AskRedis(r)
      BY <3>1, WithoutType DEF AskRedis
    <3>2. CASE Answered(r)
      BY <3>2, WithoutType, WithType DEF Answered
    <3>3. CASE Rejected(r)
      BY <3>3, WithoutType DEF Rejected
    <3>4. CASE Authenticate(r) \/ Handle(r)
      BY <3>4, StagesAhead DEF Authenticate, Handle, Goto, Stages, Outcomes
    <3>. QED
      BY <2>2, <3>1, <3>2, <3>3, <3>4 DEF Serve
  <2>3. ASSUME NEW k \in Probes, Probe(k) \/ ProbeAnswered(k) PROVE PipeTypeOK'
    BY <2>3 DEF Probe, ProbeAnswered
  <2>4. CASE GracefulShutdown \/ CloseResolves \/ CloseRejects
    BY <2>4 DEF GracefulShutdown, CloseResolves, CloseRejects
  <2>5. CASE LinkStep \/ Exited \/ UNCHANGED pipeVars
    BY <2>5 DEF LinkStep, Exited, pipeVars
  <2>. QED
    BY <2>1, <2>2, <2>3, <2>4, <2>5 DEF PipeNext
<1>. QED
  BY <1>1, <1>2, LinkImplemented, TypeCorrect, PTL DEF PipeSpec

-----------------------------------------------------------------------------
\* Of one request: past the limiter only with a grant or with skip, refused
\* only by the script or without skip.
Honoured(r) ==
    /\ ~skip /\ at[r] \in Passed => verdict[r] = "granted"
    /\ skip /\ at[r] = "refused" => verdict[r] = "refused"

\* A step that leaves a request where it is leaves it honoured.
LEMMA StaysHonoured ==
    ASSUME NEW q \in Calls, Honoured(q), skip' = skip, at'[q] = at[q],
           verdict'[q] = verdict[q]
    PROVE  Honoured(q)'
BY DEF Honoured

\* A request past the limiter that moves on stays past it.
LEMMA MovesOn ==
    ASSUME NEW r \in Calls, PipeTypeOK, Honoured(r), skip' = skip,
           verdict' = verdict, at[r] \in Passed, NEW s \in Passed, Goto(r, s)
    PROVE  Honoured(r)'
BY DEF Honoured, Goto, PipeTypeOK, Passed

\* Without Redis the configuration decides.
LEMMA SkipDecides ==
    ASSUME NEW r \in Limited, PipeTypeOK, Honoured(r), skip' = skip, WithoutRedis(r)
    PROVE  Honoured(r)'
<1>. r \in Calls
  BY RequestAssumption
<1>. USE DEF PipeTypeOK
<1>1. CASE at[r] = "limit" /\ Goto(r, IF skip THEN ToAuth(r) ELSE "refused")
  BY <1>1, StagesAhead DEF Honoured, Goto, Passed
<1>2. CASE at[r] = "check" /\ Goto(r, "handle") /\ UNCHANGED verdict
  BY <1>2, MovesOn DEF Passed
<1>3. CASE at[r] = "store" /\ Goto(r, "answered") /\ UNCHANGED verdict
  BY <1>3, MovesOn DEF Passed
<1>. QED
  BY <1>1, <1>2, <1>3 DEF WithoutRedis

\* With Redis the script decides.
LEMMA ScriptDecides ==
    ASSUME NEW r \in Limited, PipeTypeOK, Honoured(r), skip' = skip, WithRedis(r)
    PROVE  Honoured(r)'
<1>. r \in Calls
  BY RequestAssumption
<1>. USE DEF PipeTypeOK
<1>1. CASE at[r] = "limit" /\ Goto(r, ToAuth(r)) /\ verdict' = [verdict EXCEPT ![r] = "granted"]
  BY <1>1, StagesAhead DEF Honoured, Goto, Passed
<1>2. CASE at[r] = "limit" /\ Goto(r, "refused") /\ verdict' = [verdict EXCEPT ![r] = "refused"]
  BY <1>2 DEF Honoured, Goto, Passed
<1>3. CASE at[r] = "check" /\ (Goto(r, "handle") \/ Goto(r, "answered")) /\ UNCHANGED verdict
  BY <1>3, MovesOn DEF Passed
<1>4. CASE at[r] = "store" /\ Goto(r, "answered") /\ UNCHANGED verdict
  BY <1>4, MovesOn DEF Passed
<1>. QED
  BY <1>1, <1>2, <1>3, <1>4 DEF WithRedis

\* A step for one request leaves the others where they are.
LEMMA OneAtATime ==
    ASSUME NEW r \in Calls, NEW q \in Calls, q # r, PipeTypeOK, Accept(r) \/ Serve(r)
    PROVE  at'[q] = at[q] /\ verdict'[q] = verdict[q]
<1>. USE DEF PipeTypeOK
<1>1. ASSUME NEW s, Goto(r, s) PROVE at'[q] = at[q]
  BY <1>1 DEF Goto
<1>2. WithoutRedis(r) => at'[q] = at[q] /\ verdict'[q] = verdict[q]
  BY <1>1 DEF WithoutRedis
<1>3. WithRedis(r) => at'[q] = at[q] /\ verdict'[q] = verdict[q]
  BY <1>1 DEF WithRedis
<1>. QED
  BY <1>1, <1>2, <1>3 DEF Accept, Serve, AskRedis, Answered, Rejected, Authenticate, Handle

\* The limiter's script decides while Redis can be asked and the
\* configuration while it cannot, for every limited request, wherever the
\* link is lost.
THEOREM LimitKept == PipeSpec => []LimitHonoured
<1>1. PipeInit => LimitHonoured
  BY RequestAssumption DEF PipeInit, LimitHonoured, Passed
<1>2. PipeTypeOK /\ LimitHonoured /\ [PipeNext]_pipeVars => LimitHonoured'
  <2>. SUFFICES ASSUME PipeTypeOK, LimitHonoured, [PipeNext]_pipeVars,
                       NEW q \in Limited
                PROVE  Honoured(q)'
    BY DEF LimitHonoured, Honoured
  <2>. q \in Calls /\ Honoured(q)
    BY RequestAssumption DEF LimitHonoured, Honoured
  <2>0. skip' = skip
    BY DEF PipeNext, Accept, Serve, AskRedis, Answered, Rejected, Authenticate, Handle,
           Probe, ProbeAnswered, GracefulShutdown, CloseResolves, CloseRejects, LinkStep,
           Exited, pipeVars
  <2>1. ASSUME NEW r \in Calls, r # q, Accept(r) \/ Serve(r) PROVE Honoured(q)'
    BY <2>0, <2>1, OneAtATime, StaysHonoured
  <2>2. CASE Accept(q)
    BY <2>2, StagesAhead DEF Accept, Goto, Honoured, PipeTypeOK, Passed
  <2>3. CASE Serve(q)
    <3>1. CASE AskRedis(q)
      BY <2>0, <3>1, SkipDecides, StaysHonoured DEF AskRedis
    <3>2. CASE Answered(q)
      BY <2>0, <3>2, SkipDecides, ScriptDecides DEF Answered
    <3>3. CASE Rejected(q)
      BY <2>0, <3>3, SkipDecides DEF Rejected
    <3>4. CASE Authenticate(q)
      BY <2>0, <3>4, MovesOn, StagesAhead DEF Authenticate, Passed
    <3>5. CASE Handle(q)
      BY <2>0, <3>5, MovesOn DEF Handle, Passed
    <3>. QED
      BY <2>3, <3>1, <3>2, <3>3, <3>4, <3>5 DEF Serve
  <2>4. ASSUME at' = at, verdict' = verdict PROVE Honoured(q)'
    BY <2>0, <2>4, StaysHonoured
  <2>5. CASE \/ \E k \in Probes : Probe(k) \/ ProbeAnswered(k)
             \/ GracefulShutdown \/ CloseResolves \/ CloseRejects
             \/ LinkStep \/ Exited \/ UNCHANGED pipeVars
    BY <2>4, <2>5 DEF Probe, ProbeAnswered, GracefulShutdown, CloseResolves, CloseRejects,
                      LinkStep, Exited, pipeVars
  <2>. QED
    BY <2>1, <2>2, <2>3, <2>5 DEF PipeNext
<1>. QED
  BY <1>1, <1>2, PipeTypeCorrect, PTL DEF PipeSpec
=============================================================================
