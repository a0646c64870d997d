-------------------------- MODULE IdempotencyProofs --------------------------
(***************************************************************************)
(* Proofs about Idempotency for any number of requests, instances, bodies  *)
(* and failures: what a client gets is the result of an execution of the   *)
(* body it sent.                                                           *)
(***************************************************************************)
EXTENDS Idempotency, SequenceTheorems, TLAPS

IInv == TypeOK /\ StoredFaithful /\ ReplayFaithful

-----------------------------------------------------------------------------
\* What is sent stays backed while executions are only added.
LEMMA BackedGrows ==
    ASSUME executed \subseteq executed', StoredFaithful
    PROVE  sent \in [Instances -> Seq(Backed')]
<1>1. Backed \subseteq Backed'
  BY DEF Backed
<1>2. Seq(Backed) \subseteq Seq(Backed')
  BY <1>1, SeqMonotonic
<1>. QED
  BY <1>2 DEF StoredFaithful

\* Backed commands are commands.
LEMMA BackedType ==
    ASSUME NEW E, NEW q \in [Instances -> Seq({c \in Command : c.op = "set" => c.of \in E})]
    PROVE  q \in [Instances -> Seq(Command)]
<1>. DEFINE B == {c \in Command : c.op = "set" => c.of \in E}
<1>1. Seq(B) \subseteq Seq(Command)
  BY SeqMonotonic
<1>. QED
  BY <1>1

\* The command Redis answers is backed, and so are those left.
LEMMA AnswersBacked ==
    ASSUME IInv, NEW r \in Requests, NEW op, Answers(at[r], op, r)
    PROVE  /\ at[r] \in Instances
           /\ [op |-> op, of |-> r] \in Backed
           /\ op = "set" => r \in executed
<1>1. at[r] \in Instances
  BY DEF IInv, TypeOK, Answers
<1>2. sent[at[r]] \in Seq(Backed) /\ sent[at[r]] # <<>>
  BY <1>1 DEF IInv, StoredFaithful, Answers
<1>3. Head(sent[at[r]]) \in Backed
  BY <1>2, HeadTailProperties
<1>. QED
  BY <1>1, <1>3 DEF Answers, Backed

\* What is left once Redis answered is backed.
LEMMA PopBacked ==
    ASSUME IInv, NEW i \in Instances, sent[i] # <<>>, Pop(i)
    PROVE  sent' \in [Instances -> Seq(Backed)]
<1>1. Tail(sent[i]) \in Seq(Backed)
  BY HeadTailProperties DEF IInv, StoredFaithful
<1>. QED
  BY <1>1 DEF IInv, StoredFaithful, Pop

\* A backed command appended keeps what is sent backed.
LEMMA AppendBacked ==
    ASSUME NEW S, sent \in [Instances -> Seq(S)], NEW i \in Instances, NEW c \in S,
           sent' = [sent EXCEPT ![i] = Append(@, c)]
    PROVE  sent' \in [Instances -> Seq(S)]
<1>1. Append(sent[i], c) \in Seq(S)
  BY AppendProperties
<1>. QED
  BY <1>1

-----------------------------------------------------------------------------
\* A step that keeps requests, entry and executions needs only its queue
\* argued about; a request that leaves the interceptor unanswered is done.
LEMMA StepAside ==
    ASSUME IInv, UNCHANGED <<reply, requestVars, entry, executed>>,
           pc' \in [Requests -> {"new", "check", "handle", "done"}],
           \A r \in Requests : pc'[r] = pc[r] \/ (pc[r] \in {"check", "handle"} /\ pc'[r] # "new"),
           sent' \in [Instances -> Seq(Backed)],
           up' \in [Instances -> BOOLEAN], faults' \in 0 .. MaxFaults,
           kept' \subseteq Requests, owed' \subseteq Requests
    PROVE  IInv'
<1>1. sent' \in [Instances -> Seq(Command)]
  BY BackedType DEF Backed
<1>2. TypeOK'
  BY <1>1 DEF IInv, TypeOK, requestVars
<1>3. StoredFaithful'
  BY DEF IInv, TypeOK, StoredFaithful, Backed, requestVars
<1>4. ReplayFaithful'
  BY DEF IInv, ReplayFaithful, requestVars
<1>. QED
  BY <1>2, <1>3, <1>4 DEF IInv

\* A counted event stays within its bound.
LEMMA EventType ==
    ASSUME TypeOK, NEW e, Event(e)
    PROVE  faults' \in 0 .. MaxFaults
BY IdempotencyAssumption DEF TypeOK, Event

\* A request comes.
LEMMA StepStart ==
    ASSUME IInv, NEW r \in Requests, NEW i \in Instances, NEW b \in Bodies, Start(r, i, b)
    PROVE  IInv'
<1>. DEFINE get == [op |-> "get", of |-> r]
<1>1. get \in Backed
  BY DEF Backed, Command
<1>2. sent' \in [Instances -> Seq(Backed)]
  <2>1. sent \in [Instances -> Seq(Backed)]
    BY DEF IInv, StoredFaithful
  <2>2. sent' = sent \/ sent' = [sent EXCEPT ![i] = Append(@, get)]
    BY DEF Start
  <2>. HIDE DEF get
  <2>. QED
    BY <1>1, <2>1, <2>2, AppendBacked
<1>3. Backed' = Backed
  BY DEF Start, Backed
<1>4. r \notin executed /\ reply[r] = None
  BY DEF Start, IInv, StoredFaithful
<1>5. \A q \in executed : body'[q] = body[q]
  BY <1>4 DEF Start, IInv, TypeOK
<1>6. pc' \in [Requests -> {"new", "check", "handle", "done"}]
  BY DEF Start, Goto, IInv, TypeOK
<1>7. TypeOK'
  <2>1. sent' \in [Instances -> Seq(Command)]
    BY <1>2, BackedType DEF Backed
  <2>2. at' \in [Requests -> Instances \cup {None}] /\ body' \in [Requests -> Bodies \cup {None}]
    BY DEF Start, IInv, TypeOK
  <2>3. owed' \subseteq Requests
    BY DEF Start, IInv, TypeOK
  <2>. QED
    BY <1>6, <2>1, <2>2, <2>3 DEF Start, IInv, TypeOK
<1>8. StoredFaithful'
  <2>1. entry' # None => entry'.response \in executed' /\ body'[entry'.response] = entry'.hash
    BY <1>5 DEF Start, IInv, StoredFaithful
  <2>2. \A q \in Requests : pc'[q] # "new" => body'[q] # None /\ at'[q] # None
    BY IdempotencyAssumption DEF Start, Goto, IInv, TypeOK, StoredFaithful
  <2>3. \A q \in Requests : q \in executed' \/ reply'[q] # None => pc'[q] = "done"
    BY <1>4 DEF Start, Goto, IInv, TypeOK, StoredFaithful
  <2>. QED
    BY <1>2, <1>3, <2>1, <2>2, <2>3 DEF StoredFaithful
<1>9. ReplayFaithful'
  <2>. SUFFICES ASSUME NEW q \in Requests, reply'[q] # None
       PROVE  reply'[q] \in executed' /\ body'[reply'[q]] = body'[q]
    BY DEF ReplayFaithful
  <2>1. q # r /\ reply[q] # None /\ body'[q] = body[q]
    BY <1>4 DEF Start, IInv, TypeOK
  <2>2. reply[q] \in executed /\ body[reply[q]] = body[q]
    BY <2>1 DEF IInv, ReplayFaithful
  <2>. QED
    BY <1>5, <2>1, <2>2 DEF Start
<1>. QED
  BY <1>7, <1>8, <1>9 DEF IInv

\* Its key is read.
LEMMA StepRead ==
    ASSUME IInv, NEW r \in Requests, Read(r)
    PROVE  IInv'
<1>1. at[r] \in Instances
  BY AnswersBacked DEF Read
<1>2. sent' \in [Instances -> Seq(Backed)]
  BY <1>1, PopBacked DEF Read, Answers
<1>3. CASE ~Matches(body[r])
  BY <1>2, <1>3, StepAside DEF Read, Goto, IInv, TypeOK, historyVars
<1>4. CASE Matches(body[r])
  <2>1. pc' = [pc EXCEPT ![r] = "done"] /\ reply' = [reply EXCEPT ![r] = entry.response]
        /\ UNCHANGED <<requestVars, entry, up, executed, historyVars, faults>>
    BY <1>4 DEF Read, Goto
  <2>2. entry.response \in executed /\ body[entry.response] = body[r]
    BY <1>4 DEF Matches, IInv, StoredFaithful
  <2>3. Backed' = Backed
    BY <2>1 DEF Backed
  <2>4. TypeOK'
    <3>1. sent' \in [Instances -> Seq(Command)]
      BY <1>2, BackedType DEF Backed
    <3>2. pc' \in [Requests -> {"new", "check", "handle", "done"}]
          /\ reply' \in [Requests -> Requests \cup {None}]
      BY <2>1, <2>2 DEF IInv, TypeOK
    <3>. QED
      BY <2>1, <3>1, <3>2 DEF IInv, TypeOK, requestVars, historyVars
  <2>5. StoredFaithful'
    <3>1. \A q \in Requests : pc'[q] # "new" => pc[q] # "new"
      BY <2>1 DEF Read, IInv, TypeOK
    <3>2. \A q \in Requests : q \in executed' \/ reply'[q] # None => pc'[q] = "done"
      BY <2>1 DEF IInv, TypeOK, StoredFaithful
    <3>. QED
      BY <1>2, <2>1, <2>3, <3>1, <3>2 DEF IInv, StoredFaithful, requestVars
  <2>6. ReplayFaithful'
    BY <2>1, <2>2 DEF IInv, TypeOK, ReplayFaithful, requestVars
  <2>. QED
    BY <2>4, <2>5, <2>6 DEF IInv
<1>. QED
  BY <1>3, <1>4

\* Its handler returns.
LEMMA StepReturns ==
    ASSUME IInv, NEW r \in Requests, HandlerReturns(r)
    PROVE  IInv'
<1>. DEFINE set == [op |-> "set", of |-> r]
<1>1. at[r] \in Instances /\ body[r] \in Bodies
  BY DEF HandlerReturns, IInv, TypeOK, StoredFaithful
<1>2. executed' = executed \cup {r} /\ executed \subseteq executed'
  BY DEF HandlerReturns
<1>3. set \in Backed'
  BY <1>2 DEF Backed, Command
<1>4. sent' \in [Instances -> Seq(Backed')]
  <2>1. sent \in [Instances -> Seq(Backed')]
    BY <1>2, BackedGrows DEF IInv
  <2>2. sent' = sent \/ sent' = [sent EXCEPT ![at[r]] = Append(@, set)]
    BY DEF HandlerReturns
  <2>. HIDE DEF set
  <2>. QED
    BY <1>1, <1>3, <2>1, <2>2, AppendBacked
<1>5. TypeOK'
  <2>1. sent' \in [Instances -> Seq(Command)]
    BY <1>4, BackedType DEF Backed
  <2>2. pc' \in [Requests -> {"new", "check", "handle", "done"}]
        /\ reply' \in [Requests -> Requests \cup {None}]
        /\ executed' \subseteq Requests /\ kept' \subseteq Requests
    BY DEF HandlerReturns, Goto, IInv, TypeOK
  <2>. QED
    BY <2>1, <2>2 DEF HandlerReturns, IInv, TypeOK, requestVars
<1>6. StoredFaithful'
  <2>1. \A q \in Requests : pc'[q] # "new" => pc[q] # "new"
    BY DEF HandlerReturns, Goto, IInv, TypeOK
  <2>2. \A q \in Requests : q \in executed' \/ reply'[q] # None => pc'[q] = "done"
    BY DEF HandlerReturns, Goto, IInv, TypeOK, StoredFaithful
  <2>. QED
    BY <1>2, <1>4, <2>1, <2>2 DEF HandlerReturns, IInv, StoredFaithful, requestVars
<1>7. ReplayFaithful'
  BY <1>2 DEF HandlerReturns, IInv, TypeOK, ReplayFaithful, requestVars
<1>. QED
  BY <1>5, <1>6, <1>7 DEF IInv

\* Its result is stored.
LEMMA StepStore ==
    ASSUME IInv, NEW r \in Requests, Store(r) \/ StoreAnswerLost(r)
    PROVE  IInv'
<1>1. at[r] \in Instances /\ r \in executed
  BY AnswersBacked DEF Store, StoreAnswerLost
<1>2. sent' \in [Instances -> Seq(Backed)]
  BY <1>1, PopBacked DEF Store, StoreAnswerLost, Answers, IInv, StoredFaithful
<1>3. entry' = [hash |-> body[r], response |-> r] /\ body[r] \in Bodies
  BY <1>1 DEF Store, StoreAnswerLost, Write, IInv, TypeOK, StoredFaithful
<1>4. UNCHANGED <<pc, reply, requestVars, up, executed>> /\ kept' \subseteq Requests /\ owed' \subseteq Requests
  BY DEF Store, StoreAnswerLost, Write, IInv, TypeOK
<1>5. faults' \in 0 .. MaxFaults
  BY EventType DEF Store, StoreAnswerLost, IInv, TypeOK
<1>6. Backed' = Backed
  BY <1>4 DEF Backed
<1>7. TypeOK'
  <2>1. sent' \in [Instances -> Seq(Command)]
    BY <1>2, BackedType DEF Backed
  <2>2. entry' \in Entry
    BY <1>3 DEF Entry
  <2>. QED
    BY <1>4, <1>5, <2>1, <2>2 DEF IInv, TypeOK, requestVars
<1>8. StoredFaithful'
  BY <1>1, <1>2, <1>3, <1>4, <1>6 DEF IInv, StoredFaithful, requestVars
<1>9. ReplayFaithful'
  BY <1>4 DEF IInv, ReplayFaithful, requestVars
<1>. QED
  BY <1>7, <1>8, <1>9 DEF IInv

\* Commands fail.
LEMMA StepFails ==
    ASSUME IInv, NEW i \in Instances, CommandFails(i) \/ Flush(i)
    PROVE  IInv'
<1>1. sent' \in [Instances -> Seq(Backed)]
  <2>1. CASE CommandFails(i)
    BY <2>1, PopBacked DEF CommandFails
  <2>2. CASE Flush(i)
    BY <2>2, EmptySeq DEF Flush, IInv, StoredFaithful
  <2>. QED
    BY <2>1, <2>2
<1>2. PICK cmds : Reject(cmds)
  BY DEF CommandFails, Flush
<1>3. /\ pc' \in [Requests -> {"new", "check", "handle", "done"}]
      /\ \A r \in Requests : pc'[r] = pc[r] \/ (pc[r] \in {"check", "handle"} /\ pc'[r] # "new")
  BY <1>2 DEF Reject, Asking, IInv, TypeOK
<1>4. kept' \subseteq Requests /\ owed' \subseteq Requests
  BY <1>2 DEF Reject, IInv, TypeOK
<1>5. faults' \in 0 .. MaxFaults
  BY EventType DEF CommandFails, Flush, IInv, TypeOK
<1>. QED
  BY <1>1, <1>3, <1>4, <1>5, StepAside DEF CommandFails, Flush, IInv, TypeOK

\* Links and instances come and go.
LEMMA StepLink ==
    ASSUME IInv, NEW i \in Instances, LinkDown(i) \/ LinkUp(i) \/ Crash(i)
    PROVE  IInv'
<1>1. sent' \in [Instances -> Seq(Backed)]
  BY EmptySeq DEF LinkDown, LinkUp, Crash, IInv, StoredFaithful
<1>2. /\ pc' \in [Requests -> {"new", "check", "handle", "done"}]
      /\ \A r \in Requests : pc'[r] = pc[r] \/ (pc[r] \in {"check", "handle"} /\ pc'[r] # "new")
      /\ kept' \subseteq Requests /\ owed' \subseteq Requests
      /\ up' \in [Instances -> BOOLEAN]
  BY DEF LinkDown, LinkUp, Crash, IInv, TypeOK, historyVars
<1>3. faults' \in 0 .. MaxFaults
  BY EventType DEF LinkDown, LinkUp, Crash, IInv, TypeOK
<1>. QED
  BY <1>1, <1>2, <1>3, StepAside DEF LinkDown, LinkUp, Crash

\* The invariant is inductive.
LEMMA Inductive == IInv /\ [Next]_vars => IInv'
<1>. SUFFICES ASSUME IInv, [Next]_vars PROVE IInv'
  OBVIOUS
<1>1. ASSUME NEW r \in Requests, HandlerThrows(r) PROVE IInv'
  <2>1. faults' \in 0 .. MaxFaults
    BY <1>1, EventType DEF HandlerThrows, IInv
  <2>. QED
    BY <1>1, <2>1, StepAside DEF HandlerThrows, Goto, IInv, TypeOK, StoredFaithful, historyVars
<1>2. CASE Expire
  <2>1. faults' \in 0 .. MaxFaults
    BY <1>2, EventType DEF Expire, IInv
  <2>2. TypeOK'
    BY <1>2, <2>1 DEF Expire, IInv, TypeOK, requestVars
  <2>3. StoredFaithful' /\ ReplayFaithful'
    BY <1>2 DEF Expire, IInv, StoredFaithful, ReplayFaithful, Backed, requestVars
  <2>. QED
    BY <2>2, <2>3 DEF IInv
<1>3. CASE UNCHANGED vars \/ Served
  BY <1>3 DEF Served, vars, IInv, TypeOK, StoredFaithful, ReplayFaithful, Backed
<1>. QED
  BY <1>1, <1>2, <1>3, StepStart, StepRead, StepReturns, StepStore, StepFails, StepLink DEF Next

\* Every reachable state is well typed, and what is stored and under way is
\* the result of an execution.
THEOREM InvariantKept == Spec => []IInv
<1>1. Init => IInv
  <2>. SUFFICES ASSUME Init PROVE IInv
    OBVIOUS
  <2>1. sent \in [Instances -> Seq(Backed)] /\ sent \in [Instances -> Seq(Command)]
    BY EmptySeq DEF Init
  <2>2. 0 \in 0 .. MaxFaults
    BY IdempotencyAssumption
  <2>. QED
    BY <2>1, <2>2 DEF Init, IInv, TypeOK, StoredFaithful, ReplayFaithful
<1>. QED
  BY <1>1, Inductive, PTL DEF Spec

\* Every reachable state is well typed.
THEOREM TypeCorrect == Spec => []TypeOK
<1>1. IInv => TypeOK
  BY DEF IInv
<1>. QED
  BY <1>1, InvariantKept, PTL

\* Every answer is the result of an execution of the body that was sent.
THEOREM RepliesFaithful == Spec => []ReplayFaithful
<1>1. IInv => ReplayFaithful
  BY DEF IInv
<1>. QED
  BY <1>1, InvariantKept, PTL

\* What Redis stores, and what is on its way there, is the result of an
\* execution, under the hash of that execution's body.
THEOREM StoredSound == Spec => []StoredFaithful
<1>1. IInv => StoredFaithful
  BY DEF IInv
<1>. QED
  BY <1>1, InvariantKept, PTL

-----------------------------------------------------------------------------
\* The two commands of a request.
Get(r) == [op |-> "get", of |-> r]
Put(r) == [op |-> "set", of |-> r]

\* Wherever r's GET is in the queue of its instance, a SETEX of a response to
\* r's body is before it.
Ahead(r) ==
    \A k \in 1 .. Len(sent[at[r]]) : sent[at[r]][k] = Get(r) =>
        \E j \in 1 .. (k - 1) : /\ sent[at[r]][j].op = "set"
                                /\ body[sent[at[r]][j].of] = body[r]

\* Commands are of requests that came; a result that is kept is stored or on
\* its way; a request that is owed a replay has not been executed, and will
\* find the response when its GET is answered.
Owing ==
    /\ \A i \in Instances : \A k \in 1 .. Len(sent[i]) : pc[sent[i][k].of] # "new"
    /\ kept \subseteq executed
    /\ \A q \in kept : \/ Stored(body[q])
                       \/ \E k \in 1 .. Len(sent[at[q]]) : sent[at[q]][k] = Put(q)
    /\ \A r \in owed : pc[r] \in {"check", "done"} /\ r \notin executed
    /\ \A r \in owed : pc[r] = "check" => Stored(body[r]) \/ Ahead(r)

\* Requests that came have an instance and a body.
LEMMA Placed ==
    ASSUME IInv, NEW r \in Requests, pc[r] # "new"
    PROVE  at[r] \in Instances /\ body[r] \in Bodies
BY DEF IInv, TypeOK, StoredFaithful

\* What a queue holds.
LEMMA Queued ==
    ASSUME IInv, Owing, NEW i \in Instances
    PROVE  /\ Len(sent[i]) \in Nat
           /\ DOMAIN sent[i] = 1 .. Len(sent[i])
           /\ sent[i] # <<>> => Len(sent[i]) # 0 /\ Head(sent[i]) = sent[i][1]
           /\ \A k \in 1 .. Len(sent[i]) :
                  /\ sent[i][k] \in Backed
                  /\ sent[i][k] \in Command
                  /\ pc[sent[i][k].of] # "new"
<1>1. sent[i] \in Seq(Backed)
  BY DEF IInv, StoredFaithful
<1>2. Backed \subseteq Command
  BY DEF Backed
<1>. HIDE DEF Backed
<1>. QED
  BY <1>1, <1>2 DEF Owing

\* The oldest command leaves the queue of i, the others move up.
LEMMA MoveUp ==
    ASSUME IInv, Owing, NEW i \in Instances, sent[i] # <<>>, Pop(i)
    PROVE  /\ Len(sent'[i]) = Len(sent[i]) - 1
           /\ \A k \in 1 .. Len(sent'[i]) : sent'[i][k] = sent[i][k + 1]
           /\ \A j \in Instances \ {i} : sent'[j] = sent[j]
<1>1. sent[i] \in Seq(Backed) /\ sent' = [sent EXCEPT ![i] = Tail(sent[i])]
  BY DEF IInv, StoredFaithful, Pop
<1>2. sent'[i] = Tail(sent[i]) /\ \A j \in Instances \ {i} : sent'[j] = sent[j]
  BY <1>1 DEF IInv, TypeOK
<1>. HIDE DEF Backed
<1>3. /\ Len(Tail(sent[i])) = Len(sent[i]) - 1
      /\ \A k \in 1 .. Len(Tail(sent[i])) : Tail(sent[i])[k] = sent[i][k + 1]
  BY <1>1, HeadTailProperties
<1>. QED
  BY <1>2, <1>3

\* A command joins the queue of i.
LEMMA Join ==
    ASSUME IInv, NEW i \in Instances, NEW c, sent' = [sent EXCEPT ![i] = Append(@, c)]
    PROVE  /\ Len(sent'[i]) = Len(sent[i]) + 1
           /\ \A k \in 1 .. Len(sent[i]) : sent'[i][k] = sent[i][k]
           /\ sent'[i][Len(sent[i]) + 1] = c
           /\ \A j \in Instances \ {i} : sent'[j] = sent[j]
<1>1. sent[i] \in Seq(Command) /\ sent'[i] = Append(sent[i], c)
  BY DEF IInv, TypeOK
<1>2. \A j \in Instances \ {i} : sent'[j] = sent[j]
  BY DEF IInv, TypeOK
<1>. HIDE DEF Command
<1>. QED
  BY <1>1, <1>2

\* What a pop keeps: a result that is kept is stored or on its way unless it
\* is the one that left, and a request finds its response unless a SETEX of
\* it is what left.
LEMMA PopOwing ==
    ASSUME IInv, Owing, NEW i \in Instances, sent[i] # <<>>, Pop(i),
           UNCHANGED <<at, body, entry>>
    PROVE  /\ \A j \in Instances : \A k \in 1 .. Len(sent'[j]) : pc[sent'[j][k].of] # "new"
           /\ \A q \in kept : sent[i][1] # Put(q) =>
                 \/ Stored(body[q])
                 \/ \E k \in 1 .. Len(sent'[at[q]]) : sent'[at[q]][k] = Put(q)
           /\ \A r \in owed :
                 /\ pc[r] = "check"
                 /\ ~(sent[i][1].op = "set" /\ body[sent[i][1].of] = body[r])
                 => Stored(body[r]) \/ Ahead(r)'
<1>0. /\ Len(sent'[i]) = Len(sent[i]) - 1
      /\ \A k \in 1 .. Len(sent'[i]) : sent'[i][k] = sent[i][k + 1]
      /\ \A j \in Instances \ {i} : sent'[j] = sent[j]
      /\ Len(sent[i]) \in Nat /\ Len(sent[i]) # 0
  BY MoveUp, Queued
<1>1. ASSUME NEW j \in Instances, NEW k \in 1 .. Len(sent'[j])
      PROVE  pc[sent'[j][k].of] # "new"
  <2>1. CASE j = i
    BY <1>0, <2>1, Queued
  <2>2. CASE j # i
    BY <1>0, <2>2, Queued
  <2>. QED
    BY <2>1, <2>2
<1>2. ASSUME NEW q \in kept, sent[i][1] # Put(q), ~Stored(body[q])
      PROVE  \E k \in 1 .. Len(sent'[at[q]]) : sent'[at[q]][k] = Put(q)
  <2>1. at[q] \in Instances
    BY Placed DEF Owing, IInv, TypeOK, StoredFaithful
  <2>2. PICK k \in 1 .. Len(sent[at[q]]) : sent[at[q]][k] = Put(q)
    BY <1>2 DEF Owing
  <2>3. CASE at[q] = i
    <3>1. k # 1
      BY <1>2, <2>2, <2>3
    <3>2. k - 1 \in 1 .. Len(sent'[i]) /\ sent'[i][k - 1] = sent[i][k]
      BY <1>0, <2>3, <3>1
    <3>. QED
      BY <2>2, <2>3, <3>2
  <2>4. CASE at[q] # i
    BY <1>0, <2>1, <2>2, <2>4
  <2>. QED
    BY <2>3, <2>4
<1>3. ASSUME NEW r \in owed, pc[r] = "check", ~Stored(body[r]),
             ~(sent[i][1].op = "set" /\ body[sent[i][1].of] = body[r])
      PROVE  Ahead(r)'
  <2>1. at[r] \in Instances /\ Ahead(r)
    BY <1>3, Placed DEF Owing, IInv, TypeOK
  <2>2. CASE at[r] = i
    <3>. SUFFICES ASSUME NEW k \in 1 .. Len(sent'[i]), sent'[i][k] = Get(r)
                  PROVE  \E j \in 1 .. (k - 1) : /\ sent'[i][j].op = "set"
                                                 /\ body[sent'[i][j].of] = body[r]
      BY <2>2 DEF Ahead, Get
    <3>1. k + 1 \in 1 .. Len(sent[i]) /\ sent[i][k + 1] = Get(r)
      BY <1>0
    <3>2. PICK j \in 1 .. k : sent[i][j].op = "set" /\ body[sent[i][j].of] = body[r]
      BY <2>1, <2>2, <3>1 DEF Ahead
    <3>3. j # 1
      BY <1>3, <3>2
    <3>4. j - 1 \in 1 .. (k - 1) /\ sent'[i][j - 1] = sent[i][j]
      BY <1>0, <3>3
    <3>. QED
      BY <3>2, <3>4
  <2>3. CASE at[r] # i
    BY <1>0, <2>1, <2>3 DEF Ahead, Get
  <2>. QED
    BY <2>2, <2>3
<1>. QED
  BY <1>1, <1>2, <1>3

\* A request comes: its GET is behind what is on its way.
LEMMA OwingStart ==
    ASSUME IInv, Owing, NEW r \in Requests, NEW i \in Instances, NEW b \in Bodies,
           Start(r, i, b)
    PROVE  Owing'
<1>1. /\ pc[r] = "new" /\ r \notin executed /\ r \notin owed
      /\ pc'[r] # "new" /\ at'[r] = i /\ body'[r] = b
      /\ \A q \in Requests \ {r} : pc'[q] = pc[q] /\ at'[q] = at[q] /\ body'[q] = body[q]
      /\ UNCHANGED <<entry, executed, kept>>
  BY DEF Start, Goto, IInv, TypeOK, StoredFaithful, Owing
<1>2. \A q \in executed : q \in Requests \ {r}
  BY <1>1 DEF IInv, TypeOK
<1>3. \A c \in Bodies : Stored(c)' = Stored(c)
  BY <1>1, <1>2 DEF Stored, IInv, StoredFaithful
<1>4. /\ \A j \in Instances : Len(sent[j]) \in Nat /\ Len(sent'[j]) \in Nat
      /\ \A j \in Instances : \A k \in 1 .. Len(sent[j]) : sent'[j][k] = sent[j][k]
      /\ \A j \in Instances : Len(sent[j]) <= Len(sent'[j])
      /\ \A j \in Instances : \A k \in 1 .. Len(sent'[j]) :
             \/ k \in 1 .. Len(sent[j])
             \/ j = i /\ up[i] /\ k = Len(sent[i]) + 1 /\ sent'[j][k] = Get(r)
  <2>0. \A j \in Instances : Len(sent[j]) \in Nat
    BY Queued
  <2>1. CASE ~up[i]
    <3>1. sent' = sent
      BY <2>1 DEF Start
    <3>. QED
      BY <2>0, <3>1
  <2>2. CASE up[i]
    <3>1. sent' = [sent EXCEPT ![i] = Append(@, Get(r))]
      BY <2>2 DEF Start, Get
    <3>2. /\ Len(sent'[i]) = Len(sent[i]) + 1
          /\ \A k \in 1 .. Len(sent[i]) : sent'[i][k] = sent[i][k]
          /\ sent'[i][Len(sent[i]) + 1] = Get(r)
          /\ \A j \in Instances \ {i} : sent'[j] = sent[j]
      BY <3>1, Join
    <3>. QED
      BY <2>0, <2>2, <3>2
  <2>. QED
    BY <2>1, <2>2
<1>5. \A j \in Instances : \A k \in 1 .. Len(sent[j]) : sent[j][k].of \in Requests \ {r}
  BY <1>1, Queued DEF Command
<1>6. \A j \in Instances : \A k \in 1 .. Len(sent'[j]) : pc'[sent'[j][k].of] # "new"
  BY <1>1, <1>4, <1>5, Queued DEF Get
<1>7. ASSUME NEW q \in kept
      PROVE  Stored(body[q])' \/ \E k \in 1 .. Len(sent'[at'[q]]) : sent'[at'[q]][k] = Put(q)
  <2>1. q \in Requests \ {r} /\ pc[q] # "new"
    BY <1>2 DEF Owing, IInv, StoredFaithful
  <2>2. at[q] \in Instances /\ body[q] \in Bodies /\ at'[q] = at[q] /\ body'[q] = body[q]
    BY <1>1, <2>1, Placed
  <2>3. CASE Stored(body[q])
    BY <1>3, <2>2, <2>3 DEF Stored
  <2>4. CASE \E k \in 1 .. Len(sent[at[q]]) : sent[at[q]][k] = Put(q)
    BY <1>4, <2>2, <2>4
  <2>. QED
    BY <2>3, <2>4 DEF Owing
<1>8. ASSUME NEW q \in owed, pc'[q] = "check"
      PROVE  Stored(body[q])' \/ Ahead(q)'
  <2>1. q \in Requests \ {r} /\ pc[q] = "check"
    BY <1>1, <1>8 DEF IInv, TypeOK
  <2>2. at[q] \in Instances /\ body[q] \in Bodies /\ at'[q] = at[q] /\ body'[q] = body[q]
    BY <1>1, <2>1, Placed
  <2>3. CASE Stored(body[q])
    BY <1>3, <2>2, <2>3 DEF Stored
  <2>4. CASE Ahead(q)
    <3>. SUFFICES ASSUME NEW k \in 1 .. Len(sent'[at[q]]), sent'[at[q]][k] = Get(q)
                  PROVE  \E j \in 1 .. (k - 1) : /\ sent'[at[q]][j].op = "set"
                                                 /\ body'[sent'[at[q]][j].of] = body[q]
      BY <2>2 DEF Ahead, Get
    <3>1. k \in 1 .. Len(sent[at[q]]) /\ sent[at[q]][k] = Get(q)
      BY <1>4, <2>1, <2>2 DEF Get
    <3>2. PICK j \in 1 .. (k - 1) : sent[at[q]][j].op = "set" /\ body[sent[at[q]][j].of] = body[q]
      BY <2>4, <3>1 DEF Ahead
    <3>3. j \in 1 .. Len(sent[at[q]])
      BY <1>4, <2>2, <3>1, <3>2
    <3>. QED
      BY <1>1, <1>4, <1>5, <2>2, <3>2, <3>3
  <2>. QED
    BY <2>1, <2>3, <2>4 DEF Owing
<1>9. ASSUME r \in owed', pc'[r] = "check" PROVE Stored(body[r])' \/ Ahead(r)'
  <2>1. up[i] /\ (Stored(b) \/ \E q \in kept : at[q] = i /\ body[q] = b)
    BY <1>1, <1>9 DEF Start
  <2>2. CASE Stored(b)
    BY <1>1, <1>3, <2>2 DEF Stored
  <2>3. CASE ~Stored(b)
    <3>1. PICK q \in kept : at[q] = i /\ body[q] = b
      BY <2>1, <2>3
    <3>2. PICK j \in 1 .. Len(sent[i]) : sent[i][j] = Put(q)
      BY <2>3, <3>1 DEF Owing
    <3>3. q \in Requests \ {r}
      BY <1>2 DEF Owing
    <3>4. sent'[i][j].op = "set" /\ body'[sent'[i][j].of] = b
      BY <1>1, <1>4, <3>1, <3>2, <3>3 DEF Put
    <3>5. ASSUME NEW k \in 1 .. Len(sent'[i]), sent'[i][k] = Get(r)
          PROVE  j \in 1 .. (k - 1)
      <4>1. k \notin 1 .. Len(sent[i])
        BY <1>4, <1>5, <3>5 DEF Get
      <4>. QED
        BY <1>4, <3>2, <4>1
    <3>. QED
      BY <1>1, <3>4, <3>5 DEF Ahead, Get
  <2>. QED
    BY <2>2, <2>3
<1>10. \A q \in owed' : pc'[q] \in {"check", "done"} /\ q \notin executed'
  <2>1. up[i] => pc'[r] = "check"
    BY DEF Start, Goto, IInv, TypeOK
  <2>2. owed' = owed \/ (owed' = owed \cup {r} /\ up[i])
    BY DEF Start
  <2>3. \A q \in owed : pc'[q] = pc[q] /\ pc[q] \in {"check", "done"} /\ q \notin executed
    BY <1>1 DEF Owing, IInv, TypeOK
  <2>. QED
    BY <1>1, <2>1, <2>2, <2>3
<1>11. \A q \in owed' : q \in owed \/ q = r
  BY DEF Start
<1>. QED
  BY <1>1, <1>6, <1>7, <1>8, <1>9, <1>10, <1>11 DEF Owing

\* Its GET is answered: if it is owed a replay, the response is there.
LEMMA OwingRead ==
    ASSUME IInv, Owing, NEW r \in Requests, Read(r)
    PROVE  Owing'
<1>1. /\ at[r] \in Instances /\ sent[at[r]] # <<>> /\ Pop(at[r]) /\ pc[r] = "check"
      /\ UNCHANGED <<at, body, entry, executed, kept, owed>>
  BY AnswersBacked DEF Read, Answers, requestVars, historyVars
<1>2. sent[at[r]][1] = Get(r) /\ Len(sent[at[r]]) \in Nat \ {0}
  BY <1>1, Queued DEF Read, Answers, Get
<1>3. r \in owed => Matches(body[r])
  <2>1. ~Ahead(r)
    BY <1>2 DEF Ahead
  <2>. QED
    BY <1>1, <2>1 DEF Owing, Stored, Matches, IInv, StoredFaithful
<1>4. /\ pc'[r] \in {"handle", "done"}
      /\ r \in owed => pc'[r] = "done"
      /\ \A q \in Requests \ {r} : pc'[q] = pc[q]
  BY <1>3 DEF Read, Goto, IInv, TypeOK
<1>5. /\ \A j \in Instances : \A k \in 1 .. Len(sent'[j]) : pc[sent'[j][k].of] # "new"
      /\ \A q \in kept : \/ Stored(body[q])
                         \/ \E k \in 1 .. Len(sent'[at[q]]) : sent'[at[q]][k] = Put(q)
      /\ \A q \in owed : pc[q] = "check" => Stored(body[q]) \/ Ahead(q)'
  <2>1. sent[at[r]][1].op # "set" /\ \A q : sent[at[r]][1] # Put(q)
    BY <1>2 DEF Get, Put
  <2>. QED
    BY <1>1, <2>1, PopOwing
<1>6. \A j \in Instances : \A k \in 1 .. Len(sent'[j]) : sent'[j][k].of \in Requests
  <2>1. /\ Len(sent'[at[r]]) = Len(sent[at[r]]) - 1
        /\ \A k \in 1 .. Len(sent'[at[r]]) : sent'[at[r]][k] = sent[at[r]][k + 1]
        /\ \A j \in Instances \ {at[r]} : sent'[j] = sent[j]
    BY <1>1, MoveUp
  <2>2. \A j \in Instances : \A k \in 1 .. Len(sent[j]) : sent[j][k].of \in Requests
    BY Queued DEF Command
  <2>3. \A k \in 1 .. Len(sent'[at[r]]) : k + 1 \in 1 .. Len(sent[at[r]])
    BY <1>2, <2>1
  <2>4. \A k \in 1 .. Len(sent'[at[r]]) : sent'[at[r]][k].of \in Requests
    BY <1>1, <2>1, <2>2, <2>3
  <2>. QED
    BY <2>1, <2>2, <2>4
<1>. QED
  BY <1>1, <1>4, <1>5, <1>6 DEF Owing, Stored, IInv, TypeOK

\* Its handler returns: the result is on its way.
LEMMA OwingReturns ==
    ASSUME IInv, Owing, NEW r \in Requests, HandlerReturns(r)
    PROVE  Owing'
<1>1. /\ pc[r] = "handle" /\ r \notin owed
      /\ pc' = [pc EXCEPT ![r] = "done"]
      /\ executed' = executed \cup {r} /\ at[r] \in Instances
      /\ UNCHANGED <<at, body, entry, owed>>
  BY Placed DEF HandlerReturns, Goto, requestVars, Owing
<1>2. /\ \A j \in Instances : \A k \in 1 .. Len(sent[j]) : sent'[j][k] = sent[j][k]
      /\ \A j \in Instances : Len(sent[j]) \in Nat /\ Len(sent[j]) <= Len(sent'[j])
      /\ \A j \in Instances : Len(sent'[j]) \in Nat
      /\ \A j \in Instances : \A k \in 1 .. Len(sent'[j]) :
             k \in 1 .. Len(sent[j]) \/ sent'[j][k] = Put(r)
      /\ kept' = kept \/ (/\ kept' = kept \cup {r}
                          /\ Len(sent[at[r]]) + 1 \in 1 .. Len(sent'[at[r]])
                          /\ sent'[at[r]][Len(sent[at[r]]) + 1] = Put(r))
  <2>0. \A j \in Instances : Len(sent[j]) \in Nat
    BY Queued
  <2>1. CASE ~up[at[r]]
    <3>1. sent' = sent /\ kept' = kept
      BY <2>1 DEF HandlerReturns
    <3>. QED
      BY <2>0, <3>1
  <2>2. CASE up[at[r]]
    <3>1. sent' = [sent EXCEPT ![at[r]] = Append(@, Put(r))] /\ kept' = kept \cup {r}
      BY <2>2 DEF HandlerReturns, Put
    <3>2. /\ Len(sent'[at[r]]) = Len(sent[at[r]]) + 1
          /\ \A k \in 1 .. Len(sent[at[r]]) : sent'[at[r]][k] = sent[at[r]][k]
          /\ sent'[at[r]][Len(sent[at[r]]) + 1] = Put(r)
          /\ \A j \in Instances \ {at[r]} : sent'[j] = sent[j]
      BY <1>1, <3>1, Join
    <3>. QED
      BY <1>1, <2>0, <3>1, <3>2
  <2>. QED
    BY <2>1, <2>2
<1>3. \A j \in Instances : \A k \in 1 .. Len(sent'[j]) : pc'[sent'[j][k].of] # "new"
  BY <1>1, <1>2, Queued DEF Put, IInv, TypeOK, Command
<1>4. ASSUME NEW q \in kept'
      PROVE  Stored(body[q])' \/ \E k \in 1 .. Len(sent'[at[q]]) : sent'[at[q]][k] = Put(q)
  <2>1. CASE q \in kept
    <3>1. at[q] \in Instances
      BY <2>1, Placed DEF Owing, IInv, TypeOK, StoredFaithful
    <3>. QED
      BY <1>1, <1>2, <2>1, <3>1 DEF Owing, Stored
  <2>2. CASE q \notin kept
    BY <1>2, <2>2
  <2>. QED
    BY <2>1, <2>2
<1>5. ASSUME NEW q \in owed, pc'[q] = "check" PROVE Stored(body[q])' \/ Ahead(q)'
  <2>1. q \in Requests /\ pc[q] = "check"
    BY <1>1, <1>5 DEF IInv, TypeOK
  <2>2. at[q] \in Instances
    BY <2>1, Placed
  <2>3. ASSUME Ahead(q) PROVE Ahead(q)'
    <3>. SUFFICES ASSUME NEW k \in 1 .. Len(sent'[at[q]]), sent'[at[q]][k] = Get(q)
                  PROVE  \E j \in 1 .. (k - 1) : /\ sent'[at[q]][j].op = "set"
                                                 /\ body[sent'[at[q]][j].of] = body[q]
      BY <1>1 DEF Ahead, Get
    <3>1. k \in 1 .. Len(sent[at[q]]) /\ sent[at[q]][k] = Get(q)
      BY <1>2, <2>2 DEF Get, Put
    <3>2. PICK j \in 1 .. (k - 1) : sent[at[q]][j].op = "set" /\ body[sent[at[q]][j].of] = body[q]
      BY <2>3, <3>1 DEF Ahead
    <3>3. j \in 1 .. Len(sent[at[q]])
      BY <1>2, <2>2, <3>1, <3>2
    <3>. QED
      BY <1>2, <2>2, <3>2, <3>3
  <2>. QED
    BY <1>1, <2>1, <2>3 DEF Owing, Stored
<1>6. kept' \subseteq executed'
  BY <1>1, <1>2 DEF Owing
<1>7. \A q \in owed' : pc'[q] \in {"check", "done"} /\ q \notin executed'
  BY <1>1 DEF Owing, IInv, TypeOK
<1>. QED
  BY <1>1, <1>3, <1>4, <1>5, <1>6, <1>7 DEF Owing

\* A result is stored: whatever is kept and owed is of its body.
LEMMA OwingStore ==
    ASSUME IInv, Owing, NEW r \in Requests, Store(r) \/ StoreAnswerLost(r)
    PROVE  Owing'
<1>1. /\ UNCHANGED <<pc, at, body, executed>> /\ Write(r) /\ at[r] \in Instances
  BY AnswersBacked DEF Store, StoreAnswerLost, requestVars
<1>2. /\ \A q \in kept' : q \in kept /\ Stored(body[q])'
      /\ \A q \in owed' : q \in owed /\ Stored(body[q])'
  <2>0. body[r] \in Bodies
    BY AnswersBacked, Placed DEF Store, StoreAnswerLost, IInv, StoredFaithful
  <2>1. entry' # None /\ entry'.response = r
    BY EntryAssumption, <1>1, <2>0 DEF Write, Entry
  <2>. QED
    BY <1>1, <2>1 DEF Write, Stored
<1>3. \A j \in Instances : \A k \in 1 .. Len(sent'[j]) : pc'[sent'[j][k].of] # "new"
  <2>1. CASE Store(r)
    <3>1. /\ Len(sent[at[r]]) \in Nat
          /\ Len(sent'[at[r]]) = Len(sent[at[r]]) - 1
          /\ \A k \in 1 .. Len(sent'[at[r]]) : sent'[at[r]][k] = sent[at[r]][k + 1]
          /\ \A j \in Instances \ {at[r]} : sent'[j] = sent[j]
      BY <1>1, <2>1, MoveUp, Queued DEF Store, Answers
    <3>2. \A k \in 1 .. Len(sent'[at[r]]) : k + 1 \in 1 .. Len(sent[at[r]])
      BY <3>1
    <3>. QED
      BY <1>1, <3>1, <3>2 DEF Owing
  <2>2. CASE StoreAnswerLost(r)
    BY <1>1, <2>2 DEF StoreAnswerLost, Owing
  <2>. QED
    BY <2>1, <2>2
<1>. QED
  BY <1>1, <1>2, <1>3 DEF Owing

\* A command fails, and excuses the requests that counted on it.
LEMMA OwingFails ==
    ASSUME IInv, Owing, NEW i \in Instances, CommandFails(i)
    PROVE  Owing'
<1>. DEFINE c == sent[i][1]
<1>1. /\ sent[i] # <<>> /\ Pop(i) /\ UNCHANGED <<at, body, entry, executed>>
      /\ Head(sent[i]) = c /\ Reject(<<c>>)
  BY Queued DEF CommandFails, requestVars
<1>2. c \in Backed /\ c \in Command /\ pc[c.of] # "new"
  BY <1>1, Queued
<1>. HIDE DEF c
<1>3. /\ \A j \in Instances : \A k \in 1 .. Len(sent'[j]) : pc[sent'[j][k].of] # "new"
      /\ \A q \in kept : c # Put(q) =>
            \/ Stored(body[q])
            \/ \E k \in 1 .. Len(sent'[at[q]]) : sent'[at[q]][k] = Put(q)
      /\ \A q \in owed : pc[q] = "check" /\ ~(c.op = "set" /\ body[c.of] = body[q])
            => Stored(body[q]) \/ Ahead(q)'
  BY <1>1, PopOwing DEF c
<1>4. Asking(<<c>>) = {r \in Requests : pc[r] = "check" /\ c = Get(r)}
  BY DEF Asking, Get
<1>5. Storing(<<c>>) = {r \in Requests : c = Put(r)}
  BY DEF Storing, Put
<1>6. \A q \in kept' : q \in kept /\ c # Put(q)
  BY <1>1, <1>5 DEF Reject, IInv, TypeOK
<1>7. \A q \in owed' : q \in owed /\ q \notin Asking(<<c>>)
                       /\ (Stored(body[q]) \/ ~(c.op = "set" /\ body[c.of] = body[q]))
  <2>1. c.op = "set" => c = Put(c.of) /\ c.of \in Requests
    BY <1>2 DEF Command, Put
  <2>. QED
    BY <1>1, <1>5, <2>1 DEF Reject
<1>8. \A q \in Requests : /\ q \notin Asking(<<c>>) => pc'[q] = pc[q]
                          /\ pc'[q] = "new" => pc[q] = "new"
  BY <1>1 DEF Reject
<1>9. \A j \in Instances : \A k \in 1 .. Len(sent'[j]) : sent'[j][k].of \in Requests
  <2>1. /\ Len(sent'[i]) = Len(sent[i]) - 1 /\ Len(sent[i]) \in Nat
        /\ \A k \in 1 .. Len(sent'[i]) : sent'[i][k] = sent[i][k + 1]
        /\ \A j \in Instances \ {i} : sent'[j] = sent[j]
    BY <1>1, MoveUp, Queued
  <2>2. ASSUME NEW j \in Instances, NEW k \in 1 .. Len(sent[j])
        PROVE  sent[j][k].of \in Requests
    <3>1. sent[j][k] \in Command
      BY Queued
    <3>. QED
      BY <3>1 DEF Command
  <2>3. ASSUME NEW k \in 1 .. Len(sent'[i]) PROVE sent'[i][k].of \in Requests
    <3>1. k + 1 \in 1 .. Len(sent[i]) /\ sent'[i][k] = sent[i][k + 1]
      BY <2>1
    <3>. QED
      BY <3>1, <2>2
  <2>4. ASSUME NEW j \in Instances \ {i}, NEW k \in 1 .. Len(sent'[j])
        PROVE  sent'[j][k].of \in Requests
    BY <2>1, <2>2
  <2>. QED
    BY <2>3, <2>4
<1>10. \A j \in Instances : \A k \in 1 .. Len(sent'[j]) : pc'[sent'[j][k].of] # "new"
  BY <1>3, <1>8, <1>9
<1>11. \A b \in Bodies : Stored(b)' = Stored(b)
  BY <1>1 DEF Stored
<1>12. owed \subseteq Requests
  BY DEF IInv, TypeOK
<1>. QED
  BY <1>1, <1>3, <1>6, <1>7, <1>8, <1>10, <1>12 DEF Owing, Stored

\* All commands of an instance are lost, with a flush or with the instance.
LEMMA OwingLost ==
    ASSUME IInv, Owing, NEW i \in Instances, Flush(i) \/ Crash(i)
    PROVE  Owing'
<1>1. /\ UNCHANGED <<at, body, entry, executed>>
      /\ sent' = [sent EXCEPT ![i] = <<>>]
  BY DEF Flush, Crash, requestVars
<1>2. /\ Len(sent'[i]) = 0
      /\ \A j \in Instances \ {i} : sent'[j] = sent[j]
  BY <1>1 DEF IInv, TypeOK
<1>3. /\ \A q \in Requests : pc'[q] = "new" => pc[q] = "new"
      /\ \A q \in owed' : q \in owed /\ (pc'[q] = pc[q] \/ (pc[q] = "check" /\ pc'[q] = "done"))
  BY DEF Flush, Crash, Reject, Asking, IInv, TypeOK
<1>4. \A q \in kept' : q \in kept /\ q \notin Storing(sent[i])
  BY DEF Flush, Crash, Reject
<1>5. \A j \in Instances : \A k \in 1 .. Len(sent[j]) : sent[j][k].of \in Requests
  BY Queued DEF Command
<1>6. \A j \in Instances : \A k \in 1 .. Len(sent'[j]) : pc'[sent'[j][k].of] # "new"
  BY <1>2, <1>3, <1>5, Queued
<1>7. ASSUME NEW q \in kept'
      PROVE  Stored(body[q]) \/ \E k \in 1 .. Len(sent'[at[q]]) : sent'[at[q]][k] = Put(q)
  <2>1. q \in kept /\ at[q] \in Instances /\ q \in Requests
    BY <1>4, Placed DEF Owing, IInv, TypeOK, StoredFaithful
  <2>2. CASE at[q] = i
    <3>1. ~\E k \in 1 .. Len(sent[i]) : sent[i][k] = Put(q)
      BY <1>4, <2>1, Queued DEF Storing, Put
    <3>. QED
      BY <2>1, <2>2, <3>1 DEF Owing
  <2>3. CASE at[q] # i
    BY <1>2, <2>1, <2>3 DEF Owing
  <2>. QED
    BY <2>2, <2>3
<1>8. ASSUME NEW q \in owed', pc'[q] = "check" PROVE Stored(body[q]) \/ Ahead(q)'
  <2>1. q \in owed /\ pc[q] = "check" /\ q \in Requests
    BY <1>3, <1>8 DEF IInv, TypeOK
  <2>2. at[q] \in Instances
    BY <2>1, Placed
  <2>3. CASE at[q] = i
    BY <1>1, <1>2, <2>3 DEF Ahead
  <2>4. CASE at[q] # i
    BY <1>1, <1>2, <2>1, <2>2, <2>4 DEF Owing, Ahead, Get
  <2>. QED
    BY <2>3, <2>4
<1>. QED
  BY <1>1, <1>3, <1>4, <1>6, <1>7, <1>8 DEF Owing, Stored

\* What a request is owed is carried through every step.
LEMMA OwingKept == IInv /\ Owing /\ [Next]_vars => Owing'
<1>. SUFFICES ASSUME IInv, Owing, [Next]_vars PROVE Owing'
  OBVIOUS
<1>1. ASSUME UNCHANGED <<pc, at, body, entry, sent, executed, kept, owed>> PROVE Owing'
  BY <1>1 DEF Owing, Stored, Ahead, Get, Put
<1>2. ASSUME NEW r \in Requests, HandlerThrows(r) PROVE Owing'
  <2>1. /\ pc[r] = "handle" /\ pc' = [pc EXCEPT ![r] = "done"]
        /\ UNCHANGED <<at, body, entry, sent, executed, kept, owed>>
    BY <1>2 DEF HandlerThrows, Goto, requestVars, historyVars
  <2>2. \A q \in Requests : (pc'[q] = "new" => pc[q] = "new") /\ (q \in owed => pc'[q] = pc[q])
    BY <2>1 DEF Owing, IInv, TypeOK
  <2>3. \A j \in Instances : \A k \in 1 .. Len(sent[j]) : sent[j][k].of \in Requests
    BY Queued DEF Command
  <2>4. \A q \in Requests : Ahead(q)' = Ahead(q)
    BY <2>1 DEF Ahead, Get
  <2>5. /\ \A j \in Instances : \A k \in 1 .. Len(sent'[j]) : pc'[sent'[j][k].of] # "new"
        /\ \A q \in owed' : q \in owed /\ q \in Requests /\ pc'[q] = pc[q]
    BY <2>1, <2>2, <2>3 DEF Owing, IInv, TypeOK
  <2>. QED
    BY <2>1, <2>4, <2>5 DEF Owing, Stored, Put
<1>3. CASE Expire
  BY <1>3 DEF Expire, requestVars, Owing
<1>4. ASSUME NEW i \in Instances, LinkDown(i) \/ LinkUp(i) PROVE Owing'
  BY <1>1, <1>4 DEF LinkDown, LinkUp, requestVars, historyVars
<1>5. CASE Served \/ UNCHANGED vars
  BY <1>1, <1>5 DEF Served, vars
<1>. QED
  BY <1>2, <1>3, <1>4, <1>5, OwingStart, OwingRead, OwingReturns, OwingStore, OwingFails,
     OwingLost DEF Next

\* A request that comes while its response is stored, or is on its way from
\* the same instance, is replayed and not executed, for any number of
\* requests, bodies, instances and failures.
THEOREM OwedReplayed == Spec => []OwedIsReplayed
<1>1. Init => Owing
  <2>. SUFFICES ASSUME Init PROVE Owing
    OBVIOUS
  <2>1. \A i \in Instances : Len(sent[i]) = 0
    BY DEF Init
  <2>. QED
    BY <2>1 DEF Init, Owing
<1>2. Owing => OwedIsReplayed
  BY DEF Owing, OwedIsReplayed
<1>. QED
  BY <1>1, <1>2, OwingKept, InvariantKept, PTL DEF Spec
=============================================================================
