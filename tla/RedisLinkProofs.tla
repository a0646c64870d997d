--------------------------- MODULE RedisLinkProofs ---------------------------
(***************************************************************************)
(* Proofs about RedisLink for any number of commands, of probes, of failed *)
(* attempts and of changes of the server.                                  *)
(***************************************************************************)
EXTENDS RedisLink, TLAPS

-----------------------------------------------------------------------------
\* Losing the link keeps the attempts in bounds and only drops promises.
LEMMA CloseType ==
    ASSUME TypeOK, Close
    PROVE  /\ status' = "reconnecting"
           /\ isConnected' = FALSE
           /\ attempts' \in 0 .. MaxRetriesPerRequest
           /\ sent' \subseteq sent
<1>1. attempts # MaxRetriesPerRequest => attempts + 1 \in 0 .. MaxRetriesPerRequest
  BY LinkAssumption DEF TypeOK
<1>2. 0 \in 0 .. MaxRetriesPerRequest
  BY LinkAssumption
<1>. QED
  BY <1>1, <1>2 DEF Close

\* A change or a drop stays within its bound.
LEMMA ChangesType ==
    ASSUME TypeOK, changes < MaxChanges, changes' = changes + 1
    PROVE  changes' \in 0 .. MaxChanges
BY LinkAssumption DEF TypeOK

\* Every reachable state is well typed: in particular at most
\* MaxRetriesPerRequest failed attempts pass before the queue is flushed.
THEOREM TypeCorrect == Spec => []TypeOK
<1>. 0 \in 0 .. MaxRetriesPerRequest /\ 0 \in 0 .. MaxChanges
  BY LinkAssumption
<1>1. Init => TypeOK
  BY DEF Init, TypeOK
<1>2. TypeOK /\ [Next]_vars => TypeOK'
  <2>. SUFFICES ASSUME TypeOK, [Next]_vars PROVE TypeOK'
    OBVIOUS
  <2>1. ASSUME NEW c \in Calls, Ask(c) \/ Answer(c) PROVE TypeOK'
    BY <2>1 DEF Ask, Answer, Send, TypeOK
  <2>2. ASSUME NEW k \in Probes, Ping(k) \/ Pong(k) PROVE TypeOK'
    BY <2>2 DEF Ping, Pong, Send, TypeOK
  <2>3. CASE Connect \/ Ready \/ Reconnect
    BY <2>3 DEF Connect, Ready, Reconnect, TypeOK
  <2>4. CASE LinkFails
    BY <2>4, CloseType DEF LinkFails, TypeOK
  <2>5. CASE LinkDrops
    BY <2>5, CloseType, ChangesType DEF LinkDrops, TypeOK
  <2>6. CASE ServerChanges
    BY <2>6, ChangesType DEF ServerChanges, TypeOK
  <2>7. CASE UNCHANGED vars
    BY <2>7 DEF vars, TypeOK
  <2>. QED
    BY <2>1, <2>2, <2>3, <2>4, <2>5, <2>6, <2>7 DEF Next
<1>. QED
  BY <1>1, <1>2, PTL DEF Spec

\* The flag the services read is up only while the client is ready, in
\* whatever order events and probes come.
THEOREM FlagIsSound == Spec => []FlagSound
<1>1. Init => FlagSound
  BY DEF Init, FlagSound
<1>2. TypeOK /\ FlagSound /\ [Next]_vars => FlagSound'
  <2>. SUFFICES ASSUME TypeOK, FlagSound, [Next]_vars PROVE FlagSound'
    OBVIOUS
  <2>1. ASSUME NEW c \in Calls, Ask(c) \/ Answer(c) PROVE FlagSound'
    BY <2>1 DEF Ask, Answer, Send, FlagSound
  <2>2. ASSUME NEW k \in Probes, Ping(k) \/ Pong(k) PROVE FlagSound'
    BY <2>2 DEF Ping, Pong, Send, FlagSound
  <2>3. CASE Connect \/ Ready \/ Reconnect
    BY <2>3 DEF Connect, Ready, Reconnect, FlagSound
  <2>4. CASE LinkFails \/ LinkDrops
    BY <2>4, CloseType DEF LinkFails, LinkDrops, FlagSound
  <2>5. CASE ServerChanges \/ UNCHANGED vars
    BY <2>5 DEF ServerChanges, vars, FlagSound
  <2>. QED
    BY <2>1, <2>2, <2>3, <2>4, <2>5 DEF Next
<1>. QED
  BY <1>1, <1>2, TypeCorrect, PTL DEF Spec
=============================================================================
