-------------------------- MODULE AuthSessionProofs --------------------------
(* Theorems about AuthSession, for any number of calls and any lifetimes. *)
EXTENDS AuthSession, TLAPS

\* A revoked token is neither stored nor about to be, and Redis keeps what is
\* stored for as long as it was told.
IInv == TypeOK /\ SessionSound /\ RevokedStays

-----------------------------------------------------------------------------
\* What a step does to the calls that are about to store: it takes one of
\* them back, or leaves all of them.
LEMMA ReturnType ==
    ASSUME TypeOK, NEW c \in Calls, Return(c)
    PROVE  /\ pc' \in [Calls -> Steps]
           /\ tok' \in [Calls -> Nat \cup {None}]
           /\ \A d \in Calls : pc'[d] \in {"read", "lookup", "store"} =>
                  pc[d] = pc'[d] /\ tok'[d] = tok[d] /\ tok'[d] \in Nat
BY SMT DEF TypeOK, Return, Goto, Steps

\* A call's move keeps the type of pc.
LEMMA GotoType ==
    ASSUME TypeOK, NEW c \in Calls, NEW step \in Steps \ {"read", "lookup", "store"},
           Goto(c, step), tok' = tok
    PROVE  /\ pc' \in [Calls -> Steps]
           /\ tok' \in [Calls -> Nat \cup {None}]
           /\ \A d \in Calls : pc'[d] \in {"read", "lookup", "store"} =>
                  pc[d] = pc'[d] /\ tok'[d] = tok[d] /\ tok'[d] \in Nat
BY SMT DEF TypeOK, Goto, Steps

\* An event leaves the count of events within its bound.
LEMMA EventType == ASSUME NEW e, Event(e), TypeOK PROVE faults' \in 0 .. MaxFaults
BY AuthAssumption, SMT DEF Event, TypeOK

\* A failed command sends a call on.
LEMMA FailsType == ASSUME Fails, TypeOK PROVE faults' \in 0 .. MaxFaults
BY EventType, SMT DEF Fails, TypeOK

\* A step that stores, deletes and signs nothing keeps the invariant.
LEMMA Quiet ==
    ASSUME IInv,
           UNCHANGED <<clock, stored, last, revoked>>,
           user' \in BOOLEAN, up' \in BOOLEAN,
           pc' \in [Calls -> Steps], tok' \in [Calls -> Nat \cup {None}],
           \A d \in Calls : pc'[d] \in {"read", "lookup", "store"} => tok'[d] \in Nat,
           \A d \in Calls : pc'[d] = "store" => pc[d] = "store" /\ tok'[d] = tok[d],
           handed' \subseteq Nat, unkept' \subseteq Nat, faults' \in 0 .. MaxFaults
    PROVE  IInv'
<1>1. TypeOK'
  BY SMT DEF IInv, TypeOK
<1>2. SessionSound'
  BY SMT DEF IInv, SessionSound
<1>3. RevokedStays'
  BY SMT DEF IInv, RevokedStays
<1>. QED BY <1>1, <1>2, <1>3 DEF IInv

\* Signing: the token is of this second and counts as new.
LEMMA SignKeeps ==
    ASSUME IInv, NEW c \in Calls, Sign(c), user' \in BOOLEAN
    PROVE  IInv'
<1>. USE AuthAssumption
<1>1. pc' \in [Calls -> Steps] /\ tok' \in [Calls -> Nat \cup {None}]
  BY SMT DEF IInv, TypeOK, Sign, Goto, Steps
<1>2. \A d \in Calls : pc'[d] \in {"read", "lookup", "store"} =>
          \/ d = c /\ tok'[d] = clock
          \/ pc[d] = pc'[d] /\ tok'[d] = tok[d]
  BY SMT DEF IInv, TypeOK, Sign, Goto, Steps
<1>3. TypeOK'
  BY <1>1, <1>2, SMT DEF IInv, TypeOK, Sign
<1>4. SessionSound'
  BY <1>2, SMT DEF IInv, TypeOK, SessionSound, Sign
<1>5. RevokedStays'
  BY SMT DEF IInv, RevokedStays, Sign
<1>. QED BY <1>3, <1>4, <1>5 DEF IInv

\* SETEX of a token that is about to be stored.
LEMMA PutKeeps ==
    ASSUME IInv, NEW c \in Calls, pc[c] = "store", PutToken(c),
           UNCHANGED <<clock, user, up>>,
           pc' \in [Calls -> Steps], tok' \in [Calls -> Nat \cup {None}],
           \A d \in Calls : pc'[d] \in {"read", "lookup", "store"} =>
               pc[d] = pc'[d] /\ tok'[d] = tok[d] /\ tok'[d] \in Nat,
           handed' \subseteq Nat, faults' \in 0 .. MaxFaults
    PROVE  IInv'
<1>. USE AuthAssumption, TokenAssumption
<1>1. tok[c] \in Nat /\ tok[c] <= clock /\ tok[c] \notin revoked /\ clock \in Nat
  BY SMT DEF IInv, TypeOK, SessionSound
<1>0. /\ revoked' \subseteq Nat /\ unkept' \subseteq Nat
      /\ \A d \in Calls : pc[d] = "store" /\ tok[d] \notin revoked => tok[d] \notin revoked'
  BY DEF IInv, TypeOK, PutToken, Revoke
<1>2. stored' \in Token /\ stored'.token = tok[c] /\ stored'.expireAt = clock + RedisTtl
  BY <1>1, SMT DEF PutToken, Token
<1>3. TypeOK'
  BY <1>0, <1>1, <1>2, SMT DEF IInv, TypeOK, PutToken
<1>4. stored' # None
  BY <1>2
<1>5. SessionSound'
  BY <1>0, <1>1, <1>2, <1>4, SMT DEF IInv, TypeOK, SessionSound, PutToken
<1>6. RevokedStays'
  BY <1>0, <1>1, <1>2, SMT DEF RevokedStays, PutToken
<1>. QED BY <1>3, <1>5, <1>6 DEF IInv

\* DEL revokes no token that is about to be stored.
LEMMA DropKeeps ==
    ASSUME IInv, DropToken,
           UNCHANGED <<clock, user, up, handed>>,
           pc' \in [Calls -> Steps], tok' \in [Calls -> Nat \cup {None}],
           \A d \in Calls : pc'[d] \in {"read", "lookup", "store"} =>
               pc[d] = pc'[d] /\ tok'[d] = tok[d] /\ tok'[d] \in Nat,
           faults' \in 0 .. MaxFaults
    PROVE  IInv'
<1>0. /\ revoked' \subseteq Nat /\ unkept' \subseteq Nat
      /\ stored' = None /\ last' = None
  BY DEF IInv, TypeOK, DropToken, Revoke
<1>1. TypeOK'
  BY <1>0, SMT DEF IInv, TypeOK
<1>2. SessionSound'
  BY SMT DEF IInv, TypeOK, SessionSound, DropToken, Revoke
<1>3. RevokedStays'
  BY DEF RevokedStays, DropToken
<1>. QED BY <1>1, <1>2, <1>3 DEF IInv

\* Time: a key expires no sooner than RedisTtl seconds after the signature.
LEMMA TickKeeps == IInv /\ Tick => IInv'
<1>. SUFFICES ASSUME IInv, Tick PROVE IInv'
  OBVIOUS
<1>. USE AuthAssumption, TokenAssumption
<1>1. clock \in Nat /\ clock' = clock + 1 /\ (stored' = stored \/ stored' = None)
  BY SMT DEF IInv, TypeOK, Tick
<1>2. stored # None => stored.token \in Nat /\ stored.expireAt \in Nat
  BY SMT DEF IInv, TypeOK, Token
<1>3. stored # None /\ stored' = None => stored.expireAt <= clock'
  BY <1>1, <1>2, SMT DEF Tick
<1>5. revoked' \subseteq revoked /\ handed' \subseteq handed /\ unkept' \subseteq unkept
  BY DEF Tick
<1>6. UNCHANGED <<user, up, pc, tok, last, faults>>
  BY DEF Tick
<1>4. TypeOK'
  BY <1>1, <1>5, <1>6, SMT DEF IInv, TypeOK
<1>7. SessionSound'
  <2>1. \A c \in Calls : pc'[c] = "store" => tok'[c] <= clock' /\ tok'[c] \notin revoked'
    BY <1>1, <1>5, <1>6, SMT DEF IInv, TypeOK, SessionSound
  <2>2. stored' # None => last' = stored'.token
    BY <1>1, <1>6 DEF IInv, SessionSound
  <2>3. ASSUME last # None, stored' = None PROVE last + RedisTtl <= clock'
    <3>1. last \in Nat
      BY <2>3 DEF IInv, TypeOK
    <3>2. CASE stored = None
      BY <3>1, <3>2, <2>3, <1>1, SMT DEF IInv, SessionSound
    <3>3. CASE stored # None
      BY <3>1, <3>3, <2>3, <1>1, <1>2, <1>3, SMT DEF IInv, SessionSound
    <3>. QED BY <3>2, <3>3
  <2>4. ASSUME last # None, stored' # None
        PROVE  last + RedisTtl <= stored'.expireAt
    BY <2>4, <1>1 DEF IInv, SessionSound
  <2>. QED BY <2>1, <2>2, <2>3, <2>4, <1>6 DEF SessionSound
<1>8. RevokedStays'
  BY <1>1, <1>5 DEF IInv, RevokedStays
<1>. QED BY <1>4, <1>7, <1>8 DEF IInv

-----------------------------------------------------------------------------
\* Every step keeps the invariant.
LEMMA Inductive == IInv /\ [Next]_vars => IInv'
<1>. SUFFICES ASSUME IInv, [Next]_vars PROVE IInv'
  OBVIOUS
<1>. USE DEF redisVars
<1>0. TypeOK
  BY DEF IInv
<1>1. ASSUME NEW c \in Calls, Register(c) \/ Login(c) \/ Logout(c) PROVE IInv'
  <2>1. PICK step \in Steps \ {"read", "lookup", "store"} : Goto(c, step)
    BY <1>1 DEF Register, Login, Logout, Steps
  <2>2. UNCHANGED <<clock, user, up, tok, redisVars, handed, faults>>
    BY <1>1 DEF Register, Login, Logout
  <2>3. user' \in BOOLEAN /\ up' \in BOOLEAN
    BY <1>0, <2>2 DEF TypeOK
  <2>4. handed' \subseteq Nat /\ unkept' \subseteq Nat /\ faults' \in 0 .. MaxFaults
    BY <1>0, <2>2 DEF TypeOK
  <2>. QED BY <1>0, <2>1, <2>2, <2>3, <2>4, Quiet, GotoType
<1>2. ASSUME NEW c \in Calls, NEW t \in handed, Refresh(c, t) PROVE IInv'
  <2>1. t \in Nat
    BY <1>0 DEF TypeOK
  <2>2. /\ pc' \in [Calls -> Steps]
        /\ tok' \in [Calls -> Nat \cup {None}]
        /\ \A d \in Calls : pc'[d] \in {"read", "lookup", "store"} => tok'[d] \in Nat
        /\ \A d \in Calls : pc'[d] = "store" => pc[d] = "store" /\ tok'[d] = tok[d]
    BY <1>0, <1>2, <2>1, SMT DEF TypeOK, Refresh, Goto, Steps
  <2>. QED BY <1>0, <1>2, <2>2, Quiet, SMT DEF TypeOK, Refresh
<1>3. ASSUME NEW c \in Calls, Find(c) \/ InsertFails(c) \/ Crash(c) \/ ReadFails(c)
      PROVE  IInv'
  <2>1. faults' \in 0 .. MaxFaults
    BY <1>0, <1>3, EventType, FailsType, SMT DEF TypeOK, Find, InsertFails, Crash, ReadFails
  <2>2. Return(c) \/ (Goto(c, "insert") /\ tok' = tok)
    BY <1>3 DEF Find, InsertFails, Crash, ReadFails
  <2>3. UNCHANGED <<clock, user, up, stored, last, revoked, handed>>
    BY <1>3 DEF Find, InsertFails, Crash, ReadFails
  <2>4. user' \in BOOLEAN /\ up' \in BOOLEAN
    BY <1>0, <2>3 DEF TypeOK
  <2>5. handed' \subseteq Nat /\ unkept' \subseteq Nat
    <3>1. unkept' = unkept \/ (pc[c] = "store" /\ unkept' = unkept \cup {tok[c]})
      BY <1>3 DEF Find, InsertFails, Crash, ReadFails
    <3>2. pc[c] = "store" => tok[c] \in Nat
      BY <1>0 DEF TypeOK
    <3>. QED BY <1>0, <2>3, <3>1, <3>2 DEF TypeOK
  <2>6. CASE Return(c)
    BY <1>0, <2>1, <2>3, <2>4, <2>5, <2>6, Quiet, ReturnType
  <2>7. CASE Goto(c, "insert") /\ tok' = tok
    BY <1>0, <2>1, <2>3, <2>4, <2>5, <2>7, Quiet, GotoType DEF Steps
  <2>. QED BY <2>2, <2>6, <2>7
<1>4. ASSUME NEW c \in Calls, Insert(c) \/ Validate(c) \/ Lookup(c) PROVE IInv'
  <2>1. Sign(c)
    BY <1>4 DEF Insert, Validate, Lookup
  <2>2. user' = TRUE \/ user' = user
    BY <1>4 DEF Insert, Validate, Lookup
  <2>3. user' \in BOOLEAN
    BY <1>0, <2>2 DEF TypeOK
  <2>. QED BY <2>1, <2>3, SignKeeps
<1>5. ASSUME NEW c \in Calls, Compare(c) PROVE IInv'
  <2>1. CASE Return(c)
    BY <1>0, <1>5, <2>1, Quiet, ReturnType, SMT DEF TypeOK, Compare
  <2>2. CASE Goto(c, "lookup") /\ tok' = tok
    <3>1. /\ pc' \in [Calls -> Steps]
          /\ \A d \in Calls : pc'[d] \in {"read", "lookup", "store"} => tok'[d] \in Nat
          /\ \A d \in Calls : pc'[d] = "store" => pc[d] = "store" /\ tok'[d] = tok[d]
      BY <1>0, <1>5, <2>2, SMT DEF TypeOK, Compare, Goto, Steps
    <3>. QED BY <1>0, <1>5, <2>2, <3>1, Quiet, SMT DEF TypeOK, Compare
  <2>. QED BY <1>5, <2>1, <2>2 DEF Compare
<1>6. ASSUME NEW c \in Calls, Store(c) \/ StoreFails(c) PROVE IInv'
  <2>1. pc[c] = "store" /\ Return(c) /\ UNCHANGED <<clock, user, up>>
    BY <1>6 DEF Store, StoreFails, Answer
  <2>2. handed' \subseteq Nat
    <3>1. tok[c] \in Nat
      BY <1>0, <2>1, SMT DEF TypeOK
    <3>2. handed' \subseteq handed \cup {tok[c]}
      BY <1>6 DEF Store, StoreFails, Answer
    <3>. QED BY <1>0, <3>1, <3>2 DEF TypeOK
  <2>3. CASE Store(c)
    BY <1>0, <2>1, <2>2, <2>3, PutKeeps, ReturnType, SMT DEF TypeOK, Store
  <2>4. CASE StoreFails(c)
    <3>1. faults' \in 0 .. MaxFaults
      BY <1>0, <2>4, FailsType DEF StoreFails
    <3>2. unkept' \subseteq Nat
      BY <1>0, <2>1, <2>4 DEF StoreFails, TypeOK
    <3>. QED BY <1>0, <2>1, <2>2, <2>4, <3>1, <3>2, Quiet, ReturnType, SMT DEF TypeOK, StoreFails
  <2>. QED BY <1>6, <2>3, <2>4
<1>7. ASSUME NEW c \in Calls, Del(c) \/ DelFails(c) PROVE IInv'
  <2>1. Return(c) /\ UNCHANGED <<clock, user, up, handed>>
    BY <1>7 DEF Del, DelFails
  <2>2. CASE Del(c)
    BY <1>0, <2>1, <2>2, DropKeeps, ReturnType, SMT DEF TypeOK, Del
  <2>3. CASE DelFails(c)
    <3>1. faults' \in 0 .. MaxFaults
      BY <1>0, <2>3, FailsType DEF DelFails
    <3>. QED BY <1>0, <2>1, <2>3, <3>1, Quiet, ReturnType, SMT DEF TypeOK, DelFails
  <2>. QED BY <1>7, <2>2, <2>3
<1>8. ASSUME NEW c \in Calls, AnswerLost(c) PROVE IInv'
  <2>1. faults' \in 0 .. MaxFaults
    BY <1>0, <1>8, EventType DEF AnswerLost
  <2>2. CASE pc[c] = "store" /\ PutToken(c)
    BY <1>0, <1>8, <2>1, <2>2, PutKeeps, SMT DEF TypeOK, AnswerLost
  <2>3. CASE pc[c] = "del" /\ DropToken
    BY <1>0, <1>8, <2>1, <2>3, DropKeeps, SMT DEF TypeOK, AnswerLost
  <2>. QED BY <1>8, <2>2, <2>3 DEF AnswerLost
<1>9. ASSUME LinkDown \/ LinkUp PROVE IInv'
  <2>1. faults' \in 0 .. MaxFaults
    BY <1>0, <1>9, EventType DEF TypeOK, LinkDown, LinkUp
  <2>2. up' \in BOOLEAN
    BY <1>9 DEF LinkDown, LinkUp
  <2>3. UNCHANGED <<clock, user, pc, tok, redisVars, handed>>
    BY <1>9 DEF LinkDown, LinkUp
  <2>. QED BY <1>0, <2>1, <2>2, <2>3, Quiet, SMT DEF TypeOK
<1>10. CASE UNCHANGED vars
  BY <1>0, <1>10, Quiet, SMT DEF TypeOK, vars
<1>. QED
  BY <1>1, <1>2, <1>3, <1>4, <1>5, <1>6, <1>7, <1>8, <1>9, <1>10, TickKeeps
  DEF Next, Advance

\* The invariant from the initial state on.
LEMMA InvariantKept == Spec => []IInv
<1>1. Init => IInv
  <2>. SUFFICES ASSUME Init PROVE IInv
    OBVIOUS
  <2>1. \A c \in Calls : pc[c] = "idle"
    BY Zenon DEF Init
  <2>2. user \in BOOLEAN /\ up \in BOOLEAN
    BY DEF Init
  <2>3. TypeOK
    BY <2>1, <2>2, AuthAssumption, SMT DEF Init, TypeOK, Steps
  <2>4. SessionSound
    BY <2>1, SMT DEF Init, SessionSound
  <2>. QED BY <2>3, <2>4 DEF Init, IInv, RevokedStays
<1>. QED BY <1>1, Inductive, PTL DEF Spec

\* Types, whatever calls and failures there are.
THEOREM TypeCorrect == Spec => []TypeOK
<1>1. IInv => TypeOK
  BY DEF IInv
<1>. QED BY <1>1, InvariantKept, PTL

\* A token that clients held when the key was deleted or replaced is never
\* accepted again, for any number of logins, refreshes and logouts at once.
THEOREM RevocationLasts == Spec => []RevokedStays
<1>1. IInv => RevokedStays
  BY DEF IInv
<1>. QED BY <1>1, InvariantKept, PTL

\* The token stored last is there for as long as Redis was told to keep it, or
\* until a logout deletes it, whatever the two lives of a token are.
THEOREM SessionsLast == Spec => []KeptWhileValid
<1>1. IInv => KeptWhileValid
  <2>. SUFFICES ASSUME IInv, last # None, clock < last + RedisTtl
                PROVE  stored # None /\ stored.token = last
    BY DEF KeptWhileValid
  <2>1. last \in Nat /\ clock \in Nat
    BY DEF IInv, TypeOK
  <2>. QED BY <2>1, AuthAssumption, SMT DEF IInv, SessionSound
<1>. QED BY <1>1, InvariantKept, PTL

\* What the two rest on holds for any number of calls: nobody is about to
\* store a revoked token, and Redis keeps the token stored last as it was told.
THEOREM SessionsSound == Spec => []SessionSound
<1>1. IInv => SessionSound
  BY DEF IInv
<1>. QED BY <1>1, InvariantKept, PTL

-----------------------------------------------------------------------------
(***************************************************************************)
(* No client is left with a dead token without a cause.                    *)
(***************************************************************************)

\* A token that clients hold lasts through a step, unless it comes to be
\* revoked or unkept: it stays where it is accepted, or the call that is
\* about to store it goes on being so.
LEMMA StaysHonoured ==
    ASSUME HeldIsHonoured, NEW t \in handed, t \notin revoked', t \notin unkept',
           clock < t + RedisTtl,
           t \in revoked => t \in revoked', t \in unkept => t \in unkept',
           stored # None /\ stored.token = t => stored' # None /\ stored'.token = t,
           \A c \in Calls : pc[c] = "store" /\ tok[c] = t =>
               pc'[c] = "store" /\ tok'[c] = t
    PROVE  \/ stored' # None /\ stored'.token = t
           \/ \E c \in Calls : pc'[c] = "store" /\ tok'[c] = t
BY DEF HeldIsHonoured

\* SETEX and DEL revoke what clients hold, but for the token that is stored
\* and those that calls are about to store.
LEMMA ReplacedIsRevoked ==
    ASSUME NEW t \in handed, t \notin revoked', NEW c \in Calls,
           PutToken(c) \/ DropToken
    PROVE  \E d \in Calls : pc[d] = "store" /\ tok[d] = t
BY DEF PutToken, DropToken, Revoke

\* Every step keeps it.
LEMMA HonouredKept ==
    IInv /\ IInv' /\ HeldIsHonoured /\ [Next]_vars => HeldIsHonoured'
<1>. SUFFICES ASSUME IInv, IInv', HeldIsHonoured, [Next]_vars, NEW t \in handed',
                     t \notin revoked', t \notin unkept', clock' < t + RedisTtl
              PROVE  \/ stored' # None /\ stored'.token = t
                     \/ \E c \in Calls : pc'[c] = "store" /\ tok'[c] = t
  BY DEF HeldIsHonoured
<1>. DEFINE Honoured == \/ stored' # None /\ stored'.token = t
                        \/ \E c \in Calls : pc'[c] = "store" /\ tok'[c] = t
<1>. USE DEF redisVars
<1>0. TypeOK
  BY DEF IInv
<1>00. clock < t + RedisTtl
  <2>1. clock \in Nat /\ clock' \in Nat /\ t \in Nat /\ RedisTtl \in Nat
    BY AuthAssumption DEF IInv, TypeOK
  <2>2. clock <= clock'
    BY <2>1, SMT
    DEF Next, Advance, Register, Find, Insert, InsertFails, Login, Validate, Refresh, Compare,
        ReadFails, Lookup, Sign, Store, StoreFails, Logout, Del, DelFails, AnswerLost, Crash,
        LinkDown, LinkUp, Tick, vars
  <2>. QED BY <2>1, <2>2, SMT
<1>1. ASSUME UNCHANGED <<stored, revoked, unkept, handed>>,
             \A c \in Calls : pc[c] = "store" => pc'[c] = "store" /\ tok'[c] = tok[c]
      PROVE  Honoured
  BY <1>00, <1>1, StaysHonoured
<1>2. ASSUME NEW c \in Calls, Register(c) \/ Login(c) \/ Logout(c) \/ Find(c) \/ InsertFails(c)
                              \/ Compare(c) \/ ReadFails(c)
      PROVE  Honoured
  <2>1. pc[c] # "store" /\ \A d \in Calls \ {c} : pc'[d] = pc[d] /\ tok'[d] = tok[d]
    BY <1>0, <1>2
    DEF TypeOK, Register, Login, Logout, Find, InsertFails, Compare, ReadFails, Return, Goto
  <2>. QED BY <1>1, <1>2, <2>1
         DEF Register, Login, Logout, Find, InsertFails, Compare, ReadFails
<1>3. ASSUME NEW c \in Calls, NEW u \in handed, Refresh(c, u) PROVE Honoured
  <2>1. pc[c] # "store" /\ \A d \in Calls \ {c} : pc'[d] = pc[d] /\ tok'[d] = tok[d]
    BY <1>0, <1>3 DEF TypeOK, Refresh, Goto
  <2>. QED BY <1>1, <1>3, <2>1 DEF Refresh
<1>4. ASSUME NEW c \in Calls, Insert(c) \/ Validate(c) \/ Lookup(c) PROVE Honoured
  <2>1. pc[c] # "store" /\ Sign(c)
    BY <1>4 DEF Insert, Validate, Lookup
  <2>2. pc'[c] = "store" /\ tok'[c] = clock
        /\ \A d \in Calls \ {c} : pc'[d] = pc[d] /\ tok'[d] = tok[d]
    BY <1>0, <2>1 DEF TypeOK, Sign, Goto
  <2>3. CASE t = clock
    BY <2>2, <2>3
  <2>4. CASE t # clock
    BY <1>00, <2>1, <2>2, <2>4, StaysHonoured DEF Sign
  <2>. QED BY <2>3, <2>4
<1>5. ASSUME NEW c \in Calls, Store(c) PROVE Honoured
  <2>1. \A d \in Calls \ {c} : pc'[d] = pc[d] /\ tok'[d] = tok[d]
    BY <1>0, <1>5 DEF TypeOK, Store, Answer, Return, Goto
  <2>2. CASE t = tok[c]
    <3>1. tok[c] \in Nat /\ stored' = [token |-> tok[c], expireAt |-> clock + RedisTtl]
      BY <1>0, <1>5 DEF TypeOK, Store, PutToken
    <3>2. stored' \in Token
      BY <1>0, <3>1, AuthAssumption, SMT DEF Token, TypeOK
    <3>. QED BY <2>2, <3>1, <3>2, TokenAssumption
  <2>3. CASE t # tok[c]
    <3>1. t \in handed
      BY <1>5, <2>3 DEF Store, Answer
    <3>2. PICK d \in Calls : pc[d] = "store" /\ tok[d] = t
      BY <1>5, <3>1, ReplacedIsRevoked DEF Store
    <3>. QED BY <2>1, <2>3, <3>2
  <2>. QED BY <2>2, <2>3
<1>6. ASSUME NEW c \in Calls, StoreFails(c) \/ Crash(c) PROVE Honoured
  <2>1. \A d \in Calls \ {c} : pc'[d] = pc[d] /\ tok'[d] = tok[d]
    BY <1>0, <1>6 DEF TypeOK, StoreFails, Answer, Crash, Return, Goto
  <2>2. pc[c] = "store" => t # tok[c]
    BY <1>6 DEF StoreFails, Crash
  <2>3. t \in handed /\ t \notin unkept
    BY <1>6, <2>2 DEF StoreFails, Answer, Crash
  <2>. QED BY <1>00, <1>6, <2>1, <2>2, <2>3, StaysHonoured DEF StoreFails, Crash
<1>7. ASSUME NEW c \in Calls, Del(c) PROVE Honoured
  <2>1. pc[c] # "store" /\ t \in handed /\ DropToken
        /\ \A d \in Calls \ {c} : pc'[d] = pc[d] /\ tok'[d] = tok[d]
    BY <1>0, <1>7 DEF TypeOK, Del, Return, Goto
  <2>2. PICK d \in Calls : pc[d] = "store" /\ tok[d] = t
    BY <2>1, ReplacedIsRevoked
  <2>. QED BY <2>1, <2>2
<1>8. ASSUME NEW c \in Calls, DelFails(c) PROVE Honoured
  <2>1. pc[c] # "store" /\ \A d \in Calls \ {c} : pc'[d] = pc[d] /\ tok'[d] = tok[d]
    BY <1>0, <1>8 DEF TypeOK, DelFails, Return, Goto
  <2>. QED BY <1>1, <1>8, <2>1 DEF DelFails
<1>9. ASSUME NEW c \in Calls, AnswerLost(c) PROVE Honoured
  <2>1. PICK d \in Calls : pc[d] = "store" /\ tok[d] = t
    BY <1>9, ReplacedIsRevoked DEF AnswerLost
  <2>. QED BY <1>9, <2>1 DEF AnswerLost
<1>10. ASSUME Tick PROVE Honoured
  <2>1. /\ t \in handed /\ clock' < t + JwtTtl
        /\ clock' < t + RedisTtl /\ clock' = clock + 1
    BY <1>10 DEF Tick
  <2>2. ASSUME stored # None, stored.token = t PROVE stored' = stored
    <3>1. last = t /\ t + RedisTtl <= stored.expireAt /\ last # None
      BY <2>2, AuthAssumption DEF IInv, SessionSound, TypeOK
    <3>2. stored.expireAt \in Nat /\ clock \in Nat /\ t \in Nat /\ RedisTtl \in Nat
      BY <1>0, <2>1, <2>2, AuthAssumption DEF TypeOK, Token
    <3>3. ~(stored.expireAt <= clock + 1)
      BY <2>1, <3>1, <3>2, SMT
    <3>. QED BY <1>10, <3>3 DEF Tick
  <2>3. t \notin revoked /\ t \notin unkept
    BY <1>10, <2>1 DEF Tick
  <2>4. UNCHANGED <<pc, tok>>
    BY <1>10 DEF Tick
  <2>. QED BY <1>00, <2>1, <2>2, <2>3, <2>4, StaysHonoured
<1>11. CASE LinkDown \/ LinkUp \/ UNCHANGED vars
  BY <1>1, <1>11 DEF LinkDown, LinkUp, vars
<1>. QED
  BY <1>2, <1>3, <1>4, <1>5, <1>6, <1>7, <1>8, <1>9, <1>10, <1>11 DEF Next, Advance

\* A client's refresh token is accepted, or is about to be, unless it was
\* revoked or its store failed, for any number of calls and failures.
THEOREM TokensHonoured == Spec => []HeldIsHonoured
<1>1. Init => HeldIsHonoured
  BY DEF Init, HeldIsHonoured
<1>. QED BY <1>1, HonouredKept, InvariantKept, PTL DEF Spec
=============================================================================
