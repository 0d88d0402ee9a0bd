---------------------- MODULE MemoryApprovalStoreProofs ----------------------
(***************************************************************************)
(* For every set of processes, approvals and plans, and every bound: where *)
(* each process has one thread, the in-memory store grants an id once in a *)
(* lifetime, and its set holds the granted ids and no other.               *)
(***************************************************************************)
EXTENDS MemoryApprovalStore, FiniteSetTheorems, TLAPS

\* A call that has passed the checks carries an id.
LEMMA CallTypes ==
    ASSUME Parameters, TypeOK, NEW w \in Workers
    PROVE  /\ ProcOf[w] \in Procs
           /\ call[w].pc \in {"add", "accepted"} =>
                 call[w] \in [pc : {"add", "accepted"}, id : Ids] /\ call[w].id \in Ids
BY DEF Parameters, TypeOK, Calls

\* What a call comes to at the lookup and the checks.
LEMMA AfterCall ==
    ASSUME Parameters, TypeOK, NEW w \in Workers, NEW a \in ApprovalSet, NEW plan,
           NEW requester, NEW at, Call(w, a, plan, requester, at)
    PROVE  \E c \in Calls :
              /\ call' = [call EXCEPT ![w] = c]
              /\ c.pc # "accepted"
              /\ c.pc = "add" => c.id \notin consumed[ProcOf[w]]
<1> DEFINE verdict == ValidateFields(a, plan, requester, ExecutorId, at)
           next == IF a.approval_id \in MyConsumed(w) THEN [pc |-> "rejected"]
                   ELSE IF verdict = "valid" THEN [pc |-> "add", id |-> a.approval_id]
                   ELSE [pc |-> verdict]
<1>1. verdict \in {"valid", "rejected", "raised"}
  BY DEF ValidateFields
<1>2. a.approval_id \in Ids
  BY DEF Parameters, ApprovalRecord
<1>3. call' = [call EXCEPT ![w] = next]
  BY DEF Call
<1> HIDE DEF verdict
<1>4. next \in Calls /\ next.pc # "accepted"
  BY <1>1, <1>2 DEF Calls
<1>5. next.pc = "add" => next.id \notin consumed[ProcOf[w]]
  BY <1>1 DEF MyConsumed
<1> HIDE DEF next
<1> QED
  BY <1>3, <1>4, <1>5

\* The types of the store are kept, whatever its threads do.
THEOREM TypeCorrect == ASSUME Parameters PROVE Spec => []TypeOK
<1>1. Init => TypeOK
  BY DEF Parameters, Init, TypeOK, Idle, Calls
<1>2. TypeOK /\ [Next]_vars => TypeOK'
  <2> SUFFICES ASSUME TypeOK, [Next]_vars PROVE TypeOK'
    OBVIOUS
  <2> USE DEF Parameters
  <2>1. ASSUME NEW w \in Workers, NEW a \in ApprovalSet, NEW plan \in Plans,
               NEW requester \in Subjects, NEW at \in 0..now, Call(w, a, plan, requester, at)
        PROVE  TypeOK'
    <3>1. \E c \in Calls : call' = [call EXCEPT ![w] = c]
      BY <2>1, AfterCall
    <3> QED
      BY <2>1, <3>1 DEF Call, TypeOK
  <2>2. ASSUME NEW w \in Workers, Add(w) PROVE TypeOK'
    <3>1. call[w] \in [pc : {"add", "accepted"}, id : Ids]
      BY <2>2, CallTypes DEF Add
    <3>2. [call[w] EXCEPT !.pc = "accepted"] \in Calls
      BY <3>1 DEF Calls
    <3>3. call' = [call EXCEPT ![w] = [call[w] EXCEPT !.pc = "accepted"]]
      BY <2>2 DEF Add
    <3> QED
      BY <2>2, <3>1, <3>2, <3>3 DEF Add, TypeOK
  <2>3. ASSUME NEW w \in Workers, Return(w) PROVE TypeOK'
    <3>1. Idle \in Calls
      BY DEF Idle, Calls
    <3>2. CASE call[w].pc = "accepted"
      <4> DEFINE p == ProcOf[w]  i == call[w].id
      <4>1. /\ p \in Procs /\ i \in Ids /\ grants[p][i] < MaxGrants
            /\ grants' = [grants EXCEPT ![p][i] = grants[p][i] + 1]
        BY <2>3, <3>2, CallTypes DEF Return
      <4>2. grants[p] \in [Ids -> 0..MaxGrants] /\ grants[p][i] + 1 \in 0..MaxGrants
        BY <4>1 DEF TypeOK
      <4>3. grants' \in [Procs -> [Ids -> 0..MaxGrants]]
        BY <4>1, <4>2 DEF TypeOK
      <4> QED
        BY <2>3, <3>1, <4>3 DEF Return, TypeOK
    <3>3. CASE call[w].pc # "accepted"
      BY <2>3, <3>1, <3>3 DEF Return, TypeOK
    <3> QED
      BY <3>2, <3>3
  <2>4. ASSUME NEW p \in Procs, Restart(p) PROVE TypeOK'
    BY <2>4 DEF Restart, TypeOK, Idle, Calls
  <2>5. CASE Tick \/ UNCHANGED vars
    BY <2>5 DEF Tick, vars, storeVars, TypeOK
  <2> QED
    BY <2>1, <2>2, <2>3, <2>4, <2>5 DEF Next
<1> QED
  BY <1>1, <1>2, PTL DEF Spec
-----------------------------------------------------------------------------
\* The assumption on the callers: nobody else is in the store meanwhile.
OneThread == \A v, w \in Workers : ProcOf[v] = ProcOf[w] => v = w

\* The id a call is about to add is not there yet; the one a call was granted
\* is; an id of the set was granted, by a call that has returned or not.
Accounted ==
    /\ \A w \in Workers : call[w].pc = "add" => call[w].id \notin consumed[ProcOf[w]]
    /\ \A w \in Workers : call[w].pc = "accepted" =>
          call[w].id \in consumed[ProcOf[w]] /\ grants[ProcOf[w]][call[w].id] = 0
    /\ \A p \in Procs, i \in Ids :
          IF i \notin consumed[p] THEN grants[p][i] = 0
          ELSE \/ grants[p][i] = 1
               \/ grants[p][i] = 0 /\ \E w \in Workers : /\ ProcOf[w] = p
                                                         /\ call[w].pc = "accepted"
                                                         /\ call[w].id = i

LEMMA AccountedStep ==
    ASSUME Parameters, OneThread, TypeOK, Accounted, [Next]_vars
    PROVE  Accounted'
<1>1. ASSUME NEW w \in Workers, NEW a \in ApprovalSet, NEW plan \in Plans,
             NEW requester \in Subjects, NEW at \in 0..now, Call(w, a, plan, requester, at)
      PROVE  Accounted'
  <2>1. PICK c \in Calls : /\ call' = [call EXCEPT ![w] = c]
                           /\ c.pc # "accepted"
                           /\ c.pc = "add" => c.id \notin consumed[ProcOf[w]]
    BY <1>1, AfterCall
  <2>2. call[w].pc = "idle" /\ consumed' = consumed /\ grants' = grants
    BY <1>1 DEF Call, Idle
  <2>3. call'[w] = c /\ \A v \in Workers : v # w => call'[v] = call[v]
    BY <2>1 DEF TypeOK
  <2> QED
    BY <2>1, <2>2, <2>3 DEF Accounted
<1>2. ASSUME NEW w \in Workers, Add(w) PROVE Accounted'
  <2> DEFINE p == ProcOf[w]  i == call[w].id
  <2>1. call[w] \in [pc : {"add", "accepted"}, id : Ids] /\ p \in Procs /\ i \in Ids
    BY <1>2, CallTypes DEF Add
  <2>2. call[w].pc = "add" /\ i \notin consumed[p] /\ grants' = grants /\ grants[p][i] = 0
    BY <1>2, <2>1 DEF Add, Accounted
  <2>3. /\ call'[w].pc = "accepted" /\ call'[w].id = i
        /\ \A v \in Workers : v # w => call'[v] = call[v]
    BY <1>2, <2>1 DEF Add, TypeOK
  <2>4. \A q \in Procs : consumed'[q] = IF q = p THEN consumed[p] \cup {i} ELSE consumed[q]
    BY <1>2, <2>1 DEF Add, TypeOK
  <2>5. \A v \in Workers : v # w => ProcOf[v] # p /\ ProcOf[v] \in Procs
    BY CallTypes DEF OneThread
  <2>6. \A v \in Workers : call'[v].pc = "add" => call'[v].id \notin consumed'[ProcOf[v]]
    BY <2>3, <2>4, <2>5 DEF Accounted
  <2>7. \A v \in Workers : call'[v].pc = "accepted" =>
           call'[v].id \in consumed'[ProcOf[v]] /\ grants'[ProcOf[v]][call'[v].id] = 0
    BY <2>1, <2>2, <2>3, <2>4, <2>5 DEF Accounted
  <2>8. ASSUME NEW q \in Procs, NEW j \in Ids
        PROVE  IF j \notin consumed'[q] THEN grants'[q][j] = 0
               ELSE \/ grants'[q][j] = 1
                    \/ grants'[q][j] = 0 /\ \E v \in Workers : /\ ProcOf[v] = q
                                                               /\ call'[v].pc = "accepted"
                                                               /\ call'[v].id = j
    <3>1. CASE q = p /\ j = i
      BY <2>1, <2>2, <2>3, <2>4, <3>1
    <3>2. CASE ~(q = p /\ j = i)
      BY <2>2, <2>3, <2>4, <3>2 DEF Accounted
    <3> QED
      BY <3>1, <3>2
  <2> QED
    BY <2>6, <2>7, <2>8 DEF Accounted
<1>3. ASSUME NEW w \in Workers, Return(w), call[w].pc # "accepted" PROVE Accounted'
  <2>1. /\ consumed' = consumed /\ grants' = grants /\ call'[w].pc = "idle"
        /\ \A v \in Workers : v # w => call'[v] = call[v]
    BY <1>3 DEF Return, TypeOK, Idle
  <2> QED
    BY <1>3, <2>1 DEF Accounted
<1>4. ASSUME NEW w \in Workers, Return(w), call[w].pc = "accepted" PROVE Accounted'
  <2> DEFINE p == ProcOf[w]  i == call[w].id
  <2>1. p \in Procs /\ i \in Ids
    BY <1>4, CallTypes
  <2>2. i \in consumed[p] /\ grants[p][i] = 0 /\ consumed' = consumed
    BY <1>4 DEF Return, Accounted
  <2>3. /\ grants'[p][i] = 1
        /\ \A q \in Procs, j \in Ids : <<q, j>> # <<p, i>> => grants'[q][j] = grants[q][j]
    BY <1>4, <2>1, <2>2 DEF Return, TypeOK
  <2>4. /\ call'[w].pc = "idle"
        /\ \A v \in Workers : v # w => call'[v] = call[v]
    BY <1>4 DEF Return, TypeOK, Idle
  <2>5. \A v \in Workers : v # w => ProcOf[v] # p /\ ProcOf[v] \in Procs
    BY CallTypes DEF OneThread
  <2>6. \A v \in Workers : call'[v].pc = "add" => call'[v].id \notin consumed'[ProcOf[v]]
    BY <2>2, <2>4 DEF Accounted
  <2>7. ASSUME NEW v \in Workers, call'[v].pc = "accepted"
        PROVE  call'[v].id \in consumed'[ProcOf[v]] /\ grants'[ProcOf[v]][call'[v].id] = 0
    <3>1. v # w /\ call'[v] = call[v] /\ call[v].id \in Ids /\ ProcOf[v] \in Procs
      BY <2>4, <2>7, CallTypes
    <3> QED
      BY <2>2, <2>3, <2>5, <2>7, <3>1 DEF Accounted
  <2>8. ASSUME NEW q \in Procs, NEW j \in Ids
        PROVE  IF j \notin consumed'[q] THEN grants'[q][j] = 0
               ELSE \/ grants'[q][j] = 1
                    \/ grants'[q][j] = 0 /\ \E v \in Workers : /\ ProcOf[v] = q
                                                               /\ call'[v].pc = "accepted"
                                                               /\ call'[v].id = j
    <3>1. CASE q = p /\ j = i
      BY <2>2, <2>3, <3>1
    <3>2. CASE ~(q = p /\ j = i)
      BY <2>2, <2>3, <2>4, <3>2 DEF Accounted
    <3> QED
      BY <3>1, <3>2
  <2> QED
    BY <2>6, <2>7, <2>8 DEF Accounted
<1>5. ASSUME NEW p \in Procs, Restart(p) PROVE Accounted'
  <2>1. \A q \in Procs : /\ consumed'[q] = IF q = p THEN {} ELSE consumed[q]
                         /\ \A i \in Ids : grants'[q][i] = IF q = p THEN 0 ELSE grants[q][i]
    BY <1>5 DEF Restart, TypeOK
  <2>2. \A w \in Workers : /\ ProcOf[w] = p => call'[w].pc = "idle"
                           /\ ProcOf[w] # p => call'[w] = call[w]
    BY <1>5 DEF Restart, Idle
  <2>3. \A w \in Workers : call'[w].pc = "add" => call'[w].id \notin consumed'[ProcOf[w]]
    BY <2>1, <2>2, CallTypes DEF Accounted
  <2>4. ASSUME NEW w \in Workers, call'[w].pc = "accepted"
        PROVE  call'[w].id \in consumed'[ProcOf[w]] /\ grants'[ProcOf[w]][call'[w].id] = 0
    <3>1. ProcOf[w] # p /\ ProcOf[w] \in Procs /\ call'[w] = call[w] /\ call[w].id \in Ids
      BY <2>2, <2>4, CallTypes
    <3> QED
      BY <2>1, <2>4, <3>1 DEF Accounted
  <2>5. ASSUME NEW q \in Procs, NEW j \in Ids
        PROVE  IF j \notin consumed'[q] THEN grants'[q][j] = 0
               ELSE \/ grants'[q][j] = 1
                    \/ grants'[q][j] = 0 /\ \E v \in Workers : /\ ProcOf[v] = q
                                                               /\ call'[v].pc = "accepted"
                                                               /\ call'[v].id = j
    <3>1. CASE q = p
      BY <2>1, <3>1
    <3>2. CASE q # p
      BY <2>1, <2>2, <3>2 DEF Accounted
    <3> QED
      BY <3>1, <3>2
  <2> QED
    BY <2>3, <2>4, <2>5 DEF Accounted
<1>6. CASE Tick \/ UNCHANGED vars
  BY <1>6 DEF Tick, vars, storeVars, Accounted
<1> QED
  BY <1>1, <1>2, <1>3, <1>4, <1>5, <1>6 DEF Next

LEMMA AccountedHolds == ASSUME Parameters, OneThread PROVE Spec => []Accounted
<1>1. Init => Accounted
  BY DEF Parameters, Init, Idle, Accounted
<1>2. TypeOK /\ Accounted /\ [Next]_vars => Accounted'
  BY AccountedStep
<1> QED
  BY <1>1, <1>2, TypeCorrect, PTL DEF Spec
-----------------------------------------------------------------------------
\* ApprovalStore: the anti-replay is real within one process of one thread.
THEOREM SingleUse == ASSUME Parameters, OneThread PROVE Spec => []AtMostOncePerLifetime
<1>1. TypeOK /\ Accounted => AtMostOncePerLifetime
  BY DEF Accounted, AtMostOncePerLifetime
<1> QED
  BY <1>1, TypeCorrect, AccountedHolds, PTL

\* _consumed is the set of the ids granted, no more and no less.
THEOREM SetIsGrants == ASSUME Parameters, OneThread PROVE Spec => []ConsumedIsGranted
<1>1. ASSUME TypeOK, Accounted PROVE ConsumedIsGranted
  <2> SUFFICES ASSUME NEW p \in Procs, NEW i \in Ids
               PROVE  grants[p][i] + Cardinality(InFlight(p, i)) =
                         (IF i \in consumed[p] THEN 1 ELSE 0)
    BY DEF ConsumedIsGranted
  <2>1. Cardinality({}) = 0
    BY FS_EmptySet
  <2>2. CASE \E w \in Workers : ProcOf[w] = p /\ call[w].pc = "accepted" /\ call[w].id = i
    <3>1. PICK w \in Workers : ProcOf[w] = p /\ call[w].pc = "accepted" /\ call[w].id = i
      BY <2>2
    <3>2. InFlight(p, i) = {w}
      BY <3>1 DEF InFlight, OneThread
    <3>3. i \in consumed[p] /\ grants[p][i] = 0
      BY <1>1, <3>1 DEF Accounted
    <3>4. Cardinality(InFlight(p, i)) = 1
      BY <3>2, FS_Singleton, Zenon
    <3> QED
      BY <3>3, <3>4
  <2>3. CASE ~\E w \in Workers : ProcOf[w] = p /\ call[w].pc = "accepted" /\ call[w].id = i
    <3>1. InFlight(p, i) = {}
      BY <2>3 DEF InFlight
    <3>2. grants[p][i] = IF i \in consumed[p] THEN 1 ELSE 0
      BY <1>1, <2>3 DEF Accounted
    <3> QED
      BY <2>1, <3>1, <3>2
  <2> QED
    BY <2>2, <2>3
<1> QED
  BY <1>1, TypeCorrect, AccountedHolds, PTL
==============================================================================
