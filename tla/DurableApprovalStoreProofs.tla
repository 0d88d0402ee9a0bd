--------------------- MODULE DurableApprovalStoreProofs ---------------------
(***************************************************************************)
(* For every set of threads, processes, approvals and plans, and every     *)
(* bound on the clock: the store's types, its conservation law, single     *)
(* grant, the soundness of its rows, and that it implements ConsumeOnce.   *)
(***************************************************************************)
EXTENDS DurableApprovalStore, TLAPS

\* A call that is past validation carries its arguments.
LEMMA CallTypes ==
    ASSUME TypeOK, NEW w \in Workers, call[w].pc \in {"insert", "accepted"}
    PROVE  /\ call[w] \in [pc : {"insert", "accepted"}, approval : ApprovalSet,
                           plan : Plans, at : Nat]
           /\ call[w].approval \in ApprovalRecord(Ids, Subjects, Plans)
           /\ IdOf(w) \in Ids
<1>1. call[w] \in [pc : {"insert", "accepted"}, approval : ApprovalSet,
                   plan : Plans, at : Nat]
  BY DEF TypeOK, Calls
<1> QED
  BY <1>1, ApprovalsAssumption DEF IdOf, ApprovalRecord

\* What ValidateFields has seen when it says "valid".
LEMMA ValidFields ==
    ASSUME NEW a \in ApprovalSet, NEW plan, NEW requester, NEW at,
           ValidateFields(a, plan, requester, ExecutorId, at) = "valid"
    PROVE  /\ a.decision = "APPROVE"
           /\ a.approver_id # ExecutorId
           /\ ~(at > a.expires_at)
           /\ a.signature_ref = <<a.approval_id, plan>>
BY DEF ValidateFields, Segregated, SignatureRef

\* The verdict is one of three.
LEMMA VerdictType ==
    ASSUME NEW a, NEW plan, NEW requester, NEW at
    PROVE  ValidateFields(a, plan, requester, ExecutorId, at) \in {"valid", "rejected", "raised"}
BY DEF ValidateFields

\* The types are preserved by every action of the store.
THEOREM TypeCorrect == Spec => []TypeOK
<1>1. Init => TypeOK
  <2>1. Idle \in Calls
    BY DEF Idle, Calls
  <2>2. 0 \in 0..MaxNow
    BY MaxNowAssumption
  <2>3. Init => /\ now \in 0..MaxNow /\ dbLocked \in BOOLEAN
                /\ rows \subseteq Row /\ burned \subseteq Ids
    BY <2>2 DEF Init
  <2>4. Init => /\ conn \in [Procs -> {"none", "open", "closed"}]
                /\ grants \in [Ids -> Nat]
    BY DEF Init
  <2>5. Init => call \in [Workers -> Calls]
    BY <2>1 DEF Init
  <2> QED
    BY <2>3, <2>4, <2>5 DEF TypeOK
<1>2. TypeOK /\ [Next]_vars => TypeOK'
  <2> SUFFICES ASSUME TypeOK, [Next]_vars PROVE TypeOK'
    OBVIOUS
  <2> USE MaxNowAssumption, ProcsAssumption
  <2>1. ASSUME NEW p \in Procs, Open(p) PROVE TypeOK'
    BY <2>1 DEF TypeOK, Open
  <2>2. ASSUME NEW p \in Procs, Close(p) PROVE TypeOK'
    BY <2>2 DEF TypeOK, Close
  <2>3. ASSUME NEW p \in Procs, Crash(p) PROVE TypeOK'
    <3>1. {IdOf(w) : w \in {v \in Workers : ProcOf[v] = p /\ call[v].pc = "accepted"}} \subseteq Ids
      BY CallTypes
    <3>2. burned' \subseteq Ids
      BY <2>3, <3>1 DEF Crash, TypeOK
    <3>3. call' \in [Workers -> Calls]
      BY <2>3 DEF Crash, TypeOK, Idle, Calls
    <3> QED
      BY <2>3, <3>2, <3>3 DEF Crash, TypeOK
  <2>4. ASSUME NEW w \in Workers, NEW a \in ApprovalSet, NEW plan \in Plans,
               NEW requester \in Subjects, NEW at \in 0..now, Call(w, a, plan, requester, at)
        PROVE  TypeOK'
    <3> DEFINE verdict == ValidateFields(a, plan, requester, ExecutorId, at)
    <3> DEFINE next == IF verdict = "valid"
                         THEN [pc |-> "insert", approval |-> a, plan |-> plan, at |-> at]
                         ELSE [pc |-> verdict]
    <3>1. verdict \in {"valid", "rejected", "raised"}
      BY VerdictType
    <3>2. at \in Nat
      BY DEF TypeOK
    <3> HIDE DEF verdict
    <3>3. next \in Calls
      BY <3>1, <3>2 DEF Calls
    <3>4. call' = [call EXCEPT ![w] = next]
      BY <2>4 DEF Call, verdict
    <3> QED
      BY <2>4, <3>3, <3>4 DEF Call, TypeOK
  <2>5. ASSUME NEW w \in Workers, Insert(w) PROVE TypeOK'
    <3>1. call[w] \in [pc : {"insert", "accepted"}, approval : ApprovalSet,
                       plan : Plans, at : Nat] /\ IdOf(w) \in Ids
      BY <2>5, CallTypes DEF Insert
    <3>2. rows' \subseteq Row
      BY <2>5, <3>1 DEF Insert, TypeOK, Row
    <3>3. [call[w] EXCEPT !.pc = "accepted"] \in Calls
      BY <3>1 DEF Calls
    <3>4. call' \in [Workers -> Calls]
      BY <2>5, <3>3 DEF Insert, TypeOK
    <3> QED
      BY <2>5, <3>2, <3>4 DEF Insert, TypeOK
  <2>6. ASSUME NEW w \in Workers, Replay(w) PROVE TypeOK'
    BY <2>6 DEF TypeOK, Replay, Refuse, Calls
  <2>7. ASSUME NEW w \in Workers, Unavailable(w) PROVE TypeOK'
    BY <2>7 DEF TypeOK, Unavailable, Refuse, Calls
  <2>8. ASSUME NEW w \in Workers, Return(w) PROVE TypeOK'
    <3>1. call' \in [Workers -> Calls]
      BY <2>8 DEF Return, TypeOK, Idle, Calls
    <3>2. grants' \in [Ids -> Nat]
      <4>1. CASE call[w].pc = "accepted"
        <5>1. IdOf(w) \in Ids
          BY <4>1, CallTypes
        <5> QED
          BY <2>8, <4>1, <5>1 DEF Return, TypeOK
      <4>2. CASE call[w].pc # "accepted"
        BY <2>8, <4>2 DEF Return, TypeOK
      <4> QED
        BY <4>1, <4>2
    <3> QED
      BY <2>8, <3>1, <3>2 DEF Return, TypeOK
  <2>9. ASSUME ToggleLock PROVE TypeOK'
    BY <2>9 DEF TypeOK, ToggleLock
  <2>10. ASSUME Tick PROVE TypeOK'
    BY <2>10 DEF TypeOK, Tick, storeVars
  <2>11. ASSUME UNCHANGED vars PROVE TypeOK'
    BY <2>11 DEF TypeOK, vars, storeVars
  <2> QED
    BY <2>1, <2>2, <2>3, <2>4, <2>5, <2>6, <2>7, <2>8, <2>9, <2>10, <2>11 DEF Next, Progress
<1> QED
  BY <1>1, <1>2, PTL DEF Spec

-----------------------------------------------------------------------------
\* A step that touches neither the table, nor the history, nor the accepted
\* calls keeps the conservation law.
LEMMA Undisturbed ==
    ASSUME ConsumptionAccounted,
           rows' = rows, grants' = grants, burned' = burned,
           \A w \in Workers, i \in Ids : Accepted(w, i)' <=> Accepted(w, i)
    PROVE  ConsumptionAccounted'
BY DEF ConsumptionAccounted, Consumed

\* A call that is refused, or that begins, was not and is not accepted.
LEMMA NotAccepted ==
    ASSUME TypeOK, NEW w \in Workers, call[w].pc # "accepted", NEW c \in Calls,
           c.pc # "accepted", call' = [call EXCEPT ![w] = c]
    PROVE  \A v \in Workers, i \in Ids : Accepted(v, i)' <=> Accepted(v, i)
BY DEF TypeOK, Accepted, IdOf

\* A row inserted for an id makes that id consumed and no other.
LEMMA InsertedRow ==
    ASSUME NEW w \in Workers, Insert(w)
    PROVE  \A i : Consumed(i)' <=> (Consumed(i) \/ i = IdOf(w))
<1> DEFINE row == [approval_id |-> IdOf(w), consumed_at |-> call[w].at,
                   action_binding |-> call[w].plan]
<1>1. rows' = rows \cup {row}
  BY DEF Insert
<1>2. row.approval_id = IdOf(w)
  OBVIOUS
<1> HIDE DEF row
<1> QED
  BY <1>1, <1>2 DEF Consumed

LEMMA AccountedStep ==
    ASSUME TypeOK, ConsumptionAccounted, [Next]_vars
    PROVE  ConsumptionAccounted'
<1>1. ASSUME NEW p \in Procs, Open(p) \/ Close(p) PROVE ConsumptionAccounted'
  BY <1>1, Undisturbed DEF Open, Close, Accepted, IdOf
<1>2. ASSUME NEW p \in Procs, Crash(p) PROVE ConsumptionAccounted'
  <2> DEFINE Lost == {IdOf(w) : w \in {v \in Workers : /\ ProcOf[v] = p
                                                        /\ call[v].pc = "accepted"}}
  <2>1. /\ rows' = rows /\ grants' = grants /\ burned' = burned \cup Lost
    BY <1>2 DEF Crash
  <2>2. \A w \in Workers, i \in Ids :
           Accepted(w, i)' <=> Accepted(w, i) /\ ProcOf[w] # p
    BY <1>2 DEF Crash, Accepted, IdOf, Idle
  <2>3. \A i \in Ids : i \in Lost <=> \E w \in Workers : Accepted(w, i) /\ ProcOf[w] = p
    BY DEF Accepted
  <2>4. \A i \in Ids : Consumed(i)' <=> Consumed(i)
    BY <2>1 DEF Consumed
  <2> HIDE DEF Lost
  <2>5. \A i \in Ids : Consumed(i)' <=> \/ grants'[i] = 1
                                        \/ i \in burned'
                                        \/ \E w \in Workers : Accepted(w, i)'
    BY <2>1, <2>2, <2>3, <2>4 DEF ConsumptionAccounted
  <2>6. \A i \in Ids : grants'[i] # 0 => grants'[i] = 1 /\ i \notin burned'
    BY <2>1, <2>3 DEF ConsumptionAccounted
  <2>7. \A w \in Workers, i \in Ids :
           Accepted(w, i)' => grants'[i] = 0 /\ i \notin burned'
    BY <2>1, <2>2, <2>3 DEF ConsumptionAccounted
  <2>8. \A v, w \in Workers, i \in Ids : Accepted(v, i)' /\ Accepted(w, i)' => v = w
    BY <2>2 DEF ConsumptionAccounted
  <2> QED
    BY <2>5, <2>6, <2>7, <2>8 DEF ConsumptionAccounted
<1>3. ASSUME NEW w \in Workers, NEW a \in ApprovalSet, NEW plan \in Plans,
             NEW requester \in Subjects, NEW at \in 0..now, Call(w, a, plan, requester, at)
      PROVE  ConsumptionAccounted'
  <2> DEFINE verdict == ValidateFields(a, plan, requester, ExecutorId, at)
  <2> DEFINE next == IF verdict = "valid"
                       THEN [pc |-> "insert", approval |-> a, plan |-> plan, at |-> at]
                       ELSE [pc |-> verdict]
  <2>1. verdict \in {"valid", "rejected", "raised"}
    BY VerdictType
  <2>2. at \in Nat
    BY MaxNowAssumption DEF TypeOK
  <2>3. call' = [call EXCEPT ![w] = next] /\ call[w].pc # "accepted"
    BY <1>3 DEF Call, Idle
  <2> HIDE DEF verdict
  <2>4. next \in Calls /\ next.pc # "accepted"
    BY <2>1, <2>2 DEF Calls
  <2> HIDE DEF next
  <2> QED
    BY <1>3, <2>3, <2>4, NotAccepted, Undisturbed DEF Call
<1>4. ASSUME NEW w \in Workers, Insert(w) PROVE ConsumptionAccounted'
  <2>1. IdOf(w) \in Ids /\ ~Consumed(IdOf(w)) /\ call[w].pc = "insert"
    BY <1>4, CallTypes DEF Insert
  <2>2. grants' = grants /\ burned' = burned
    BY <1>4 DEF Insert
  <2>3. \A v \in Workers, i \in Ids :
           Accepted(v, i)' <=> Accepted(v, i) \/ (v = w /\ i = IdOf(w))
    <3>1. call' = [call EXCEPT ![w].pc = "accepted"]
      BY <1>4 DEF Insert
    <3>2. call'[w].pc = "accepted" /\ call'[w].approval = call[w].approval
      BY <3>1, <2>1, CallTypes DEF TypeOK
    <3>3. \A v \in Workers : v # w => call'[v] = call[v]
      BY <3>1 DEF TypeOK
    <3> QED
      BY <2>1, <3>2, <3>3 DEF Accepted, IdOf
  <2>4. \A i : Consumed(i)' <=> (Consumed(i) \/ i = IdOf(w))
    BY <1>4, InsertedRow
  <2> QED
    BY <2>1, <2>2, <2>3, <2>4 DEF ConsumptionAccounted, TypeOK
<1>5. ASSUME NEW w \in Workers, Replay(w) \/ Unavailable(w) PROVE ConsumptionAccounted'
  <2>1. [pc |-> "rejected"] \in Calls /\ [pc |-> "unavailable"] \in Calls
    BY DEF Calls
  <2> QED
    BY <1>5, <2>1, NotAccepted, Undisturbed DEF Replay, Unavailable, Refuse
<1>6. ASSUME NEW w \in Workers, Return(w) PROVE ConsumptionAccounted'
  <2>1. Idle \in Calls /\ Idle.pc # "accepted"
    BY DEF Idle, Calls
  <2>2. CASE call[w].pc # "accepted"
    BY <1>6, <2>1, <2>2, NotAccepted, Undisturbed DEF Return
  <2>3. CASE call[w].pc = "accepted"
    <3>1. IdOf(w) \in Ids /\ Accepted(w, IdOf(w))
      BY <2>3, CallTypes DEF Accepted
    <3>2. grants' = [grants EXCEPT ![IdOf(w)] = 1] /\ burned' = burned /\ rows' = rows
      <4>1. grants[IdOf(w)] = 0
        BY <3>1 DEF ConsumptionAccounted
      <4> QED
        BY <1>6, <2>3, <4>1 DEF Return
    <3>3. \A v \in Workers, i \in Ids : Accepted(v, i)' <=> Accepted(v, i) /\ v # w
      BY <1>6, <2>1 DEF Return, Accepted, IdOf, TypeOK
    <3>4. \A i \in Ids : Consumed(i)' <=> Consumed(i)
      BY <3>2 DEF Consumed
    <3>5. \A v \in Workers : Accepted(v, IdOf(w)) => v = w
      BY <3>1 DEF ConsumptionAccounted
    <3>0. PICK i0 \in Ids : i0 = IdOf(w)
      BY <3>1
    <3>6. /\ i0 \in Ids /\ Accepted(w, i0) /\ grants'[i0] = 1 /\ i0 \notin burned
          /\ Consumed(i0) /\ \A i \in Ids \ {i0} : grants'[i] = grants[i]
      BY <3>0, <3>1, <3>2 DEF ConsumptionAccounted, TypeOK
    <3>7. \A v \in Workers : ~Accepted(v, i0)'
      BY <3>0, <3>3, <3>5, <3>6
    <3>8. \A v \in Workers, i \in Ids \ {i0} : Accepted(v, i)' <=> Accepted(v, i)
      <4>1. \A i \in Ids \ {i0} : ~Accepted(w, i)
        BY <3>0 DEF Accepted
      <4> QED
        BY <3>3, <4>1
    <3> QED
      BY <3>2, <3>4, <3>6, <3>7, <3>8 DEF ConsumptionAccounted
  <2> QED
    BY <2>2, <2>3
<1>7. ASSUME ToggleLock \/ Tick \/ UNCHANGED vars PROVE ConsumptionAccounted'
  BY <1>7, Undisturbed DEF ToggleLock, Tick, vars, storeVars, Accepted, IdOf
<1> QED
  BY <1>1, <1>2, <1>3, <1>4, <1>5, <1>6, <1>7 DEF Next, Progress

\* Consumption is conserved: every row is one grant, one answer still on its
\* way, or one call lost with its process, and never two of them.
THEOREM Conservation == Spec => []ConsumptionAccounted
<1>1. Init => ConsumptionAccounted
  BY DEF Init, Idle, ConsumptionAccounted, Consumed, Accepted
<1> QED
  BY <1>1, AccountedStep, TypeCorrect, PTL DEF Spec

\* No approval_id is granted twice, by any threads, processes and restarts.
THEOREM SingleUse == Spec => []AtMostOnce
<1>1. TypeOK /\ ConsumptionAccounted => AtMostOnce
  BY DEF TypeOK, ConsumptionAccounted, AtMostOnce
<1> QED
  BY <1>1, TypeCorrect, Conservation, PTL
-----------------------------------------------------------------------------
\* Every call that is past validation carries an approval that passed it.
Vouches(a, id, plan, at) ==
    /\ a.approval_id = id
    /\ a.decision = "APPROVE" /\ a.approver_id # ExecutorId
    /\ a.signature_ref = <<id, plan>>
    /\ at <= a.expires_at

CallsAreVouched ==
    \A w \in Workers : call[w].pc \in {"insert", "accepted"} =>
        Vouches(call[w].approval, IdOf(w), call[w].plan, call[w].at)

LEMMA VouchedStep ==
    ASSUME TypeOK, RowsWereApproved, CallsAreVouched, [Next]_vars
    PROVE  RowsWereApproved' /\ CallsAreVouched'
<1> DEFINE Kept == /\ rows' = rows
                   /\ \A w \in Workers : call'[w].pc \in {"insert", "accepted"} => call'[w] = call[w]
<1>1. Kept => RowsWereApproved' /\ CallsAreVouched'
  BY DEF RowsWereApproved, CallsAreVouched, IdOf, Vouches
<1>2. ASSUME NEW p \in Procs, Open(p) \/ Close(p) \/ Crash(p) PROVE Kept
  BY <1>2 DEF Open, Close, Crash, Idle
<1>3. ASSUME NEW w \in Workers, Replay(w) \/ Unavailable(w) \/ Return(w) PROVE Kept
  BY <1>3 DEF Replay, Unavailable, Return, Refuse, Idle, TypeOK
<1>4. ASSUME ToggleLock \/ Tick \/ UNCHANGED vars PROVE Kept
  BY <1>4 DEF ToggleLock, Tick, vars, storeVars
<1>5. ASSUME NEW w \in Workers, NEW a \in ApprovalSet, NEW plan \in Plans,
             NEW requester \in Subjects, NEW at \in 0..now, Call(w, a, plan, requester, at)
      PROVE  RowsWereApproved' /\ CallsAreVouched'
  <2> DEFINE verdict == ValidateFields(a, plan, requester, ExecutorId, at)
  <2>1. verdict \in {"valid", "rejected", "raised"} /\ rows' = rows
    BY <1>5, VerdictType DEF Call
  <2>2. \A v \in Workers : v # w => call'[v] = call[v]
    BY <1>5 DEF Call, TypeOK
  <2>3. CASE verdict = "valid"
    <3>1. call'[w] = [pc |-> "insert", approval |-> a, plan |-> plan, at |-> at]
      BY <1>5, <2>3 DEF Call, TypeOK
    <3>2. at \in Nat /\ a.expires_at \in Nat
      BY MaxNowAssumption, ApprovalsAssumption DEF TypeOK, ApprovalRecord
    <3>3. Vouches(a, a.approval_id, plan, at)
      BY <2>3, <3>2, ValidFields DEF Vouches
    <3>4. Vouches(call'[w].approval, IdOf(w)', call'[w].plan, call'[w].at)
      BY <3>1, <3>3 DEF IdOf
    <3> QED
      BY <2>1, <2>2, <3>4 DEF RowsWereApproved, CallsAreVouched, IdOf, Vouches
  <2>4. CASE verdict # "valid"
    <3>1. call'[w] = [pc |-> verdict]
      BY <1>5, <2>4 DEF Call, TypeOK
    <3> HIDE DEF verdict
    <3>2. call'[w].pc \notin {"insert", "accepted"}
      BY <2>1, <3>1
    <3> QED
      BY <1>1, <2>1, <2>2, <3>2
  <2> QED
    BY <2>3, <2>4
<1>6. ASSUME NEW w \in Workers, Insert(w)
      PROVE  RowsWereApproved' /\ CallsAreVouched'
  <2> DEFINE a == call[w].approval
             row == [approval_id |-> IdOf(w), consumed_at |-> call[w].at,
                     action_binding |-> call[w].plan]
  <2>1. call[w].pc = "insert" /\ rows' = rows \cup {row}
    BY <1>6 DEF Insert
  <2>2. call[w] \in [pc : {"insert", "accepted"}, approval : ApprovalSet,
                     plan : Plans, at : Nat]
    BY <2>1, CallTypes
  <2>3. Vouches(a, row.approval_id, row.action_binding, row.consumed_at)
    BY <2>1 DEF CallsAreVouched
  <2>4. RowsWereApproved'
    BY <2>1, <2>2, <2>3 DEF RowsWereApproved, Vouches
  <2>5. /\ call'[w].approval = a /\ call'[w].plan = call[w].plan
        /\ call'[w].at = call[w].at
        /\ \A v \in Workers : v # w => call'[v] = call[v]
    BY <1>6, <2>2 DEF Insert, TypeOK
  <2> QED
    BY <2>3, <2>4, <2>5 DEF CallsAreVouched, IdOf
<1> QED
  BY <1>1, <1>2, <1>3, <1>4, <1>5, <1>6 DEF Next, Progress

\* Whatever the table records was approved, in time, for the plan it is bound to.
THEOREM RowSoundness == Spec => []RowsWereApproved
<1>1. Init => RowsWereApproved /\ CallsAreVouched
  BY DEF Init, Idle, RowsWereApproved, CallsAreVouched
<1> QED
  BY <1>1, VouchedStep, TypeCorrect, PTL DEF Spec
-----------------------------------------------------------------------------
\* Every step of the store is a grant, a burning or a stutter of ConsumeOnce.
THEOREM Refinement == Spec => ImplementsConsumeOnce
<1>1. Init => Promise!Init
  BY DEF Init, Promise!Init
<1>2. ASSUME TypeOK, ConsumptionAccounted, [Next]_vars
      PROVE  [Promise!Next]_(Promise!vars)
  <2>0. ASSUME NEW w \in Workers, call[w].pc = "accepted"
        PROVE  IdOf(w) \in Ids /\ grants[IdOf(w)] = 0 /\ IdOf(w) \notin burned
    <3>1. IdOf(w) \in Ids
      BY <1>2, <2>0, CallTypes
    <3>2. Accepted(w, IdOf(w))
      BY <2>0 DEF Accepted
    <3> QED
      BY <1>2, <3>1, <3>2 DEF ConsumptionAccounted
  <2>1. ASSUME NEW p \in Procs, Crash(p) PROVE Promise!Next
    <3> DEFINE Lost == {IdOf(w) : w \in {v \in Workers : /\ ProcOf[v] = p
                                                          /\ call[v].pc = "accepted"}}
    <3>0. \A w \in Workers : call[w].pc = "accepted" =>
             IdOf(w) \in Ids /\ grants[IdOf(w)] = 0 /\ IdOf(w) \notin burned
      BY <2>0
    <3>1. Lost \in SUBSET Ids /\ \A i \in Lost : grants[i] = 0
      BY <3>0
    <3>2. burned' = burned \cup Lost /\ grants' = grants
      BY <2>1 DEF Crash
    <3> HIDE DEF Lost
    <3>3. Promise!Burn(Lost)
      BY <3>1, <3>2 DEF Promise!Burn
    <3> QED
      BY <3>1, <3>3 DEF Promise!Next
  <2>2. ASSUME NEW w \in Workers, Return(w), call[w].pc = "accepted" PROVE Promise!Next
    <3>1. IdOf(w) \in Ids /\ grants[IdOf(w)] = 0 /\ IdOf(w) \notin burned
      BY <2>2, <2>0
    <3>2. grants' = [grants EXCEPT ![IdOf(w)] = 1] /\ burned' = burned
      BY <2>2, <3>1 DEF Return
    <3>3. PICK i \in Ids : i = IdOf(w)
      BY <3>1
    <3>4. Promise!Grant(i)
      BY <3>1, <3>2, <3>3 DEF Promise!Grant
    <3> QED
      BY <3>4 DEF Promise!Next
  <2>3. ASSUME NEW w \in Workers, Return(w), call[w].pc # "accepted"
        PROVE  UNCHANGED <<grants, burned>>
    BY <2>3 DEF Return
  <2>4. ASSUME NEW p \in Procs, Open(p) \/ Close(p) PROVE UNCHANGED <<grants, burned>>
    BY <2>4 DEF Open, Close
  <2>5. ASSUME NEW w \in Workers, NEW a \in ApprovalSet, NEW plan \in Plans,
               NEW requester \in Subjects, NEW at \in 0..now, Call(w, a, plan, requester, at)
        PROVE  UNCHANGED <<grants, burned>>
    BY <2>5 DEF Call
  <2>6. ASSUME NEW w \in Workers, Insert(w) \/ Replay(w) \/ Unavailable(w)
        PROVE  UNCHANGED <<grants, burned>>
    BY <2>6 DEF Insert, Replay, Unavailable
  <2>7. ASSUME ToggleLock \/ Tick \/ UNCHANGED vars PROVE UNCHANGED <<grants, burned>>
    BY <2>7 DEF ToggleLock, Tick, vars, storeVars
  <2>8. Promise!Next \/ UNCHANGED <<grants, burned>>
    BY <1>2, <2>1, <2>2, <2>3, <2>4, <2>5, <2>6, <2>7 DEF Next, Progress
  <2> QED
    BY <2>8 DEF Promise!vars
<1> QED
  BY <1>1, <1>2, TypeCorrect, Conservation, PTL DEF Spec, ImplementsConsumeOnce, Promise!Spec

\* A row is never deleted, overwritten or bound to another plan.
THEOREM RowsPersist == Spec => RowsAreForever
<1>1. [Next]_vars => rows \subseteq rows'
  BY DEF Next, Progress, Open, Close, Crash, Call, Insert, Replay, Unavailable, Return,
         ToggleLock, Tick, vars, storeVars
<1> QED
  BY <1>1, PTL DEF Spec, RowsAreForever
==============================================================================
