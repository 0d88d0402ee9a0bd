------------------------- MODULE MemoryApprovalStore -------------------------
(***************************************************************************)
(* policies/approval/__init__.py, ApprovalStore: the store a Gateway makes *)
(* for itself when it is given none.  Each process keeps the set of the    *)
(* ids it has consumed, looks the id up first and adds it last; nothing    *)
(* makes the two one step for the threads of the process, and a restart    *)
(* begins with an empty set.                                               *)
(***************************************************************************)
EXTENDS Approvals, FiniteSets

CONSTANTS
    Workers, Procs, ProcOf,
    Ids, Plans, Subjects,
    ExecutorId, ApprovalSet,
    MaxNow,           \* bound on the clock
    MaxGrants         \* bound on the grants of an id counted in one lifetime

\* What the theorems assume of the constants.
Parameters ==
    /\ ProcOf \in [Workers -> Procs]
    /\ ApprovalSet \subseteq ApprovalRecord(Ids, Subjects, Plans)
    /\ MaxNow \in Nat /\ MaxGrants \in Nat

VARIABLES
    now,       \* the wall clock
    consumed,  \* per process: _consumed
    call,      \* per worker: the call of validate_and_consume it is in
    grants     \* per process and id: calls of this lifetime that returned without raising (history)

storeVars == <<consumed, call, grants>>
vars == <<now, storeVars>>

Outcomes == {"accepted", "rejected", "raised"}
Idle == [pc |-> "idle"]
Calls == [pc : {"idle", "rejected", "raised"}]
         \cup [pc : {"add", "accepted"}, id : Ids]

TypeOK ==
    /\ now \in 0..MaxNow
    /\ consumed \in [Procs -> SUBSET Ids]
    /\ call \in [Workers -> Calls]
    /\ grants \in [Procs -> [Ids -> 0..MaxGrants]]

Init ==
    /\ now = 0
    /\ consumed = [p \in Procs |-> {}]
    /\ call = [w \in Workers |-> Idle]
    /\ grants = [p \in Procs |-> [i \in Ids |-> 0]]

MyConsumed(w) == consumed[ProcOf[w]]
-----------------------------------------------------------------------------
\* validate_and_consume up to its last line: the lookup, then the fields; `at`
\* is the caller's `now`, an instant it has read before.
Call(w, a, plan, requester, at) ==
    /\ call[w] = Idle
    /\ LET verdict == ValidateFields(a, plan, requester, ExecutorId, at)
       IN call' = [call EXCEPT ![w] =
              IF a.approval_id \in MyConsumed(w) THEN [pc |-> "rejected"]
              ELSE IF verdict = "valid" THEN [pc |-> "add", id |-> a.approval_id]
              ELSE [pc |-> verdict]]
    /\ UNCHANGED <<now, consumed, grants>>

\* _consumed.add, which does not look again.
Add(w) ==
    /\ call[w].pc = "add"
    /\ consumed' = [consumed EXCEPT ![ProcOf[w]] = @ \cup {call[w].id}]
    /\ call' = [call EXCEPT ![w].pc = "accepted"]
    /\ UNCHANGED <<now, grants>>

Return(w) ==
    /\ call[w].pc \in Outcomes
    /\ IF call[w].pc = "accepted"
         THEN /\ grants[ProcOf[w]][call[w].id] < MaxGrants
              /\ grants' = [grants EXCEPT ![ProcOf[w]][call[w].id] = @ + 1]
         ELSE UNCHANGED grants
    /\ call' = [call EXCEPT ![w] = Idle]
    /\ UNCHANGED <<now, consumed>>

\* A process is restarted: a new Gateway with a new ApprovalStore.
Restart(p) ==
    /\ consumed' = [consumed EXCEPT ![p] = {}]
    /\ grants' = [grants EXCEPT ![p] = [i \in Ids |-> 0]]
    /\ call' = [w \in Workers |-> IF ProcOf[w] = p THEN Idle ELSE call[w]]
    /\ UNCHANGED now

Tick ==
    /\ now < MaxNow
    /\ now' = now + 1
    /\ UNCHANGED storeVars
-----------------------------------------------------------------------------
Next ==
    \/ \E w \in Workers :
          \/ \E a \in ApprovalSet, plan \in Plans, requester \in Subjects, at \in 0..now :
                Call(w, a, plan, requester, at)
          \/ Add(w) \/ Return(w)
    \/ \E p \in Procs : Restart(p)
    \/ Tick

Spec == Init /\ [][Next]_vars
-----------------------------------------------------------------------------
InFlight(p, i) == {w \in Workers : /\ ProcOf[w] = p
                                   /\ call[w].pc = "accepted" /\ call[w].id = i}

\* Within one lifetime of a process no id is granted twice (class docstring,
\* "anti-replay real dentro de ESTE proceso").
AtMostOncePerLifetime == \A p \in Procs, i \in Ids : grants[p][i] <= 1

\* The set holds an id exactly when one caller of this lifetime was granted
\* it or is about to be: a refused or raising call consumes nothing, a
\* granted one is never forgotten.
ConsumedIsGranted ==
    \A p \in Procs, i \in Ids :
        grants[p][i] + Cardinality(InFlight(p, i)) = (IF i \in consumed[p] THEN 1 ELSE 0)
==============================================================================
