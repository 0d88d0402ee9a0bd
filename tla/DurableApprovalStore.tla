------------------------ MODULE DurableApprovalStore ------------------------
(***************************************************************************)
(* policies/approval/durable_store.py: consumption of an Approval recorded *)
(* as a row of a SQLite table shared by every gateway process.             *)
(*                                                                         *)
(* A worker is a thread, ProcOf its process.  Each process holds one       *)
(* connection, opened by the thread Opener[p]; sqlite3 refuses to serve a  *)
(* connection to any other thread.  validate_and_consume is split where    *)
(* another thread, another process, a crash or the clock can come between: *)
(* after the field checks (Call), at the INSERT, which SQLite runs as one  *)
(* transaction, and at the return to the caller.                           *)
(***************************************************************************)
EXTENDS Approvals

CONSTANTS
    Workers, Procs, ProcOf, Opener,
    Ids, Plans, Subjects,
    ExecutorId,       \* the executor_id the gateway passes: "mcp_gateway"
    ApprovalSet,      \* the approvals callers may present
    MaxNow            \* bound on the clock

ASSUME ProcsAssumption ==
    /\ ProcOf \in [Workers -> Procs]
    /\ Opener \in [Procs -> Workers]
ASSUME ApprovalsAssumption == ApprovalSet \subseteq ApprovalRecord(Ids, Subjects, Plans)
ASSUME MaxNowAssumption == MaxNow \in Nat

VARIABLES
    now,       \* the wall clock
    conn,      \* per process: "none" (not running), "open" or "closed"
    dbLocked,  \* another program holds the file's write lock, or it is unreachable
    rows,      \* the table consumed_approvals
    call,      \* per worker: the call of validate_and_consume it is in
    grants,    \* per id: calls that returned without raising (history)
    burned     \* ids consumed by a call its process did not live to return from (history)

storeVars == <<conn, dbLocked, rows, call, grants, burned>>
vars == <<now, storeVars>>

Outcomes == {"accepted", "rejected", "unavailable", "raised"}
Row == [approval_id : Ids, consumed_at : Nat, action_binding : Plans]
\* A call keeps its arguments as long as they can still matter.
Idle == [pc |-> "idle"]
Calls == [pc : {"idle", "rejected", "unavailable", "raised"}]
         \cup [pc : {"insert", "accepted"}, approval : ApprovalSet, plan : Plans, at : Nat]

TypeOK ==
    /\ now \in 0..MaxNow
    /\ conn \in [Procs -> {"none", "open", "closed"}]
    /\ dbLocked \in BOOLEAN
    /\ rows \subseteq Row
    /\ call \in [Workers -> Calls]
    /\ grants \in [Ids -> Nat]
    /\ burned \subseteq Ids

Init ==
    /\ now = 0
    /\ conn = [p \in Procs |-> "none"]
    /\ dbLocked = FALSE
    /\ rows = {}
    /\ call = [w \in Workers |-> Idle]
    /\ grants = [i \in Ids |-> 0]
    /\ burned = {}

IdOf(w) == call[w].approval.approval_id
Consumed(i) == \E r \in rows : r.approval_id = i
Usable(w) == conn[ProcOf[w]] = "open" /\ Opener[ProcOf[w]] = w

Refuse(w, outcome) == call' = [call EXCEPT ![w] = [pc |-> outcome]]
-----------------------------------------------------------------------------
\* __init__: a locked or unreachable file raises and leaves no store behind.
Open(p) ==
    /\ conn[p] # "open"
    /\ ~dbLocked
    /\ conn' = [conn EXCEPT ![p] = "open"]
    /\ UNCHANGED <<now, dbLocked, rows, call, grants, burned>>

\* close, which sqlite3 too allows only to the thread that opened.
Close(p) ==
    /\ conn[p] = "open"
    /\ call[Opener[p]] = Idle
    /\ conn' = [conn EXCEPT ![p] = "closed"]
    /\ UNCHANGED <<now, dbLocked, rows, call, grants, burned>>

\* validate_and_consume up to the INSERT; `at` is the caller's `now`, an
\* instant it has read before.
Call(w, a, plan, requester, at) ==
    /\ call[w] = Idle
    /\ conn[ProcOf[w]] # "none"
    /\ LET verdict == ValidateFields(a, plan, requester, ExecutorId, at)
       IN call' = [call EXCEPT ![w] =
              IF verdict = "valid"
                THEN [pc |-> "insert", approval |-> a, plan |-> plan, at |-> at]
                ELSE [pc |-> verdict]]
    /\ UNCHANGED <<now, conn, dbLocked, rows, grants, burned>>

\* Faulty: the table has no primary key.
Insert_NoPrimaryKey(w) ==
    /\ call[w].pc = "insert"
    /\ Usable(w) /\ ~dbLocked
    /\ rows' = rows \cup {[approval_id |-> IdOf(w), consumed_at |-> call[w].at,
                           action_binding |-> call[w].plan]}
    /\ call' = [call EXCEPT ![w].pc = "accepted"]
    /\ UNCHANGED <<now, conn, dbLocked, grants, burned>>

\* The INSERT: the primary key makes it succeed for one call per id.
Insert(w) ==
    /\ call[w].pc = "insert"
    /\ Usable(w) /\ ~dbLocked
    /\ ~Consumed(IdOf(w))
    /\ rows' = rows \cup {[approval_id |-> IdOf(w), consumed_at |-> call[w].at,
                           action_binding |-> call[w].plan]}
    /\ call' = [call EXCEPT ![w].pc = "accepted"]
    /\ UNCHANGED <<now, conn, dbLocked, grants, burned>>

\* Faulty: INSERT OR IGNORE.
Replay_Ignored(w) ==
    /\ call[w].pc = "insert"
    /\ Usable(w) /\ ~dbLocked
    /\ Consumed(IdOf(w))
    /\ call' = [call EXCEPT ![w].pc = "accepted"]
    /\ UNCHANGED <<now, conn, dbLocked, rows, grants, burned>>

\* sqlite3.IntegrityError: the id has its row already.
Replay(w) ==
    /\ call[w].pc = "insert"
    /\ Usable(w) /\ ~dbLocked
    /\ Consumed(IdOf(w))
    /\ Refuse(w, "rejected")
    /\ UNCHANGED <<now, conn, dbLocked, rows, grants, burned>>

\* Faulty: the INSERT is not undone when the call fails.
Unavailable_AfterInsert(w) ==
    /\ call[w].pc = "insert"
    /\ dbLocked \/ ~Usable(w)
    /\ ~Consumed(IdOf(w))
    /\ rows' = rows \cup {[approval_id |-> IdOf(w), consumed_at |-> call[w].at,
                           action_binding |-> call[w].plan]}
    /\ Refuse(w, "unavailable")
    /\ UNCHANGED <<now, conn, dbLocked, grants, burned>>

\* Faulty: no busy_timeout, so that a locked file is waited for.
Unavailable_NoTimeout(w) ==
    /\ call[w].pc = "insert"
    /\ ~Usable(w)
    /\ Refuse(w, "unavailable")
    /\ UNCHANGED <<now, conn, dbLocked, rows, grants, burned>>

\* Any other sqlite3.Error: busy_timeout ran out, or the connection is
\* closed or belongs to another thread.
Unavailable(w) ==
    /\ call[w].pc = "insert"
    /\ dbLocked \/ ~Usable(w)
    /\ Refuse(w, "unavailable")
    /\ UNCHANGED <<now, conn, dbLocked, rows, grants, burned>>

\* The call returns (or raises) and its caller learns the outcome.
Return(w) ==
    /\ call[w].pc \in Outcomes
    /\ call' = [call EXCEPT ![w] = Idle]
    /\ grants' = IF call[w].pc = "accepted"
                   THEN [grants EXCEPT ![IdOf(w)] = @ + 1] ELSE grants
    /\ UNCHANGED <<now, conn, dbLocked, rows, burned>>
-----------------------------------------------------------------------------
\* A process dies: its calls are lost, the committed rows are not.
Crash(p) ==
    /\ conn[p] # "none"
    /\ conn' = [conn EXCEPT ![p] = "none"]
    /\ burned' = burned \cup {IdOf(w) : w \in {v \in Workers : /\ ProcOf[v] = p
                                                               /\ call[v].pc = "accepted"}}
    /\ call' = [w \in Workers |-> IF ProcOf[w] = p THEN Idle ELSE call[w]]
    /\ UNCHANGED <<now, dbLocked, rows, grants>>

\* Another program takes or releases the file.
ToggleLock ==
    /\ dbLocked' = ~dbLocked
    /\ UNCHANGED <<now, conn, rows, call, grants, burned>>

Tick ==
    /\ now < MaxNow
    /\ now' = now + 1
    /\ UNCHANGED storeVars
-----------------------------------------------------------------------------
Progress(w) == Insert(w) \/ Replay(w) \/ Unavailable(w) \/ Return(w)

Next ==
    \/ \E p \in Procs : Open(p) \/ Close(p) \/ Crash(p)
    \/ \E w \in Workers :
          \/ \E a \in ApprovalSet, plan \in Plans, requester \in Subjects, at \in 0..now :
                Call(w, a, plan, requester, at)
          \/ Progress(w)
    \/ ToggleLock
    \/ Tick

Spec == Init /\ [][Next]_vars
-----------------------------------------------------------------------------
Accepted(w, i) == call[w].pc = "accepted" /\ IdOf(w) = i

\* No approval_id is ever granted to two callers, whichever threads,
\* processes and restarts are between them (module docstring, "Consumo
\* atomico real").
AtMostOnce == \A i \in Ids : grants[i] <= 1

\* Consumption is conserved: an id has a row exactly when one caller was told
\* it is his, or is about to be, or died before he could be, and these three
\* exclude one another.  So no refused or raising call leaves a row behind
\* and no grant lacks one.
ConsumptionAccounted ==
    /\ \A i \in Ids : Consumed(i) <=> \/ grants[i] = 1
                                      \/ i \in burned
                                      \/ \E w \in Workers : Accepted(w, i)
    /\ \A i \in Ids : grants[i] # 0 => grants[i] = 1 /\ i \notin burned
    /\ \A w \in Workers, i \in Ids :
          Accepted(w, i) => grants[i] = 0 /\ i \notin burned
    /\ \A v, w \in Workers, i \in Ids : Accepted(v, i) /\ Accepted(w, i) => v = w

\* What the table records was approved: an unexpired APPROVE, signed for the
\* very plan the row is bound to, by someone other than the executor.
RowsWereApproved ==
    \A r \in rows : \E a \in ApprovalSet :
        /\ a.approval_id = r.approval_id
        /\ a.decision = "APPROVE" /\ a.approver_id # ExecutorId
        /\ a.signature_ref = <<r.approval_id, r.action_binding>>
        /\ r.consumed_at <= a.expires_at

\* A row is never deleted, rebound or overwritten, not even by a restart.
RowsAreForever == [][rows \subseteq rows']_vars

\* The store implements the abstract promise.
Promise == INSTANCE ConsumeOnce
ImplementsConsumeOnce == Promise!Spec

\* What the text promises and the code does not do.  The store "se inyecta
\* exactamente igual que ApprovalStore": with an open connection only an
\* outage of the file makes it refuse a call as unavailable.
UnavailableOnlyInOutage ==
    [][\A w \in Workers : call[w].pc = "insert" /\ call'[w].pc = "unavailable"
                             /\ conn[ProcOf[w]] = "open" => dbLocked]_vars
==============================================================================
