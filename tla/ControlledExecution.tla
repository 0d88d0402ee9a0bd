------------------------- MODULE ControlledExecution -------------------------
(***************************************************************************)
(* mcp_gateway/controlled_execution.py, execute_with_authorization:        *)
(* Gateway.authorize and, if it allows, the executor of the tool with the  *)
(* IdempotencyStore its process keeps for it (executors/).                 *)
(*                                                                         *)
(* The three executors share one shape: look the key up, cause the effect  *)
(* unless dry_run, build and validate the ActionResult, remember it.  The  *)
(* effect is on the cluster, which outlives the processes and is seen by   *)
(* all of them; an IdempotencyStore is not and is not.                     *)
(***************************************************************************)
EXTENDS Gateway

CONSTANT Keys   \* idempotency keys

\* Besides the gateway's fields a request has an idempotency_key and says
\* whether the ActionResult built from its run_id, action_id, ... satisfies
\* the action-result contract.
ASSUME KeysAssumption ==
    \A r \in Requests : r.idempotency_key \in Keys /\ r.contract_ok \in BOOLEAN

VARIABLES
    idem,       \* per process, tool and key: the ActionResult remembered, or None
    contained,  \* the cluster: <<tool, target>> pairs in effect
    work,       \* per worker: the executor call it is in
    effects,    \* per request: how often it changed the cluster (history)
    repeated,   \* per process: <<tool, key>> pairs that took effect in this lifetime (history)
    abandoned   \* requests authorized by a process that died before their effect (history)

execVars == <<idem, contained, work, effects, repeated, abandoned>>
allVars == <<vars, execVars>>

ActionResult == [tool : Tools, target : {r.target : r \in Requests},
                 dry_run : BOOLEAN, passed : BOOLEAN]
ASSUME NoneAssumption == None \notin ActionResult
NotWorking == [pc |-> "none"]
Works == [pc : {"none", "effect", "record", "failed"}]
         \cup [pc : {"done"}, result : ActionResult]

ExecTypeOK ==
    /\ TypeOK
    /\ idem \in [Procs -> [Tools -> [Keys -> ActionResult \cup {None}]]]
    /\ contained \subseteq Tools \X {r.target : r \in Requests}
    /\ work \in [Workers -> Works]
    /\ effects \in [Requests -> Nat]
    /\ repeated \in [Procs -> SUBSET (Tools \X Keys)]
    /\ abandoned \subseteq Requests

NoResults == [tool \in Tools |-> [key \in Keys |-> None]]

ExecInit ==
    /\ Init
    /\ idem = [p \in Procs |-> NoResults]
    /\ contained = {}
    /\ work = [w \in Workers |-> NotWorking]
    /\ effects = [r \in Requests |-> 0]
    /\ repeated = [p \in Procs |-> {}]
    /\ abandoned = {}

\* Faulty: dry_run is left at False.
DryRun_Never(r) == FALSE
DryRun(r) == r.action # "execute"
-----------------------------------------------------------------------------
\* Faulty: results are looked up by tool, whatever the key.
Lookup_AnyKey(w) ==
    /\ session[w].pc = "authorized"
    /\ work[w] = NotWorking
    /\ LET r == session[w].req
           known == {idem[ProcOf[w]][r.tool_name][key] : key \in Keys} \ {None}
       IN work' = [work EXCEPT ![w] = IF known # {}
                                        THEN [pc |-> "done", result |-> CHOOSE x \in known : TRUE]
                                        ELSE [pc |-> "effect"]]
    /\ UNCHANGED <<vars, idem, contained, effects, repeated, abandoned>>

\* The executor looks its key up and hands a remembered result back.
Lookup(w) ==
    /\ session[w].pc = "authorized"
    /\ work[w] = NotWorking
    /\ LET r == session[w].req
           cached == idem[ProcOf[w]][r.tool_name][r.idempotency_key]
       IN work' = [work EXCEPT ![w] = IF cached # None
                                        THEN [pc |-> "done", result |-> cached]
                                        ELSE [pc |-> "effect"]]
    /\ UNCHANGED <<vars, idem, contained, effects, repeated, abandoned>>

\* Faulty: what is isolated is noted without the tool.
Effect_BareTarget(w) ==
    /\ work[w].pc = "effect"
    /\ contained' = contained \cup {session[w].req.target}
    /\ work' = [work EXCEPT ![w] = [pc |-> "record"]]
    /\ UNCHANGED <<vars, idem, effects, repeated, abandoned>>

\* Faulty: the effect waits for the approval database.
Effect_AwaitsFile(w) ==
    /\ work[w].pc = "effect"
    /\ ~dbLocked
    /\ effects' = [effects EXCEPT ![session[w].req] = @ + 1]
    /\ work' = [work EXCEPT ![w] = [pc |-> "record"]]
    /\ UNCHANGED <<vars, idem, contained, repeated, abandoned>>

\* apply_isolation, scale_to_zero or increase_monitoring, unless dry_run.
Effect(w) ==
    /\ work[w].pc = "effect"
    /\ LET r == session[w].req IN
       IF DryRun(r)
         THEN UNCHANGED <<contained, effects, repeated>>
         ELSE /\ contained' = contained \cup {<<r.tool_name, r.target>>}
              /\ effects' = [effects EXCEPT ![r] = @ + 1]
              /\ repeated' = [repeated EXCEPT ![ProcOf[w]] =
                                 @ \cup {<<r.tool_name, r.idempotency_key>>}]
    /\ work' = [work EXCEPT ![w] = [pc |-> "record"]]
    /\ UNCHANGED <<vars, idem, abandoned>>

ResultFor(r, dry_run) ==
    [tool |-> r.tool_name, target |-> r.target, dry_run |-> dry_run,
     passed |-> dry_run \/ <<r.tool_name, r.target>> \in contained]

\* Faulty: the result is not remembered.
Record_Forgets(w) ==
    /\ work[w].pc = "record"
    /\ work' = [work EXCEPT ![w] = [pc |-> "done",
                                    result |-> ResultFor(session[w].req, DryRun(session[w].req))]]
    /\ UNCHANGED <<vars, idem, contained, effects, repeated, abandoned>>

\* Faulty: every result claims to be a dry-run's.
Record_ClaimsDryRun(w) ==
    /\ work[w].pc = "record"
    /\ work' = [work EXCEPT ![w] = [pc |-> "done", result |-> ResultFor(session[w].req, TRUE)]]
    /\ UNCHANGED <<vars, idem, contained, effects, repeated, abandoned>>

\* The ActionResult is built from the state now, validated and remembered;
\* if it violates the contract the executor raises InvalidActionResult.
Record(w) ==
    /\ work[w].pc = "record"
    /\ LET r == session[w].req
           result == ResultFor(r, DryRun(r))
       IN IF r.contract_ok
            THEN /\ idem' = [idem EXCEPT ![ProcOf[w]][r.tool_name][r.idempotency_key] = result]
                 /\ work' = [work EXCEPT ![w] = [pc |-> "done", result |-> result]]
            ELSE /\ work' = [work EXCEPT ![w] = [pc |-> "failed"]]
                 /\ UNCHANGED idem
    /\ UNCHANGED <<vars, contained, effects, repeated, abandoned>>

\* execute_with_authorization returns its ExecutionOutcome, or raises: at
\* once if authorize did not allow, after the executor if it did.
Complete(w) ==
    /\ Finish(w)
    /\ session[w].pc = "authorized" => work[w].pc \in {"done", "failed"}
    /\ work' = [work EXCEPT ![w] = NotWorking]
    /\ UNCHANGED <<idem, contained, effects, repeated, abandoned>>
-----------------------------------------------------------------------------
\* Requests in the hands of p that were authorized and had no effect yet.
Unserved(p) == {session[w].req : w \in {v \in Workers :
                    /\ ProcOf[v] = p
                    /\ session[v].pc = "authorized"
                    /\ work[v].pc \in {"none", "effect"}}}

CrashAll(p) ==
    /\ Crash(p)
    /\ idem' = [idem EXCEPT ![p] = NoResults]
    /\ work' = [w \in Workers |-> IF ProcOf[w] = p THEN NotWorking ELSE work[w]]
    /\ repeated' = [repeated EXCEPT ![p] = {}]
    /\ abandoned' = abandoned \cup Unserved(p)
    /\ UNCHANGED <<contained, effects>>

Executor(w) == Lookup(w) \/ Effect(w) \/ Record(w)

ExecNext ==
    \/ \E w \in Workers :
          \/ \E r \in Requests : Receive(w, r) /\ UNCHANGED execVars
          \/ Step(w) /\ UNCHANGED execVars
          \/ Executor(w) \/ Complete(w)
    \/ \E p \in Procs : Start(p) /\ UNCHANGED execVars
    \/ \E p \in Procs : CrashAll(p)
    \/ (Environment \/ Tick) /\ UNCHANGED execVars

ExecSpec == ExecInit /\ [][ExecNext]_allVars
\* A thread that is inside execute_with_authorization keeps running.
ExecFairSpec ==
    ExecSpec /\ \A w \in Workers :
        WF_allVars((Step(w) /\ UNCHANGED execVars) \/ Executor(w) \/ Complete(w))
-----------------------------------------------------------------------------
Executions == {r \in Requests : NeedsApproval(r)}

\* One approval, one change of the cluster: over all requests that present
\* it, whatever threads, processes, retries and crashes are between them.
OneEffectPerApproval ==
    \A r, s \in {q \in Executions : effects[q] > 0} :
        effects[r] = 1
        /\ (r.approval.approval_id = s.approval.approval_id => r = s)

\* The cluster is changed only by executions the gateway allowed, as often as
\* it allowed them: dry-runs, denials and cached answers leave it alone.
EffectsAreAuthorized ==
    /\ \A r \in Requests : effects[r] > 0 => r.action = "execute" /\ effects[r] <= authorized[r]
    /\ \A c \in contained : \E r \in Requests :
          effects[r] > 0 /\ c = <<r.tool_name, r.target>>

\* An authorized execution is never silently lost: it has changed the cluster,
\* is about to, or its process died first.  So an approval is spent in vain
\* only by a crash.
ApprovalIsWellSpent ==
    \A r \in Executions : authorized[r] > 0 =>
        \/ effects[r] > 0
        \/ r \in abandoned
        \/ \E w \in Workers : /\ session[w].pc = "authorized" /\ session[w].req = r
                              /\ work[w].pc \in {"none", "effect"}

\* The caller's ActionResult speaks of what was asked: the same tool and
\* target, a dry-run for a dry-run, an execution for an execution.
AnswerMatchesRequest ==
    \A w \in Workers : work[w].pc = "done" =>
        LET r == session[w].req IN
        /\ work[w].result.tool = r.tool_name
        /\ work[w].result.target = r.target
        /\ work[w].result.dry_run <=> r.action # "execute"
        /\ work[w].result.passed

\* A retry with the same key does not repeat the effect while the process
\* lives (docs/architecture.md, "no duplica el efecto ante un reintento").
RetryHasNoEffect ==
    [][\A w \in Workers : work[w].pc = "effect" /\ effects'[session[w].req] > effects[session[w].req] =>
          <<session[w].req.tool_name, session[w].req.idempotency_key>> \notin repeated[ProcOf[w]]]_allVars

\* An authorized execution takes effect in the end, unless its process dies.
AuthorizedTakesEffect ==
    \A w \in Workers, r \in Executions :
        session[w].pc = "authorized" /\ session[w].req = r
            ~> effects[r] > 0 \/ r \in abandoned
==============================================================================
