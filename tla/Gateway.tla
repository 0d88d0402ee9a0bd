------------------------------- MODULE Gateway -------------------------------
(***************************************************************************)
(* mcp_gateway/__init__.py: Gateway.authorize, composed of the rate        *)
(* limiter of its process and of the approval store that the processes     *)
(* share (approval_store=DurableApprovalStore(...)).                       *)
(*                                                                         *)
(* The limiter's read and write and the store's INSERT are steps of their  *)
(* own; every check in between looks at the request alone, so the checks   *)
(* are one step with the call that precedes them.  effective_now is fixed  *)
(* when the request is received and used for every check.                  *)
(***************************************************************************)
EXTENDS Approvals, RateLimiter

CONSTANTS
    Opener,
    Ids, Plans, Subjects, ExecutorId, ApprovalSet,
    Catalog,          \* per tool: the fields of its ToolDefinition that authorize reads
    DeniedInP0,       \* tool_catalog.DENIED_IN_P0
    Allowlist,        \* per tool: target-allowlists/*.yaml
    Requests,         \* the calls made of the gateway: ToolCallRequest and current_plan_hash
    None              \* Python's None

ASSUME OpenerAssumption == Opener \in [Procs -> Workers]
ASSUME ApprovalsAssumption == ApprovalSet \subseteq ApprovalRecord(Ids, Subjects, Plans)
ASSUME RequestsAssumption ==
    \A r \in Requests : /\ r.approval \in ApprovalSet \cup {None}
                        /\ r.current_plan_hash \in Plans \cup {None}
                        /\ r.subject \in Subjects
                        /\ r.safety_envelope # None => r.safety_envelope.valid_until \in Nat

VARIABLES
    conn, dbLocked, rows, call, grants, burned,   \* DurableApprovalStore
    session,      \* per worker: the call of authorize it is in
    authorized    \* per request: how often authorize allowed it (history)

storeVars   == <<conn, dbLocked, rows, call, grants, burned>>
gatewayVars == <<session, authorized>>
vars == <<now, storeVars, limiterVars, gatewayVars>>

Store == INSTANCE DurableApprovalStore

Waiting == [pc |-> "idle"]
\* The checks that deny; each gives its own AuthorizationResult.reason.
Reasons == {"P0", "rate_limit", "mode", "scope", "allowlist", "safety_chain", "approval"}
Sessions == [pc : {"idle", "raised"}]
            \cup [pc : {"denied"}, why : Reasons]
            \cup [pc : {"limiting", "consuming"}, req : Requests, at : 0..MaxNow]
            \cup [pc : {"authorized"}, req : Requests]

TypeOK ==
    /\ Store!TypeOK
    /\ LimiterTypeOK
    /\ session \in [Workers -> Sessions]
    /\ authorized \in [Requests -> Nat]

Init ==
    /\ Store!Init
    /\ LimiterInit
    /\ session = [w \in Workers |-> Waiting]
    /\ authorized = [r \in Requests |-> 0]
-----------------------------------------------------------------------------
OnAllowlist(r) ==
    Catalog[r.tool_name].target_allowlist_required => r.target \in Allowlist[r.tool_name]

EnvelopeCovers(e, r) ==
    /\ r.target \in e.target_set
    /\ r.action \in e.allowed_actions
    /\ e.required_runbook = r.tool_name

VerificationCovers(v, r) ==
    /\ v # None
    /\ v.state = "VERIFIED"
    /\ v.envelope_hash = r.safety_envelope.envelope_hash
    /\ v.tool_name = r.tool_name /\ v.target = r.target

\* _check_safety_chain: a valid_until without a time zone gets past the
\* parser and raises TypeError in the comparison.
SafetyChain(r, at) ==
    LET e == r.safety_envelope IN
    IF e = None \/ ~e.hash_well_formed \/ e.stamp = "unreadable" THEN "safety_chain"
    ELSE IF e.stamp = "naive" THEN "raise"
    ELSE IF \/ at > e.valid_until
            \/ ~EnvelopeCovers(e, r)
            \/ ~VerificationCovers(r.verification_result, r) THEN "safety_chain"
    ELSE "ok"

\* Faulty: the gateway believes the caller's plan hash (R0-01-RESIDUAL).
PlanBound_Unchecked(r) == r.approval # None /\ r.current_plan_hash # None

\* The plan hash is recomputed from the request and its envelope.
PlanBound(r) ==
    /\ r.approval # None /\ r.current_plan_hash # None
    /\ r.current_plan_hash = PlanHash(r.tool_name, r.target, r.action,
                                      r.safety_envelope.envelope_hash)

\* Faulty: the safety chain is taken for the approval.
Verdict_NoApproval(r, at) ==
    LET tool == Catalog[r.tool_name] IN
    IF r.action \notin tool.mode THEN "mode"
    ELSE IF tool.required_scope \notin r.granted_scopes THEN "scope"
    ELSE IF ~OnAllowlist(r) THEN "allowlist"
    ELSE IF r.action # "execute" THEN "allow"
    ELSE IF SafetyChain(r, at) # "ok" THEN SafetyChain(r, at)
    ELSE "allow"

\* Faulty: the allowlist is asked after the safety chain.
Verdict_AllowlistLast(r, at) ==
    LET tool == Catalog[r.tool_name] IN
    IF r.action \notin tool.mode THEN "mode"
    ELSE IF tool.required_scope \notin r.granted_scopes THEN "scope"
    ELSE IF r.action = "execute" /\ SafetyChain(r, at) # "ok" THEN SafetyChain(r, at)
    ELSE IF ~OnAllowlist(r) THEN "allowlist"
    ELSE IF r.action # "execute" \/ ~tool.approval_required THEN "allow"
    ELSE IF PlanBound(r) THEN "consume"
    ELSE "approval"

\* What authorize does with an attempt the limiter has let through: the
\* first check that refuses it gives the reason.
Verdict(r, at) ==
    LET tool == Catalog[r.tool_name] IN
    IF r.action \notin tool.mode THEN "mode"
    ELSE IF tool.required_scope \notin r.granted_scopes THEN "scope"
    ELSE IF ~OnAllowlist(r) THEN "allowlist"
    ELSE IF r.action # "execute" THEN "allow"
    ELSE IF SafetyChain(r, at) # "ok" THEN SafetyChain(r, at)
    ELSE IF ~tool.approval_required THEN "allow"
    ELSE IF PlanBound(r) THEN "consume"
    ELSE "approval"

Allow(w, r) == /\ session' = [session EXCEPT ![w] = [pc |-> "authorized", req |-> r]]
               /\ authorized' = [authorized EXCEPT ![r] = @ + 1]
Deny(w, why) == /\ session' = [session EXCEPT ![w] = [pc |-> "denied", why |-> why]]
                /\ UNCHANGED authorized
Raise(w) == /\ session' = [session EXCEPT ![w] = [pc |-> "raised"]]
            /\ UNCHANGED authorized
-----------------------------------------------------------------------------
\* Faulty: the attempt is counted before the tool is looked up.
Receive_CountsUnknown(w, r) ==
    /\ session[w] = Waiting
    /\ conn[ProcOf[w]] # "none"
    /\ Enter(w, r.tool_name)
    /\ session' = [session EXCEPT ![w] = [pc |-> "limiting", req |-> r, at |-> now]]
    /\ UNCHANGED <<authorized, now, storeVars>>

\* ToolNotFound, the unconditional DENY of the P0, or on to the limiter.
Receive(w, r) ==
    /\ session[w] = Waiting
    /\ conn[ProcOf[w]] # "none"
    /\ \/ /\ r.tool_name \notin Tools
          /\ Raise(w) /\ UNCHANGED limiterVars
       \/ /\ r.tool_name \in Tools
          /\ Catalog[r.tool_name].side_effect_class \in DeniedInP0
          /\ Deny(w, "P0") /\ UNCHANGED limiterVars
       \/ /\ r.tool_name \in Tools
          /\ Catalog[r.tool_name].side_effect_class \notin DeniedInP0
          /\ Enter(w, r.tool_name)
          /\ session' = [session EXCEPT ![w] = [pc |-> "limiting", req |-> r, at |-> now]]
          /\ UNCHANGED authorized
    /\ UNCHANGED <<now, storeVars>>

\* The two halves of check_and_record.
CountAttempt(w) ==
    /\ Read(w) \/ Limit(w) \/ Admit(w)
    /\ UNCHANGED <<storeVars, gatewayVars>>

\* The limiter has answered: the remaining checks, up to the store if one
\* is to be asked.
Decide(w) ==
    /\ session[w].pc = "limiting"
    /\ Leave(w)
    /\ LET r == session[w].req
           at == session[w].at
           verdict == IF check[w].pc = "limited" THEN "rate_limit" ELSE Verdict(r, at)
       IN \/ verdict \in Reasons /\ Deny(w, verdict) /\ UNCHANGED storeVars
          \/ verdict = "raise" /\ Raise(w) /\ UNCHANGED storeVars
          \/ verdict = "allow" /\ Allow(w, r) /\ UNCHANGED storeVars
          \/ /\ verdict = "consume"
             /\ Store!Call(w, r.approval, r.current_plan_hash, r.subject, at)
             /\ session' = [session EXCEPT ![w].pc = "consuming"]
             /\ UNCHANGED authorized

Consume(w) ==
    /\ Store!Insert(w) \/ Store!Replay(w) \/ Store!Unavailable(w)
    /\ UNCHANGED <<limiterVars, gatewayVars>>

\* Faulty: fail-open when the store does not answer.
Answer_FailOpen(w) ==
    /\ session[w].pc = "consuming"
    /\ Store!Return(w)
    /\ CASE call[w].pc \in {"accepted", "unavailable"} -> Allow(w, session[w].req)
         [] call[w].pc = "raised"   -> Raise(w)
         [] OTHER                   -> Deny(w, "approval")
    /\ UNCHANGED limiterVars

\* Faulty: the expiry is checked once more after the approval is consumed.
Answer_ChecksAgain(w) ==
    /\ session[w].pc = "consuming"
    /\ Store!Return(w)
    /\ CASE call[w].pc = "accepted" /\ now <= session[w].req.approval.expires_at
                                     -> Allow(w, session[w].req)
         [] call[w].pc = "raised"   -> Raise(w)
         [] OTHER                   -> Deny(w, "approval")
    /\ UNCHANGED limiterVars

\* Every ApprovalRejected is a denial; any other exception leaves authorize.
Answer(w) ==
    /\ session[w].pc = "consuming"
    /\ Store!Return(w)
    /\ CASE call[w].pc = "accepted" -> Allow(w, session[w].req)
         [] call[w].pc = "raised"   -> Raise(w)
         [] OTHER                   -> Deny(w, "approval")
    /\ UNCHANGED limiterVars

\* The caller has its AuthorizationResult and may call again.
Finish(w) ==
    /\ session[w].pc \in {"authorized", "denied", "raised"}
    /\ session' = [session EXCEPT ![w] = Waiting]
    /\ UNCHANGED <<now, storeVars, limiterVars, authorized>>
-----------------------------------------------------------------------------
\* A gateway process: its store is opened, and its death takes the limiter
\* and every call in flight with it.
Start(p) == Store!Open(p) /\ UNCHANGED <<limiterVars, gatewayVars>>

Crash(p) ==
    /\ Store!Crash(p)
    /\ Restart(p)
    /\ session' = [w \in Workers |-> IF ProcOf[w] = p THEN Waiting ELSE session[w]]
    /\ UNCHANGED authorized

Environment ==
    /\ Store!ToggleLock
    /\ UNCHANGED <<limiterVars, gatewayVars>>

Tick ==
    /\ now < MaxNow
    /\ now' = now + 1
    /\ UNCHANGED <<storeVars, limiterVars, gatewayVars>>

Step(w) == CountAttempt(w) \/ Decide(w) \/ Consume(w) \/ Answer(w)

Next ==
    \/ \E w \in Workers :
          \/ \E r \in Requests : Receive(w, r)
          \/ Step(w) \/ Finish(w)
    \/ \E p \in Procs : Start(p) \/ Crash(p)
    \/ Environment
    \/ Tick

Spec == Init /\ [][Next]_vars
-----------------------------------------------------------------------------
NeedsApproval(r) == /\ r.action = "execute"
                    /\ r.tool_name \in Tools
                    /\ Catalog[r.tool_name].approval_required

\* One approval authorizes at most one execution, over all requests that
\* present it, all processes and all restarts.
OneExecutionPerApproval ==
    \A r, s \in {q \in Requests : NeedsApproval(q) /\ authorized[q] > 0} :
        /\ authorized[r] = 1
        /\ r.approval.approval_id = s.approval.approval_id => r = s

\* An authorized execution rests on a consumed approval for exactly its tool,
\* target, action and safety envelope, given by someone other than its
\* requester (docs/architecture.md, "Approval.plan_hash debe coincidir
\* exactamente con la accion ejecutada").
ExecutionIsBound ==
    \A r \in Requests : NeedsApproval(r) /\ authorized[r] > 0 =>
        /\ r.approval.approver_id # r.subject
        /\ r.verification_result.envelope_hash = r.safety_envelope.envelope_hash
        /\ \E row \in rows :
              /\ row.approval_id = r.approval.approval_id
              /\ row.action_binding = PlanHash(r.tool_name, r.target, "execute",
                                               r.safety_envelope.envelope_hash)
              /\ row.consumed_at <= r.safety_envelope.valid_until

\* Nothing but an execution spends an approval: an id has a row only if a
\* request that presents it was authorized or is being answered, or its
\* process died with the answer.  No denial, of any check, burns one.
DenialSpendsNothing ==
    \A row \in rows :
        \/ row.approval_id \in burned
        \/ \E r \in Requests : /\ NeedsApproval(r) /\ authorized[r] > 0
                               /\ r.approval.approval_id = row.approval_id
        \/ \E w \in Workers : /\ session[w].pc = "consuming"
                              /\ session[w].req.approval.approval_id = row.approval_id
                              /\ call[w].pc = "accepted"

\* Every call of authorize ends, whatever the file does (or its process dies).
AuthorizeReturns ==
    \A w \in Workers :
        session[w].pc \in {"limiting", "consuming"}
            ~> session[w].pc \notin {"limiting", "consuming"}
==============================================================================
