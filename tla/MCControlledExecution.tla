----------------------- MODULE MCControlledExecution -----------------------
(* Two processes of one thread each, or one alone.                          *)
EXTENDS ControlledExecution, TLC

CONSTANTS t1, t2, p1, p2, i1, bot, ana, A, B, h1, iso, mon, respond, k0, k1, k2, k3

TwoProcesses  == t1 :> p1 @@ t2 :> p2
OwnConnection == p1 :> t1 @@ p2 :> t2
OneThread     == t1 :> p1
OneConnection == p1 :> t1

Tool(approval) ==
    [side_effect_class |-> "REVERSIBLE_WRITE", mode |-> {"dry-run", "execute"},
     required_scope |-> respond, approval_required |-> approval,
     target_allowlist_required |-> approval]
MCCatalog   == iso :> Tool(TRUE) @@ mon :> Tool(FALSE)
MCLimits    == iso :> 2 @@ mon :> 2
MCAllowlist == [tool \in {iso, mon} |-> {A, B}]

PlanA == PlanHash(iso, A, "execute", h1)
PlanB == PlanHash(iso, B, "execute", h1)
MCPlans == {PlanA, PlanB}
Approval == [approval_id |-> i1, approver_id |-> ana, decision |-> "APPROVE",
             expires_at |-> 0, readable |-> TRUE, signature_ref |-> <<i1, PlanA>>]
MCApprovals == {Approval}

Req(tool, target, action, key) ==
    [tool_name |-> tool, target |-> target, action |-> action, subject |-> bot,
     granted_scopes |-> {respond},
     approval |-> IF tool = iso /\ action = "execute" THEN Approval ELSE None,
     current_plan_hash |-> IF target = A THEN PlanA ELSE PlanB,
     safety_envelope |->
        [envelope_hash |-> h1, hash_well_formed |-> TRUE, stamp |-> "aware",
         valid_until |-> 0, target_set |-> {A, B}, allowed_actions |-> {"execute"},
         required_runbook |-> tool],
     verification_result |->
        [state |-> "VERIFIED", envelope_hash |-> h1, tool_name |-> tool, target |-> target],
     idempotency_key |-> key, contract_ok |-> TRUE]

Isolate == Req(iso, A, "execute", k1)
Watch   == Req(mon, A, "execute", k1)

\* Every action has a key of its own; a retry, or another client, repeats it.
OwnKeys == {Isolate, [Isolate EXCEPT !.idempotency_key = k2], Req(iso, B, "execute", k3),
            Req(iso, A, "dry-run", k0), Watch}
\* A dry-run and the execution it rehearses carry the same key.
SharedKey == {Isolate, Req(iso, A, "dry-run", k1)}
\* One action of each tool; the second one's result violates its contract.
TwoRequests == {Isolate, [Watch EXCEPT !.contract_ok = FALSE]}
==============================================================================
