------------------------------ MODULE MCAttackPath ----------------------------
(* Two gateway processes of one thread each, on one approval database, that *)
(* serve clients and validations.  The catalogue has a tool that needs an   *)
(* approval, one that does not, and one the P0 denies; each request but the *)
(* sound ones has a single defect.                                          *)
EXTENDS AttackPath, TLC

CONSTANTS t1, t2, p1, p2, i1, i2, bot, ana, gw, A, B, h1, h2,
          iso, mon, wipe, ghost, respond, monitor

MCProcOf == t1 :> p1 @@ t2 :> p2
MCOpener == p1 :> t1 @@ p2 :> t2

Tool(class, scope, approval, allowlist) ==
    [side_effect_class |-> class, mode |-> {"dry-run", "execute"},
     required_scope |-> scope, approval_required |-> approval,
     target_allowlist_required |-> allowlist]

MCCatalog == iso  :> Tool("REVERSIBLE_WRITE", respond, TRUE, TRUE)
          @@ mon  :> Tool("REVERSIBLE_WRITE", monitor, FALSE, FALSE)
          @@ wipe :> Tool("DESTRUCTIVE", respond, TRUE, TRUE)
MCLimits    == iso :> 2 @@ mon :> 1 @@ wipe :> 2
MCAllowlist == [tool \in {iso, mon, wipe} |-> {A}]

Plan1 == PlanHash(iso, A, "execute", h1)
Plan2 == PlanHash(iso, A, "execute", h2)
MCPlans == {Plan1, Plan2}

Appr(i, who, expires, readable, plan) ==
    [approval_id |-> i, approver_id |-> who, decision |-> "APPROVE",
     expires_at |-> expires, readable |-> readable, signature_ref |-> <<i, plan>>]
Approval1 == Appr(i1, ana, 0, TRUE, Plan1)
Approval2 == Appr(i2, ana, 1, TRUE, Plan2)
Illegible == Appr(i2, ana, 1, FALSE, Plan1)
MCApprovals == {Approval1, Approval2, Illegible}

Envelope(h, tool, stamp) ==
    [envelope_hash |-> h, hash_well_formed |-> TRUE, stamp |-> stamp, valid_until |-> 1,
     target_set |-> {A, B}, allowed_actions |-> {"execute"}, required_runbook |-> tool]
Verified(h, tool, target, state) ==
    [state |-> state, envelope_hash |-> h, tool_name |-> tool, target |-> target]

Req(tool, action, appr, plan) ==
    [tool_name |-> tool, target |-> A, action |-> action, subject |-> bot,
     granted_scopes |-> {respond, monitor}, approval |-> appr,
     safety_envelope |-> Envelope(h1, tool, "aware"),
     verification_result |-> Verified(h1, tool, A, "VERIFIED"),
     current_plan_hash |-> plan]

Sound1  == Req(iso, "execute", Approval1, Plan1)
Sound2  == [Req(iso, "execute", Approval2, Plan2) EXCEPT
               !.safety_envelope = Envelope(h2, iso, "aware"),
               !.verification_result = Verified(h2, iso, A, "VERIFIED")]
\* Another client presents the first approval for the same plan.
Stolen  == [Sound1 EXCEPT !.subject = gw]
\* The approval of one incident is presented under the envelope of another.
Swapped == [Sound2 EXCEPT !.approval = Approval1, !.current_plan_hash = Plan1]
\* Segregation, verification, scope, missing approval.
Selfish == [Sound1 EXCEPT !.subject = ana]
Unverified == [Sound1 EXCEPT !.verification_result = Verified(h1, iso, A, "REJECTED")]
Unscoped  == [Sound1 EXCEPT !.granted_scopes = {monitor}]
Bare      == [Sound1 EXCEPT !.approval = None, !.current_plan_hash = None]
\* The two exceptions an untidy timestamp raises, with an approval at stake.
NaiveEnvelope == [Sound1 EXCEPT !.safety_envelope = Envelope(h1, iso, "naive")]
Garbled       == [Sound1 EXCEPT !.approval = Illegible]

\* What validations ask: a tool that needs an approval, on and off its
\* allowlist; one that does not, with and without a safety chain; the one the
\* P0 denies and one that is not there.
Open(tool) == Req(tool, "execute", None, None)
Undated == [Open(iso) EXCEPT !.safety_envelope = Envelope(h1, iso, "naive")]
MCProbes ==
    {Bare, Undated, Open(mon), Open(wipe), Open(ghost),
     [Open(iso) EXCEPT !.target = B, !.safety_envelope = None, !.verification_result = None],
     [Open(mon) EXCEPT !.safety_envelope = None, !.verification_result = None]}

MCRequests ==
    {Sound1, Sound2, Stolen, Swapped, Selfish, Unverified, Unscoped,
     Garbled, NaiveEnvelope,
     Req(iso, "dry-run", None, None)} \cup MCProbes

\* The two processes, each with its thread, are interchangeable.
Swap == t1 :> t2 @@ t2 :> t1 @@ p1 :> p2 @@ p2 :> p1
Exchange == {Swap}
==============================================================================
