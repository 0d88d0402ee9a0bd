------------------------------ MODULE AttackPath ------------------------------
(***************************************************************************)
(* graph/attack_path.py: validate_attack_path asks a Gateway whether an    *)
(* execute without an Approval would get through, and classifies the       *)
(* answer.                                                                 *)
(*                                                                         *)
(* The Gateway may be one that serves other clients meanwhile: the         *)
(* validation is one more call of authorize, with everything that call     *)
(* does.  The classification searches the text of the reason for           *)
(* "Approval", "SafetyEnvelope" and "VerificationResult"; the checks whose *)
(* texts hold one are the safety chain and the approval.  (The allowlist's *)
(* text quotes the target, a Kubernetes name, which is in lower case.)     *)
(***************************************************************************)
EXTENDS Gateway

CONSTANT Probes   \* the requests validations make

ASSUME ProbesAssumption ==
    \A r \in Probes : /\ r \in Requests /\ r.action = "execute"
                      /\ r.approval = None /\ r.current_plan_hash = None

VARIABLE probe   \* per worker: the request of the validation it is in, or None

pathVars == <<vars, probe>>

PathTypeOK == TypeOK /\ probe \in [Workers -> Probes \cup {None}]

PathInit == Init /\ probe = [w \in Workers |-> None]

Answered(w) == session[w].pc \in {"authorized", "denied", "raised"}

\* AttackPathResult.decision: of the exceptions only ToolNotFound is caught.
Decision(w) ==
    LET s == session[w]
        barrier == {"safety_chain", "approval"}
    IN
    CASE s.pc = "authorized" -> "GATE_BYPASSED"
      [] s.pc = "denied" /\ s.why \in barrier -> "VALIDATED"
      [] s.pc = "denied" /\ s.why \notin barrier -> "OUT_OF_SCOPE"
      [] s.pc = "raised" /\ probe[w].tool_name \notin Tools -> "OUT_OF_SCOPE"
      [] OTHER -> "raised"
-----------------------------------------------------------------------------
\* A client calls authorize, or a validation does.
Ask(w, r)      == Receive(w, r) /\ UNCHANGED probe
Validate(w, r) == Receive(w, r) /\ probe' = [probe EXCEPT ![w] = r]

\* The AttackPathResult, or the AuthorizationResult, is returned.
Conclude(w) == Finish(w) /\ probe' = [probe EXCEPT ![w] = None]

CrashPath(p) ==
    /\ Crash(p)
    /\ probe' = [w \in Workers |-> IF ProcOf[w] = p THEN None ELSE probe[w]]

PathNext ==
    \/ \E w \in Workers :
          \/ \E r \in Requests : Ask(w, r)
          \/ \E r \in Probes : Validate(w, r)
          \/ Step(w) /\ UNCHANGED probe
          \/ Conclude(w)
    \/ \E p \in Procs : Start(p) /\ UNCHANGED probe
    \/ \E p \in Procs : CrashPath(p)
    \/ (Environment \/ Tick) /\ UNCHANGED probe

PathSpec == PathInit /\ [][PathNext]_pathVars
-----------------------------------------------------------------------------
Reported(w, decision) == probe[w] # None /\ Answered(w) /\ Decision(w) = decision

\* The gateway refuses r whatever approvals and safety chains it has.
Excluded(r) ==
    \/ r.tool_name \notin Tools
    \/ LET tool == Catalog[r.tool_name] IN
       \/ tool.side_effect_class \in DeniedInP0
       \/ r.action \notin tool.mode
       \/ tool.required_scope \notin r.granted_scopes
       \/ ~OnAllowlist(r)

\* A class is earned, whatever else the gateway serves meanwhile.  VALIDATED
\* credits a barrier that is there: the request is not excluded, and its tool
\* asks for an approval or its safety chain did not hold.  GATE_BYPASSED accuses
\* a tool that the gateway would execute, and never one that asks for an
\* approval.  (It says nothing of the safety chain: one was demanded and held,
\* which the docstring's "SIN exigir ninguna barrera real" denies.)
ClassIsEarned ==
    \A w \in Workers :
        LET r == probe[w] IN
        /\ Reported(w, "VALIDATED") =>
              /\ ~Excluded(r)
              /\ \/ NeedsApproval(r)
                 \/ \E at \in 0..now : SafetyChain(r, at) = "safety_chain"
        /\ Reported(w, "GATE_BYPASSED") => ~Excluded(r) /\ ~NeedsApproval(r)

\* What the docstring says of OUT_OF_SCOPE: the gateway refuses by scope, mode
\* or allowlist, and the path cannot be exploited with the catalogue as it is.
OutOfScopeIsExcluded ==
    \A w \in Workers : Reported(w, "OUT_OF_SCOPE") => Excluded(probe[w])
==============================================================================
