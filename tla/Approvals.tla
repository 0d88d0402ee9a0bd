------------------------------ MODULE Approvals ------------------------------
(***************************************************************************)
(* policies/approval: what a signed Approval is bound to, and the checks   *)
(* every store makes on its fields before it touches its own state.        *)
(*                                                                         *)
(* SHA-256 is taken to be injective: a plan hash is the record of what was *)
(* hashed, and a signature is the pair it was computed from.  A time is a  *)
(* natural number; `readable` says whether `expires_at` is an aware        *)
(* ISO-8601 timestamp (otherwise parsing or comparing it raises).          *)
(***************************************************************************)
EXTENDS Integers

\* compute_plan_hash; the gateway's only parameter is the envelope's hash.
PlanHash(tool, target, action, envelope_hash) ==
    [tool |-> tool, target |-> target, action |-> action,
     safety_envelope_hash |-> envelope_hash]

\* compute_signature_ref
SignatureRef(approval_id, plan_hash) == <<approval_id, plan_hash>>

ApprovalRecord(Ids, Subjects, Plans) ==
    [approval_id   : Ids,
     approver_id   : Subjects,
     decision      : {"APPROVE", "REJECT"},
     expires_at    : Nat,
     readable      : BOOLEAN,
     signature_ref : Ids \X Plans]

Segregated(a, requester_id, executor_id) ==
    a.approver_id \notin {requester_id, executor_id}

\* Faulty: the signature is taken on trust.
ValidateFields_NoSignature(a, plan_hash, requester_id, executor_id, now) ==
    IF ~Segregated(a, requester_id, executor_id) \/ a.decision # "APPROVE" THEN "rejected"
    ELSE IF ~a.readable THEN "raised"
    ELSE IF now > a.expires_at THEN "rejected"
    ELSE "valid"

\* _validate_approval_fields: the unreadable timestamp is met only when the
\* segregation and the decision have passed.
ValidateFields(a, plan_hash, requester_id, executor_id, now) ==
    IF ~Segregated(a, requester_id, executor_id) \/ a.decision # "APPROVE"
      THEN "rejected"
    ELSE IF ~a.readable
      THEN "raised"
    ELSE IF now > a.expires_at
            \/ a.signature_ref # SignatureRef(a.approval_id, plan_hash)
      THEN "rejected"
    ELSE "valid"
==============================================================================
