----------------------- MODULE MCMemoryApprovalStore -----------------------
(* Two threads that share one process, whose set has no lock.                *)
EXTENDS MemoryApprovalStore, TLC

CONSTANTS t1, t2, p1, i1, i2, planA, planB, bot, ana, gw

TwoThreads == t1 :> p1 @@ t2 :> p1

Appr(i, who, decision, expires, readable, plan) ==
    [approval_id |-> i, approver_id |-> who, decision |-> decision,
     expires_at |-> expires, readable |-> readable, signature_ref |-> <<i, plan>>]

MCApprovals ==
    {Appr(i1, ana, "APPROVE", 0, TRUE, planA),
     Appr(i1, ana, "APPROVE", 1, TRUE, planB),
     Appr(i2, ana, "APPROVE", 1, TRUE, planA),
     Appr(i2, ana, "REJECT",  1, TRUE, planB),
     Appr(i2, gw,  "APPROVE", 1, TRUE, planB),
     Appr(i2, ana, "APPROVE", 1, FALSE, planB)}
=============================================================================
