----------------------- MODULE MCDurableApprovalStore -----------------------
(* Two gateway processes on one file.  p1 runs two threads, of which t1     *)
(* opened the connection; p2 runs one.                                      *)
EXTENDS DurableApprovalStore, TLC

CONSTANTS t1, t2, t3, p1, p2, i1, i2, planA, planB, bot, ana, gw

MCProcOf == t1 :> p1 @@ t2 :> p1 @@ t3 :> p2
MCOpener == p1 :> t1 @@ p2 :> t3

Appr(i, who, decision, expires, readable, plan) ==
    [approval_id |-> i, approver_id |-> who, decision |-> decision,
     expires_at |-> expires, readable |-> readable, signature_ref |-> <<i, plan>>]

\* A sound approval; the same id signed again for another plan; one that
\* lives longer; one each of rejected, signed by the executor, unreadable.
MCApprovals ==
    {Appr(i1, ana, "APPROVE", 0, TRUE, planA),
     Appr(i1, ana, "APPROVE", 1, TRUE, planB),
     Appr(i2, ana, "APPROVE", 1, TRUE, planA),
     Appr(i2, ana, "REJECT",  1, TRUE, planB),
     Appr(i2, gw,  "APPROVE", 1, TRUE, planB),
     Appr(i2, ana, "APPROVE", 1, FALSE, planB)}
=============================================================================
