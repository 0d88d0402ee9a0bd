---------------------------- MODULE MCContainment ----------------------------
(* Two threads, each with a target and keys of its own.  The first is the   *)
(* interesting one; the second shares its tools and idempotency stores.     *)
EXTENDS Containment, TLC

CONSTANTS t1, t2, A, B, open, sealed, four, zero, normal, verbose,
          k1, k2, u1, u2, v1, v2

MCServes  == t1 :> {A} @@ t2 :> {B}
MCContain == [isolate |-> sealed, scale |-> zero, monitor |-> verbose]
\* A has four replicas and B, scaled to zero by its owner, none.
MCResting == [isolate |-> A :> open @@ B :> open,
              scale   |-> A :> four @@ B :> zero,
              monitor |-> A :> normal @@ B :> normal]

J(op, tool, target, key, kept, valid) ==
    [op |-> op, tool |-> tool, target |-> target, key |-> key, kept |-> kept, valid |-> valid]

\* Two containments and two rollbacks of A by each tool, one rollback with a
\* store and one without, a rehearsal, and a malformed result of each kind.
MCJobs ==
    UNION {{J("execute", tool, A, k1, FALSE, TRUE), J("execute", tool, A, k2, FALSE, TRUE),
            J("rollback", tool, A, u1, TRUE, TRUE), J("rollback", tool, A, u2, FALSE, TRUE)} :
           tool \in {"isolate", "scale"}}
    \cup {J("execute", "monitor", A, k1, FALSE, FALSE), J("dry_run", "monitor", A, k2, FALSE, TRUE),
          J("rollback", "monitor", A, u1, TRUE, FALSE),
          J("execute", "scale", B, v1, FALSE, TRUE), J("rollback", "scale", B, v2, TRUE, TRUE)}
==============================================================================
