----------------------------- MODULE Containment -----------------------------
(***************************************************************************)
(* executors/ and rollback/: what a containment does to its target, and    *)
(* how a rollback takes it back.                                           *)
(*                                                                         *)
(* FakeReplicaState and FakeMonitoringState keep (original, current) per   *)
(* target, FakeClusterState the isolated targets; here each tool has a     *)
(* value it sets a target to and a value the target had before, and the    *)
(* original of "isolate" is always the open network.  An executor keeps    *)
(* one IdempotencyStore; a rollback uses the one its caller hands it       *)
(* (job.kept) or else one made for that call alone.                        *)
(*                                                                         *)
(* A rollback reads the state, then writes it, and builds its result from  *)
(* what it reads last; the threads of the process interleave between.      *)
(* Serves says which targets a thread may be called for.                   *)
(***************************************************************************)
EXTENDS Integers, FiniteSets

CONSTANTS
    Workers, Targets, Serves,
    Tools,
    Keys,        \* idempotency keys
    Jobs,        \* the calls made of executors and rollbacks
    Contain,     \* per tool: the policy, 0 replicas, "verbose"
    Resting,     \* per tool and target: the value it had before anything was done
    None,        \* Python's None
    MaxCalls     \* bound on the calls made

Values == {Contain[tool] : tool \in Tools} \cup
          {Resting[tool][target] : tool \in Tools, target \in Targets}
\* dry_run and execute are calls of the tool's executor; `valid` says whether
\* the ActionResult satisfies its contract.
Job == [op : {"dry_run", "execute", "rollback"}, tool : Tools, target : Targets,
        key : Keys, kept : BOOLEAN, valid : BOOLEAN]

ASSUME ServesAssumption == Serves \in [Workers -> SUBSET Targets]
ASSUME JobsAssumption == Jobs \subseteq Job
ASSUME RestingAssumption == "isolate" \in Tools =>
    \A target \in Targets : Resting["isolate"][target] # Contain["isolate"]
ASSUME MaxCallsAssumption == MaxCalls \in Nat

VARIABLES
    held,      \* per tool and target: its original and its current value
    results,   \* per tool, {"executor", "rollback"} and key: the result remembered, or None
    work,      \* per worker: the call it is in
    made,      \* how many calls were made
    entered,   \* per tool and target: how often it went from uncontained to contained (history)
    claimed,   \* per tool and target: rollbacks that answered that they changed it (history)
    mute       \* per tool and target: rollbacks that changed it and then raised (history)

history == <<entered, claimed, mute>>
vars == <<held, results, work, made, history>>

ActionResult == [op : {"dry_run", "execute", "rollback"}, changed : BOOLEAN, passed : BOOLEAN]
Idle == [pc |-> "idle"]
Works == [pc : {"idle", "raised"}]
         \cup [pc : {"act"}, job : Jobs]
         \cup [pc : {"undo"}, job : Jobs, original : Values, was : BOOLEAN]
         \* original: what a rollback has read; an execution and a dry-run read nothing
         \cup [pc : {"report"}, job : Jobs, original : Values \cup {None}, changed : BOOLEAN]
         \cup [pc : {"done"}, job : Jobs, result : ActionResult, fresh : BOOLEAN]
Counts == [Tools -> [Targets -> Nat]]

TypeOK ==
    /\ held \in [Tools -> [Targets -> [original : Values, current : Values]]]
    /\ results \in [Tools -> [{"executor", "rollback"} -> [Keys -> ActionResult \cup {None}]]]
    /\ work \in [Workers -> Works]
    /\ made \in 0..MaxCalls
    /\ entered \in Counts /\ claimed \in Counts /\ mute \in Counts

Zero == [tool \in Tools |-> [target \in Targets |-> 0]]

Init ==
    /\ held = [tool \in Tools |-> [target \in Targets |->
                  [original |-> Resting[tool][target], current |-> Resting[tool][target]]]]
    /\ results = [tool \in Tools |-> [store \in {"executor", "rollback"} |-> [k \in Keys |-> None]]]
    /\ work = [w \in Workers |-> Idle]
    /\ made = 0
    /\ entered = Zero /\ claimed = Zero /\ mute = Zero

Contained(tool, target) == held[tool][target].current = Contain[tool]
\* rollback/verification.py
Verify(tool, target) == held[tool][target].current = held[tool][target].original

StoreOf(job) == IF job.op = "rollback" THEN "rollback" ELSE "executor"
\* Does the call see what earlier calls remembered?
Remembers(job) == job.op # "rollback" \/ job.kept
Count(counter, job) == [counter EXCEPT ![job.tool][job.target] = @ + 1]
-----------------------------------------------------------------------------
\* Faulty: a rollback does not look its key up.
Begin_NoLookup(w, job) ==
    /\ work[w] = Idle
    /\ made < MaxCalls
    /\ job.target \in Serves[w]
    /\ made' = made + 1
    /\ LET cached == results[job.tool][StoreOf(job)][job.key]
       IN work' = [work EXCEPT ![w] =
              IF job.op # "rollback" /\ cached # None
                THEN [pc |-> "done", job |-> job, result |-> cached, fresh |-> FALSE]
                ELSE [pc |-> "act", job |-> job]]
    /\ UNCHANGED <<held, results, history>>

\* The key is looked up; a remembered result is handed back as it is.
Begin(w, job) ==
    /\ work[w] = Idle
    /\ made < MaxCalls
    /\ job.target \in Serves[w]
    /\ made' = made + 1
    /\ LET cached == results[job.tool][StoreOf(job)][job.key]
       IN work' = [work EXCEPT ![w] =
              IF Remembers(job) /\ cached # None
                THEN [pc |-> "done", job |-> job, result |-> cached, fresh |-> FALSE]
                ELSE [pc |-> "act", job |-> job]]
    /\ UNCHANGED <<held, results, history>>

\* Faulty: the value found is taken for the original.
Apply_ForgetsOriginal(w) ==
    /\ work[w].pc = "act"
    /\ LET job == work[w].job
           h == held[job.tool][job.target]
       IN /\ job.op = "execute"
          /\ held' = [held EXCEPT ![job.tool][job.target] =
                         [original |-> h.current, current |-> Contain[job.tool]]]
          /\ entered' = IF Contained(job.tool, job.target) THEN entered ELSE Count(entered, job)
          /\ work' = [work EXCEPT ![w] = [pc |-> "report", job |-> job,
                                          original |-> None, changed |-> TRUE]]
    /\ UNCHANGED <<results, made, claimed, mute>>

\* apply_isolation, scale_to_zero, increase_monitoring: the original stays.
Apply(w) ==
    /\ work[w].pc = "act"
    /\ LET job == work[w].job
       IN /\ job.op = "execute"
          /\ held' = [held EXCEPT ![job.tool][job.target].current = Contain[job.tool]]
          /\ entered' = IF Contained(job.tool, job.target) THEN entered ELSE Count(entered, job)
          /\ work' = [work EXCEPT ![w] = [pc |-> "report", job |-> job,
                                          original |-> None, changed |-> TRUE]]
    /\ UNCHANGED <<results, made, claimed, mute>>

\* A dry-run reads nothing and changes nothing.
Rehearse(w) ==
    /\ work[w].pc = "act"
    /\ work[w].job.op = "dry_run"
    /\ work' = [work EXCEPT ![w] = [pc |-> "report", job |-> work[w].job,
                                    original |-> None, changed |-> FALSE]]
    /\ UNCHANGED <<held, results, made, history>>

\* Faulty: the original is read without the default that a target not seen
\* before has, so that there is none for it.
Observe_NoDefault(w) ==
    /\ work[w].pc = "act"
    /\ LET job == work[w].job IN
       /\ job.op = "rollback"
       /\ work' = [work EXCEPT ![w] =
              [pc |-> "undo", job |-> job,
               original |-> IF entered[job.tool][job.target] = 0 THEN None
                            ELSE held[job.tool][job.target].original,
               was |-> Contained(job.tool, job.target)]]
    /\ UNCHANGED <<held, results, made, history>>

\* A rollback reads the original, and whether there is anything to revert.
Observe(w) ==
    /\ work[w].pc = "act"
    /\ LET job == work[w].job IN
       /\ job.op = "rollback"
       /\ work' = [work EXCEPT ![w] =
              [pc |-> "undo", job |-> job,
               original |-> held[job.tool][job.target].original,
               was |-> Contained(job.tool, job.target)]]
    /\ UNCHANGED <<held, results, made, history>>

\* Faulty: the rollback always reports its target as changed (the bug that
\* rollback_scale_to_zero had).
RestoreValue_ClaimsAlways(w) ==
    /\ work[w].pc = "undo" /\ work[w].job.tool # "isolate"
    /\ LET c == work[w] IN
       /\ held' = [held EXCEPT ![c.job.tool][c.job.target] =
                      [original |-> c.original, current |-> c.original]]
       /\ work' = [work EXCEPT ![w] = [pc |-> "report", job |-> c.job,
                                       original |-> c.original, changed |-> TRUE]]
    /\ UNCHANGED <<results, made, history>>

\* Faulty: the original is written back, the current value is not.
RestoreValue_KeepsCurrent(w) ==
    /\ work[w].pc = "undo" /\ work[w].job.tool # "isolate"
    /\ LET c == work[w] IN
       /\ held' = [held EXCEPT ![c.job.tool][c.job.target].original = c.original]
       /\ work' = [work EXCEPT ![w] = [pc |-> "report", job |-> c.job,
                                       original |-> c.original, changed |-> c.was]]
    /\ UNCHANGED <<results, made, history>>

\* Replicas and monitoring level: the original is written back in any case,
\* and called a change if the contained value was seen.
RestoreValue(w) ==
    /\ work[w].pc = "undo" /\ work[w].job.tool # "isolate"
    /\ LET c == work[w] IN
       /\ held' = [held EXCEPT ![c.job.tool][c.job.target] =
                      [original |-> c.original, current |-> c.original]]
       /\ work' = [work EXCEPT ![w] = [pc |-> "report", job |-> c.job,
                                       original |-> c.original, changed |-> c.was]]
    /\ UNCHANGED <<results, made, history>>

\* An isolation is removed only if one was seen; its policy is then looked up
\* once more, and another thread may have removed it (KeyError).
RemoveIsolation(w) ==
    /\ work[w].pc = "undo" /\ work[w].job.tool = "isolate"
    /\ LET c == work[w]
           present == Contained("isolate", c.job.target)
       IN /\ held' = IF c.was /\ present
                       THEN [held EXCEPT !["isolate"][c.job.target].current = c.original]
                       ELSE held
          /\ work' = [work EXCEPT ![w] =
                         IF c.was /\ ~present THEN [pc |-> "raised"]
                         ELSE [pc |-> "report", job |-> c.job,
                               original |-> c.original, changed |-> c.was]]
    /\ UNCHANGED <<results, made, history>>

\* The verification field is computed from the state as it is now.
Passed(job, original) ==
    LET now == held[job.tool][job.target].current
    IN CASE job.op = "dry_run"  -> TRUE
         [] job.op = "execute"  -> now = Contain[job.tool]
         [] job.op = "rollback" -> IF job.tool = "isolate" THEN now # Contain[job.tool]
                                   ELSE now = original

\* The result is built, validated and remembered, or InvalidActionResult is
\* raised.  What a rollback without a store remembers dies with its call.
Report(w) ==
    /\ work[w].pc = "report"
    /\ LET c == work[w]
           result == [op |-> c.job.op, changed |-> c.changed, passed |-> Passed(c.job, c.original)]
           told == c.job.op = "rollback" /\ c.changed
       IN IF c.job.valid
            THEN /\ results' = IF Remembers(c.job)
                                 THEN [results EXCEPT ![c.job.tool][StoreOf(c.job)][c.job.key] = result]
                                 ELSE results
                 /\ work' = [work EXCEPT ![w] = [pc |-> "done", job |-> c.job,
                                                 result |-> result, fresh |-> TRUE]]
                 /\ claimed' = IF told THEN Count(claimed, c.job) ELSE claimed
                 /\ UNCHANGED mute
            ELSE /\ work' = [work EXCEPT ![w] = [pc |-> "raised"]]
                 /\ mute' = IF told THEN Count(mute, c.job) ELSE mute
                 /\ UNCHANGED <<results, claimed>>
    /\ UNCHANGED <<held, made, entered>>

\* The result reaches the caller.
Finish(w) ==
    /\ work[w].pc \in {"done", "raised"}
    /\ work' = [work EXCEPT ![w] = Idle]
    /\ UNCHANGED <<held, results, made, history>>
-----------------------------------------------------------------------------
Next == \E w \in Workers :
    \/ \E job \in Jobs : Begin(w, job)
    \/ Apply(w) \/ Rehearse(w) \/ Observe(w)
    \/ RestoreValue(w) \/ RemoveIsolation(w)
    \/ Report(w) \/ Finish(w)

Spec == Init /\ [][Next]_vars
-----------------------------------------------------------------------------
\* Calls on one target do not overlap; the code has no lock for it.
OneAtATime == \A u, w \in Workers : u # w => Serves[u] \cap Serves[w] = {}

\* Whatever is done twice, retried, rolled back or interleaved, the value a
\* target had before its first containment stays known, so that a rollback
\* can always restore it.
OriginalIsKept ==
    \A tool \in Tools, target \in Targets :
        held[tool][target].original = Resting[tool][target]

Undoing(tool, target) ==
    {w \in Workers : /\ work[w].pc = "report" /\ work[w].job.op = "rollback"
                     /\ work[w].job.tool = tool /\ work[w].job.target = target
                     /\ work[w].changed}

\* Every time a target was contained, the containment is still there or
\* exactly one rollback has said (or is about to say, or raised instead) that
\* it took it back, and no rollback says so without one.  Where calls for one
\* target do not overlap, and the target was not at the contained value to
\* begin with (strategies.py, "un ActionResult no debe declarar un recurso
\* cambiado si el estado real antes y despues es identico").
RollbacksAccounted ==
    \A tool \in Tools, target \in Targets :
        Resting[tool][target] # Contain[tool] =>
            entered[tool][target] =
                claimed[tool][target] + mute[tool][target]
                + Cardinality(Undoing(tool, target))
                + (IF Contained(tool, target) THEN 1 ELSE 0)

\* The independent check after a rollback agrees with what the rollback said
\* of itself, as long as the answer is its own and not a remembered one.
FreshRollbackVerifies ==
    \A w \in Workers : work[w].pc = "done" /\ work[w].fresh /\ work[w].job.op = "rollback" =>
        work[w].result.passed /\ Verify(work[w].job.tool, work[w].job.target)

\* A late duplicate does not act: a call whose key was answered before neither
\* lifts a containment made since nor makes again one that was taken back.
\* For a rollback only if its caller keeps a store for it.
DuplicatesDoNotAct ==
    [][\A w \in Workers :
          /\ work[w].pc \in {"act", "undo"} /\ work'[w].pc = "report"
          /\ held' # held
          /\ Remembers(work[w].job)
          => results[work[w].job.tool][StoreOf(work[w].job)][work[w].job.key] = None]_vars
==============================================================================
