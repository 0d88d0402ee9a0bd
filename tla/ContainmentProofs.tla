-------------------------- MODULE ContainmentProofs --------------------------
(***************************************************************************)
(* For every set of threads, tools, targets, keys and calls: the value a   *)
(* target had before its first containment is never lost; and where calls  *)
(* on one target do not overlap, a rollback's own answer is confirmed by   *)
(* the independent check.                                                  *)
(***************************************************************************)
EXTENDS Containment, FiniteSetTheorems, TLAPS

\* A rollback under way restores the value the target had at first.
UndoesToResting ==
    \A w \in Workers :
        work[w].pc = "undo" => work[w].original = Resting[work[w].job.tool][work[w].job.target]

\* A call is of a job, and each stage of it carries what it needs.
LEMMA WorkTypes ==
    ASSUME TypeOK, NEW w \in Workers
    PROVE  /\ work[w] \in Works
           /\ work[w].pc \notin {"idle", "raised"} => work[w].job \in Jobs
           /\ work[w].pc = "act" => work[w] \in [pc : {"act"}, job : Jobs]
           /\ work[w].pc = "undo" =>
                 work[w] \in [pc : {"undo"}, job : Jobs, original : Values, was : BOOLEAN]
           /\ work[w].pc = "report" =>
                 work[w] \in [pc : {"report"}, job : Jobs, original : Values \cup {None}, changed : BOOLEAN]
BY DEF TypeOK, Works

LEMMA JobTypes ==
    ASSUME NEW job \in Jobs
    PROVE  /\ job.op \in {"dry_run", "execute", "rollback"}
           /\ job.tool \in Tools /\ job.target \in Targets /\ job.key \in Keys
           /\ job.kept \in BOOLEAN /\ job.valid \in BOOLEAN
           /\ StoreOf(job) \in {"executor", "rollback"}
BY JobsAssumption DEF Job, StoreOf

\* Counting one more keeps a count.
LEMMA CountTypes ==
    ASSUME NEW counter \in Counts, NEW job \in Jobs
    PROVE  Count(counter, job) \in Counts
<1>1. job.tool \in Tools /\ job.target \in Targets
  BY JobTypes
<1>2. counter[job.tool] \in [Targets -> Nat]
  BY <1>1 DEF Counts
<1>3. counter[job.tool][job.target] + 1 \in Nat
  BY <1>1, <1>2
<1>4. [counter[job.tool] EXCEPT ![job.target] = counter[job.tool][job.target] + 1] \in [Targets -> Nat]
  BY <1>2, <1>3
<1> QED
  BY <1>1, <1>4 DEF Count, Counts

HeldValue == [original : Values, current : Values]

LEMMA HeldTypes ==
    ASSUME TypeOK, NEW job \in Jobs
    PROVE  /\ held[job.tool][job.target] \in HeldValue
           /\ \A v \in HeldValue :
                 [held EXCEPT ![job.tool][job.target] = v]
                     \in [Tools -> [Targets -> HeldValue]]
<1>1. job.tool \in Tools /\ job.target \in Targets
  BY JobTypes
<1>2. held \in [Tools -> [Targets -> HeldValue]]
  BY DEF TypeOK, HeldValue
<1> QED
  BY <1>1, <1>2

\* The types are preserved by every step of every call.
THEOREM TypeCorrect == Spec => []TypeOK
<1>1. Init => TypeOK
  <2> SUFFICES ASSUME Init PROVE TypeOK
    OBVIOUS
  <2>1. held \in [Tools -> [Targets -> [original : Values, current : Values]]]
    BY DEF Init, Values
  <2>2. results \in [Tools -> [{"executor", "rollback"} -> [Keys -> ActionResult \cup {None}]]]
    BY DEF Init
  <2>3. work \in [Workers -> Works]
    BY DEF Init, Idle, Works
  <2>4. Zero \in Counts
    BY DEF Zero, Counts
  <2> QED
    BY <2>1, <2>2, <2>3, <2>4, MaxCallsAssumption DEF Init, TypeOK
<1>2. TypeOK /\ [Next]_vars => TypeOK'
  <2> SUFFICES ASSUME TypeOK, [Next]_vars PROVE TypeOK'
    OBVIOUS
  <2>1. ASSUME NEW w \in Workers, NEW job \in Jobs, Begin(w, job) PROVE TypeOK'
    <3>1. results[job.tool][StoreOf(job)][job.key] \in ActionResult \cup {None}
      BY JobTypes DEF TypeOK
    <3>2. work' \in [Workers -> Works]
      BY <2>1, <3>1 DEF Begin, TypeOK, Works
    <3> QED
      BY <2>1, <3>2, MaxCallsAssumption DEF Begin, TypeOK, history
  <2>2. ASSUME NEW w \in Workers, Apply(w) PROVE TypeOK'
    <3> DEFINE job == work[w].job
    <3>1. job \in Jobs
      BY <2>2, WorkTypes DEF Apply
    <3>2. /\ job.tool \in Tools /\ Contain[job.tool] \in Values
          /\ held[job.tool][job.target] \in HeldValue
      BY <3>1, JobTypes, HeldTypes DEF Values
    <3>3. [held[job.tool][job.target] EXCEPT !.current = Contain[job.tool]] \in HeldValue
      BY <3>2 DEF HeldValue
    <3>4. held' \in [Tools -> [Targets -> HeldValue]]
      BY <2>2, <3>1, <3>3, HeldTypes, Zenon DEF Apply
    <3>5. work' \in [Workers -> Works]
      BY <2>2, <3>1, <3>2 DEF Apply, TypeOK, Works, HeldValue
    <3>6. entered' \in Counts
      BY <2>2, <3>1, CountTypes DEF Apply, TypeOK
    <3> QED
      BY <2>2, <3>4, <3>5, <3>6, Zenon DEF Apply, TypeOK, HeldValue
  <2>3. ASSUME NEW w \in Workers, Rehearse(w) \/ Observe(w) PROVE TypeOK'
    <3>1. work[w].job \in Jobs
      BY <2>3, WorkTypes DEF Rehearse, Observe
    <3>2. held[work[w].job.tool][work[w].job.target].original \in Values
      BY <3>1, HeldTypes DEF HeldValue
    <3>3. Contained(work[w].job.tool, work[w].job.target) \in BOOLEAN
      BY DEF Contained
    <3> DEFINE job == work[w].job
               original == held[job.tool][job.target].original
    <3>4. /\ [pc |-> "report", job |-> job, original |-> None, changed |-> FALSE] \in Works
          /\ [pc |-> "undo", job |-> job, original |-> original,
              was |-> Contained(job.tool, job.target)] \in Works
      BY <3>1, <3>2, <3>3 DEF Works
    <3>5. work' \in [Workers -> Works]
      BY <2>3, <3>4 DEF Rehearse, Observe, TypeOK
    <3> QED
      BY <2>3, <3>5 DEF Rehearse, Observe, TypeOK, history
  <2>4. ASSUME NEW w \in Workers, RestoreValue(w) PROVE TypeOK'
    <3>1. /\ work[w] \in [pc : {"undo"}, job : Jobs, original : Values, was : BOOLEAN]
          /\ work[w].job \in Jobs
      BY <2>4, WorkTypes DEF RestoreValue
    <3>2. [original |-> work[w].original, current |-> work[w].original] \in HeldValue
      BY <3>1 DEF HeldValue
    <3>3. held' \in [Tools -> [Targets -> HeldValue]]
      BY <2>4, <3>1, <3>2, HeldTypes DEF RestoreValue
    <3>4. work' \in [Workers -> Works]
      BY <2>4, <3>1 DEF RestoreValue, TypeOK, Works
    <3> QED
      BY <2>4, <3>3, <3>4 DEF RestoreValue, TypeOK, HeldValue, history
  <2>5. ASSUME NEW w \in Workers, RemoveIsolation(w) PROVE TypeOK'
    <3>1. /\ work[w] \in [pc : {"undo"}, job : Jobs, original : Values, was : BOOLEAN]
          /\ work[w].job \in Jobs
          /\ work[w].job.tool = "isolate"
      BY <2>5, WorkTypes DEF RemoveIsolation
    <3>2. [held["isolate"][work[w].job.target] EXCEPT !.current = work[w].original] \in HeldValue
      BY <3>1, HeldTypes DEF HeldValue
    <3>3. held' \in [Tools -> [Targets -> HeldValue]]
      BY <2>5, <3>1, <3>2, HeldTypes DEF RemoveIsolation, TypeOK, HeldValue
    <3>4. work' \in [Workers -> Works]
      BY <2>5, <3>1 DEF RemoveIsolation, TypeOK, Works
    <3> QED
      BY <2>5, <3>3, <3>4 DEF RemoveIsolation, TypeOK, HeldValue, history
  <2>6. ASSUME NEW w \in Workers, Report(w) PROVE TypeOK'
    <3> DEFINE job == work[w].job
               result == [op |-> job.op, changed |-> work[w].changed,
                          passed |-> Passed(job, work[w].original)]
    <3>1. /\ work[w] \in [pc : {"report"}, job : Jobs, original : Values \cup {None}, changed : BOOLEAN]
          /\ job \in Jobs
      BY <2>6, WorkTypes DEF Report
    <3>2. Passed(job, work[w].original) \in BOOLEAN
      BY <3>1, JobTypes DEF Passed
    <3>3. result \in ActionResult
      BY <3>1, <3>2, JobTypes DEF ActionResult
    <3>4. work' \in [Workers -> Works]
      <4>1. [pc |-> "done", job |-> job, result |-> result, fresh |-> TRUE] \in Works
        BY <3>1, <3>3 DEF Works
      <4>2. [pc |-> "raised"] \in Works
        BY DEF Works
      <4> QED
        BY <2>6, <4>1, <4>2 DEF Report, TypeOK
    <3>5. [results EXCEPT ![job.tool][StoreOf(job)][job.key] = result]
             \in [Tools -> [{"executor", "rollback"} -> [Keys -> ActionResult \cup {None}]]]
      BY <3>1, <3>3, JobTypes DEF TypeOK
    <3>6. results' \in [Tools -> [{"executor", "rollback"} -> [Keys -> ActionResult \cup {None}]]]
      BY <2>6, <3>5 DEF Report, TypeOK
    <3>7. claimed' \in Counts /\ mute' \in Counts
      BY <2>6, <3>1, CountTypes DEF Report, TypeOK
    <3> QED
      BY <2>6, <3>4, <3>6, <3>7 DEF Report, TypeOK
  <2>7. ASSUME NEW w \in Workers, Finish(w) PROVE TypeOK'
    BY <2>7 DEF Finish, TypeOK, Works, Idle, history
  <2>8. CASE UNCHANGED vars
    BY <2>8 DEF vars, history, TypeOK
  <2> QED
    BY <2>1, <2>2, <2>3, <2>4, <2>5, <2>6, <2>7, <2>8 DEF Next
<1> QED
  BY <1>1, <1>2, PTL DEF Spec

\* The original value stays, because a rollback writes nothing but what it
\* read as the original.
LEMMA Originals == Spec => [](OriginalIsKept /\ UndoesToResting)
<1> DEFINE Inv == OriginalIsKept /\ UndoesToResting
<1>1. Init => Inv
  <2> SUFFICES ASSUME Init PROVE Inv
    OBVIOUS
  <2>1. \A w \in Workers : work[w].pc = "idle"
    BY DEF Init, Idle
  <2> QED
    BY <2>1 DEF Init, OriginalIsKept, UndoesToResting
<1>2. TypeOK /\ Inv /\ [Next]_vars => Inv'
  <2> SUFFICES ASSUME TypeOK, Inv, [Next]_vars PROVE Inv'
    OBVIOUS
  <2>1. ASSUME NEW w \in Workers, NEW job \in Jobs, Begin(w, job) PROVE Inv'
    <3>1. /\ held' = held
          /\ work'[w].pc \in {"done", "act"}
          /\ \A u \in Workers : u # w => work'[u] = work[u]
      BY <2>1 DEF Begin, TypeOK
    <3> QED
      BY <3>1 DEF OriginalIsKept, UndoesToResting
  <2>2. ASSUME NEW w \in Workers, Apply(w) PROVE Inv'
    <3>1. work[w].job.tool \in Tools /\ work[w].job.target \in Targets
      BY <2>2, WorkTypes, JobTypes DEF Apply
    <3>2. \A tool \in Tools, target \in Targets :
             held'[tool][target].original = held[tool][target].original
      BY <2>2, <3>1 DEF Apply, TypeOK
    <3>3. /\ work'[w].pc = "report"
          /\ \A u \in Workers : u # w => work'[u] = work[u]
      BY <2>2 DEF Apply, TypeOK
    <3> QED
      BY <3>2, <3>3 DEF OriginalIsKept, UndoesToResting
  <2>3. ASSUME NEW w \in Workers, Rehearse(w) PROVE Inv'
    <3>1. /\ held' = held
          /\ work'[w].pc = "report"
          /\ \A u \in Workers : u # w => work'[u] = work[u]
      BY <2>3 DEF Rehearse, TypeOK
    <3> QED
      BY <3>1 DEF OriginalIsKept, UndoesToResting
  <2>4. ASSUME NEW w \in Workers, Observe(w) PROVE Inv'
    <3>1. work[w].job.tool \in Tools /\ work[w].job.target \in Targets
      BY <2>4, WorkTypes, JobTypes DEF Observe
    <3>2. /\ held' = held
          /\ work'[w].job = work[w].job
          /\ work'[w].original = held[work[w].job.tool][work[w].job.target].original
          /\ \A u \in Workers : u # w => work'[u] = work[u]
      BY <2>4 DEF Observe, TypeOK
    <3>3. work'[w].original = Resting[work'[w].job.tool][work'[w].job.target]
      BY <3>1, <3>2 DEF OriginalIsKept
    <3>4. UndoesToResting'
      BY <3>2, <3>3 DEF UndoesToResting
    <3> QED
      BY <3>2, <3>4 DEF OriginalIsKept
  <2>5. ASSUME NEW w \in Workers, RestoreValue(w) PROVE Inv'
    <3>1. /\ work[w].job.tool \in Tools /\ work[w].job.target \in Targets
          /\ work[w].original = Resting[work[w].job.tool][work[w].job.target]
      BY <2>5, WorkTypes, JobTypes DEF RestoreValue, UndoesToResting
    <3>2. \A tool \in Tools, target \in Targets :
             held'[tool][target].original = Resting[tool][target]
      BY <2>5, <3>1 DEF RestoreValue, TypeOK, OriginalIsKept
    <3>3. /\ work'[w].pc = "report"
          /\ \A u \in Workers : u # w => work'[u] = work[u]
      BY <2>5 DEF RestoreValue, TypeOK
    <3> QED
      BY <3>2, <3>3 DEF OriginalIsKept, UndoesToResting
  <2>6. ASSUME NEW w \in Workers, RemoveIsolation(w) PROVE Inv'
    <3>1. "isolate" \in Tools /\ work[w].job.target \in Targets
      BY <2>6, WorkTypes, JobTypes DEF RemoveIsolation
    <3>2. \A tool \in Tools, target \in Targets :
             held'[tool][target].original = held[tool][target].original
      <4>1. \/ held' = held
            \/ held' = [held EXCEPT !["isolate"][work[w].job.target].current = work[w].original]
        BY <2>6 DEF RemoveIsolation
      <4>2. CASE held' = [held EXCEPT !["isolate"][work[w].job.target].current = work[w].original]
        BY <4>2, <3>1 DEF TypeOK
      <4> QED
        BY <4>1, <4>2
    <3>3. /\ work'[w].pc \in {"raised", "report"}
          /\ \A u \in Workers : u # w => work'[u] = work[u]
      BY <2>6 DEF RemoveIsolation, TypeOK
    <3> QED
      BY <3>2, <3>3 DEF OriginalIsKept, UndoesToResting
  <2>7. ASSUME NEW w \in Workers, Report(w) \/ Finish(w) PROVE Inv'
    <3>1. /\ held' = held
          /\ work'[w].pc \in {"done", "raised", "idle"}
          /\ \A u \in Workers : u # w => work'[u] = work[u]
      BY <2>7 DEF Report, Finish, TypeOK, Idle
    <3> QED
      BY <3>1 DEF OriginalIsKept, UndoesToResting
  <2>8. CASE UNCHANGED vars
    BY <2>8 DEF vars, OriginalIsKept, UndoesToResting
  <2> QED
    BY <2>1, <2>2, <2>3, <2>4, <2>5, <2>6, <2>7, <2>8 DEF Next
<1> QED
  BY <1>1, <1>2, TypeCorrect, PTL DEF Spec

\* However executions, repeats and rollbacks of any threads interleave, the
\* original value of a target stays what it was before the first of them.
THEOREM OriginalKept == Spec => []OriginalIsKept
BY Originals, PTL
-----------------------------------------------------------------------------
\* A thread works on its own targets, which hold one of two values; a rollback
\* under way knows whether its target is contained, and has restored it once
\* it reports.
Serving ==
    \A w \in Workers : work[w].pc \notin {"idle", "raised"} => work[w].job.target \in Serves[w]
TwoValues ==
    \A tool \in Tools, target \in Targets :
        held[tool][target].current \in {Contain[tool], Resting[tool][target]}
SeesContained ==
    \A w \in Workers : work[w].pc = "undo" =>
        work[w].was = Contained(work[w].job.tool, work[w].job.target)
HasRestored ==
    \A w \in Workers : work[w].pc = "report" /\ work[w].job.op = "rollback" =>
        /\ work[w].original = Resting[work[w].job.tool][work[w].job.target]
        /\ held[work[w].job.tool][work[w].job.target].current = work[w].original

Step(w) ==
    \/ \E job \in Jobs : Begin(w, job)
    \/ Apply(w) \/ Rehearse(w) \/ Observe(w)
    \/ RestoreValue(w) \/ RemoveIsolation(w)
    \/ Report(w) \/ Finish(w)

\* A thread leaves the others and their targets alone.
LEMMA Frame ==
    ASSUME TypeOK, Serving, OneAtATime, NEW w \in Workers, Step(w), NEW u \in Workers, u # w
    PROVE  /\ work'[u] = work[u]
           /\ work[u].pc \notin {"idle", "raised"} =>
                 \A tool \in Tools :
                     held'[tool][work[u].job.target] = held[tool][work[u].job.target]
<1>1. work'[u] = work[u]
  BY Zenon
  DEF Step, Begin, Apply, Rehearse, Observe, RestoreValue, RemoveIsolation, Report, Finish, TypeOK
<1>2. ASSUME work[u].pc \notin {"idle", "raised"}, NEW tool \in Tools
      PROVE  held'[tool][work[u].job.target] = held[tool][work[u].job.target]
  <2> DEFINE mine == work[w].job.target
             other == work[u].job.target
  <2>1. other \in Serves[u]
    BY <1>2 DEF Serving
  <2>2. CASE work[w].pc \notin {"idle", "raised"}
    <3>1. mine \in Serves[w]
      BY <2>2 DEF Serving
    <3>2. mine # other
      BY <2>1, <3>1 DEF OneAtATime
    <3>3. \/ held' = held
          \/ \E v : held' = [held EXCEPT ![work[w].job.tool][mine] = v]
          \/ \E v : held' = [held EXCEPT !["isolate"][mine] = v]
      BY Zenon DEF Step, Begin, Apply, Rehearse, Observe, RestoreValue, RemoveIsolation, Report, Finish
    <3>4. other \in Targets /\ held \in [Tools -> [Targets -> HeldValue]]
      BY <1>2, WorkTypes, JobTypes DEF TypeOK, HeldValue
    <3>5. CASE \E v : held' = [held EXCEPT ![work[w].job.tool][mine] = v]
      BY <3>2, <3>4, <3>5
    <3>6. CASE \E v : held' = [held EXCEPT !["isolate"][mine] = v]
      BY <3>2, <3>4, <3>6
    <3> QED
      BY <3>3, <3>5, <3>6
  <2>3. CASE work[w].pc \in {"idle", "raised"}
    BY <2>3, Zenon DEF Step, Begin, Apply, Rehearse, Observe, RestoreValue, RemoveIsolation, Report,
                Finish, Idle
  <2> QED
    BY <2>2, <2>3
<1> QED
  BY <1>1, <1>2

LEMMA ServingAlways == Spec => []Serving
<1>1. Init => Serving
  BY DEF Init, Serving, Idle
<1>2. TypeOK /\ Serving /\ [Next]_vars => Serving'
  <2> SUFFICES ASSUME TypeOK, Serving, [Next]_vars PROVE Serving'
    OBVIOUS
  <2>1. ASSUME NEW w \in Workers, NEW job \in Jobs, Begin(w, job) PROVE Serving'
    BY <2>1 DEF Begin, TypeOK, Serving
  <2>2. ASSUME NEW w \in Workers,
               Apply(w) \/ Rehearse(w) \/ Observe(w) \/ RestoreValue(w)
        PROVE  Serving'
    <3>1. /\ work[w].pc \in {"act", "undo"}
          /\ \E c : work' = [work EXCEPT ![w] = c] /\ c.job = work[w].job
      BY <2>2 DEF Apply, Rehearse, Observe, RestoreValue
    <3>2. PICK c : work' = [work EXCEPT ![w] = c] /\ c.job = work[w].job
      BY <3>1
    <3>3. work'[w] = c /\ \A u \in Workers : u # w => work'[u] = work[u]
      BY <3>2 DEF TypeOK
    <3> QED
      BY <3>1, <3>2, <3>3 DEF Serving
  <2>3. ASSUME NEW w \in Workers, RemoveIsolation(w) \/ Report(w) \/ Finish(w) PROVE Serving'
    <3>1. /\ \A u \in Workers : u # w => work'[u] = work[u]
          /\ work'[w].pc \in {"idle", "raised"}
             \/ (work[w].pc \notin {"idle", "raised"} /\ work'[w].job = work[w].job)
      <4>1. CASE RemoveIsolation(w)
        BY <4>1 DEF RemoveIsolation, TypeOK
      <4>2. CASE Report(w)
        BY <4>2 DEF Report, TypeOK
      <4>3. CASE Finish(w)
        BY <4>3 DEF Finish, TypeOK, Idle
      <4> QED
        BY <2>3, <4>1, <4>2, <4>3
    <3> QED
      BY <3>1 DEF Serving
  <2>4. CASE UNCHANGED vars
    BY <2>4 DEF vars, Serving
  <2> QED
    BY <2>1, <2>2, <2>3, <2>4 DEF Next
<1> QED
  BY <1>1, <1>2, TypeCorrect, PTL DEF Spec

LEMMA TwoValuesAlways == Spec => []TwoValues
<1>1. Init => TwoValues
  BY DEF Init, TwoValues
<1>2. TypeOK /\ UndoesToResting /\ TwoValues /\ [Next]_vars => TwoValues'
  <2> SUFFICES ASSUME TypeOK, UndoesToResting, TwoValues, [Next]_vars PROVE TwoValues'
    OBVIOUS
  <2>1. ASSUME NEW w \in Workers, Apply(w) PROVE TwoValues'
    <3>1. work[w].job.tool \in Tools /\ work[w].job.target \in Targets
      BY <2>1, WorkTypes, JobTypes DEF Apply
    <3>2. held' = [held EXCEPT ![work[w].job.tool][work[w].job.target].current =
                                  Contain[work[w].job.tool]]
      BY <2>1 DEF Apply
    <3> QED
      BY <3>1, <3>2 DEF TypeOK, TwoValues
  <2>2. ASSUME NEW w \in Workers, RestoreValue(w) PROVE TwoValues'
    <3>1. /\ work[w].job.tool \in Tools /\ work[w].job.target \in Targets
          /\ work[w].original = Resting[work[w].job.tool][work[w].job.target]
      BY <2>2, WorkTypes, JobTypes DEF RestoreValue, UndoesToResting
    <3>2. held' = [held EXCEPT ![work[w].job.tool][work[w].job.target] =
                                  [original |-> work[w].original, current |-> work[w].original]]
      BY <2>2 DEF RestoreValue
    <3> QED
      BY <3>1, <3>2 DEF TypeOK, TwoValues
  <2>3. ASSUME NEW w \in Workers, RemoveIsolation(w) PROVE TwoValues'
    <3>1. /\ "isolate" \in Tools /\ work[w].job.target \in Targets
          /\ work[w].original = Resting["isolate"][work[w].job.target]
      BY <2>3, WorkTypes, JobTypes DEF RemoveIsolation, UndoesToResting
    <3>2. \/ held' = held
          \/ held' = [held EXCEPT !["isolate"][work[w].job.target].current = work[w].original]
      BY <2>3 DEF RemoveIsolation
    <3>3. CASE held' = [held EXCEPT !["isolate"][work[w].job.target].current = work[w].original]
      BY <3>1, <3>3 DEF TypeOK, TwoValues
    <3> QED
      BY <3>2, <3>3 DEF TwoValues
  <2>4. CASE UNCHANGED held
    BY <2>4 DEF TwoValues
  <2> QED
    BY <2>1, <2>2, <2>3, <2>4, Zenon DEF Next, Begin, Rehearse, Observe, Report, Finish, vars
<1> QED
  BY <1>1, <1>2, TypeCorrect, Originals, PTL DEF Spec

\* What a thread knows of its own target stays true until it acts on it.
LEMMA KnowsItsTarget ==
    ASSUME OneAtATime
    PROVE  Spec => [](SeesContained /\ HasRestored /\ FreshRollbackVerifies)
<1> DEFINE Sound == SeesContained /\ HasRestored /\ FreshRollbackVerifies
           Given == TypeOK /\ OriginalIsKept /\ UndoesToResting /\ Serving /\ TwoValues
<1>1. Init => Sound
  <2> SUFFICES ASSUME Init PROVE Sound
    OBVIOUS
  <2>1. \A w \in Workers : work[w].pc = "idle"
    BY DEF Init, Idle
  <2> QED
    BY <2>1 DEF SeesContained, HasRestored, FreshRollbackVerifies
<1>2. Given /\ Sound /\ [Next]_vars => Sound'
  <2> SUFFICES ASSUME Given, Sound, [Next]_vars PROVE Sound'
    OBVIOUS
  <2> DEFINE tool(w) == work[w].job.tool
             target(w) == work[w].job.target
             Good(w) ==
                 /\ work[w].pc = "undo" => work[w].was = Contained(tool(w), target(w))
                 /\ work[w].pc = "report" /\ work[w].job.op = "rollback" =>
                       /\ work[w].original = Resting[tool(w)][target(w)]
                       /\ held[tool(w)][target(w)].current = work[w].original
                 /\ work[w].pc = "done" /\ work[w].fresh /\ work[w].job.op = "rollback" =>
                       work[w].result.passed /\ Verify(tool(w), target(w))
  <2>1. Sound <=> \A w \in Workers : Good(w)
    BY DEF SeesContained, HasRestored, FreshRollbackVerifies
  <2>2. Sound' <=> \A w \in Workers : Good(w)'
    BY DEF SeesContained, HasRestored, FreshRollbackVerifies
  <2>3. ASSUME NEW w \in Workers, Step(w), NEW u \in Workers, u # w PROVE Good(u)'
    <3>1. Good(u) /\ work'[u] = work[u]
      BY <2>1, <2>3, Frame
    <3>2. CASE work[u].pc \in {"idle", "raised"}
      BY <3>1, <3>2
    <3>3. CASE work[u].pc \notin {"idle", "raised"}
      <4>1. tool(u) \in Tools
        BY <3>3, WorkTypes, JobTypes
      <4>2. held'[tool(u)][target(u)] = held[tool(u)][target(u)]
        BY <2>3, <3>3, <4>1, Frame
      <4> QED
        BY <3>1, <4>2 DEF Contained, Verify
    <3> QED
      BY <3>2, <3>3
  <2>4. ASSUME NEW w \in Workers, Step(w) PROVE Good(w)'
    <3>1. ASSUME NEW job \in Jobs, Begin(w, job) PROVE Good(w)'
      BY <3>1 DEF Begin, TypeOK
    <3>2. CASE Apply(w) \/ Rehearse(w)
      <4>1. work'[w].pc = "report" /\ work'[w].job.op # "rollback"
        BY <3>2 DEF Apply, Rehearse, TypeOK
      <4> QED
        BY <4>1
    <3>3. CASE Observe(w)
      BY <3>3 DEF Observe, TypeOK, Contained
    <3>4. CASE RestoreValue(w)
      <4>1. /\ tool(w) \in Tools /\ target(w) \in Targets
            /\ work[w].original = Resting[tool(w)][target(w)]
        BY <3>4, WorkTypes, JobTypes DEF RestoreValue, UndoesToResting
      <4>2. held' = [held EXCEPT ![tool(w)][target(w)] =
                        [original |-> work[w].original, current |-> work[w].original]]
        BY <3>4 DEF RestoreValue
      <4>3. held'[tool(w)][target(w)].current = work[w].original
        BY <4>1, <4>2 DEF TypeOK
      <4>4. /\ work'[w].pc = "report" /\ work'[w].job = work[w].job
            /\ work'[w].original = work[w].original
        BY <3>4 DEF RestoreValue, TypeOK
      <4> QED
        BY <4>1, <4>3, <4>4
    <3>5. CASE RemoveIsolation(w)
      <4>1. /\ "isolate" = tool(w) /\ "isolate" \in Tools /\ target(w) \in Targets
            /\ work[w].original = Resting["isolate"][target(w)]
            /\ work[w].was = Contained("isolate", target(w))
        BY <3>5, <2>1, WorkTypes, JobTypes DEF RemoveIsolation, UndoesToResting
      <4>2. held'["isolate"][target(w)].current = work[w].original
        <5>1. CASE Contained("isolate", target(w))
          <6>1. held' = [held EXCEPT !["isolate"][target(w)].current = work[w].original]
            BY <3>5, <4>1, <5>1 DEF RemoveIsolation
          <6> QED
            BY <4>1, <6>1 DEF TypeOK
        <5>2. CASE ~Contained("isolate", target(w))
          BY <3>5, <4>1, <5>2 DEF RemoveIsolation, TwoValues, Contained
        <5> QED
          BY <5>1, <5>2
      <4>3. /\ work'[w].pc = "report" /\ work'[w].job = work[w].job
            /\ work'[w].original = work[w].original
        BY <3>5, <4>1 DEF RemoveIsolation, TypeOK
      <4> QED
        BY <4>1, <4>2, <4>3
    <3>6. CASE Report(w)
      <4>1. /\ work[w].job \in Jobs /\ tool(w) \in Tools /\ target(w) \in Targets
            /\ work[w].pc = "report" /\ held' = held
        BY <3>6, WorkTypes, JobTypes DEF Report
      <4>2. CASE work[w].job.valid /\ work[w].job.op = "rollback"
        <5>1. /\ held[tool(w)][target(w)].current = work[w].original
              /\ work[w].original = Resting[tool(w)][target(w)]
          BY <4>1, <4>2, <2>1
        <5>2. Verify(tool(w), target(w))
          BY <4>1, <5>1 DEF Verify, OriginalIsKept
        <5>3. Passed(work[w].job, work[w].original)
          BY <4>1, <4>2, <5>1, RestingAssumption DEF Passed
        <5>4. /\ work'[w].pc = "done" /\ work'[w].job = work[w].job
              /\ work'[w].result.passed = Passed(work[w].job, work[w].original)
          BY <3>6, <4>2 DEF Report, TypeOK
        <5> QED
          BY <4>1, <5>2, <5>3, <5>4 DEF Verify
      <4>3. CASE ~(work[w].job.valid /\ work[w].job.op = "rollback")
        <5>1. work'[w].pc = "raised" \/ (work'[w].pc = "done" /\ work'[w].job.op # "rollback")
          BY <3>6, <4>3 DEF Report, TypeOK
        <5> QED
          BY <5>1
      <4> QED
        BY <4>2, <4>3
    <3>7. CASE Finish(w)
      <4>1. work'[w].pc = "idle"
        BY <3>7 DEF Finish, TypeOK, Idle
      <4> QED
        BY <4>1
    <3> QED
      BY <2>4, <3>1, <3>2, <3>3, <3>4, <3>5, <3>6, <3>7, Zenon DEF Step
  <2>5. ASSUME NEW w \in Workers, Step(w) PROVE Sound'
    BY <2>2, <2>3, <2>4, <2>5
  <2>6. CASE UNCHANGED vars
    BY <2>6 DEF vars, SeesContained, HasRestored, FreshRollbackVerifies, Contained, Verify
  <2> QED
    BY <2>5, <2>6 DEF Next, Step
<1> QED
  BY <1>1, <1>2, TypeCorrect, Originals, ServingAlways, TwoValuesAlways, PTL DEF Spec

\* A rollback that answers with a result of its own has verified itself, and
\* the independent check agrees, where calls on one target do not overlap.
THEOREM FreshRollback ==
    ASSUME OneAtATime
    PROVE  Spec => []FreshRollbackVerifies
BY KnowsItsTarget, PTL

\* No two threads report about one target.
LEMMA OneUndoing ==
    ASSUME OneAtATime, Serving, NEW tool \in Tools, NEW target \in Targets
    PROVE  Cardinality(Undoing(tool, target)) = IF Undoing(tool, target) = {} THEN 0 ELSE 1
<1>1. \A u, w \in Undoing(tool, target) : u = w
  BY DEF Undoing, Serving, OneAtATime
<1>2. CASE Undoing(tool, target) = {}
  BY <1>2, FS_EmptySet
<1>3. ASSUME NEW w \in Undoing(tool, target)
      PROVE  Cardinality(Undoing(tool, target)) = 1
  <2>1. Undoing(tool, target) = {w}
    BY <1>1, <1>3
  <2> QED
    BY <2>1, FS_Singleton
<1> QED
  BY <1>2, <1>3

\* The terms of RollbacksAccounted, with the cardinality replaced.
Balance(tool, target) ==
    entered[tool][target] =
        claimed[tool][target] + mute[tool][target]
        + (IF Undoing(tool, target) = {} THEN 0 ELSE 1)
        + (IF Contained(tool, target) THEN 1 ELSE 0)
Balanced ==
    \A tool \in Tools, target \in Targets :
        Resting[tool][target] # Contain[tool] => Balance(tool, target)

\* A step that neither counts, nor contains, nor ends a report keeps the
\* balance.
LEMMA QuietStep ==
    ASSUME Balanced, UNCHANGED history, UNCHANGED held,
           \A tool \in Tools, target \in Targets : Undoing(tool, target)' = Undoing(tool, target)
    PROVE  Balanced'
BY DEF Balanced, Balance, history, Contained

LEMMA CountOne ==
    ASSUME NEW counter \in Counts, NEW job \in Jobs, NEW tool \in Tools, NEW target \in Targets
    PROVE  /\ counter[tool][target] \in Nat
           /\ Count(counter, job)[tool][target] =
                 IF tool = job.tool /\ target = job.target
                   THEN counter[tool][target] + 1 ELSE counter[tool][target]
<1>1. /\ counter[tool] \in [Targets -> Nat] /\ counter[tool][target] \in Nat
      /\ job.tool \in Tools /\ job.target \in Targets
  BY JobTypes DEF Counts
<1>2. CASE tool = job.tool
  BY <1>1, <1>2 DEF Count, Counts
<1>3. CASE tool # job.tool
  BY <1>1, <1>3 DEF Count, Counts
<1> QED
  BY <1>1, <1>2, <1>3

\* A step of a rollback that takes its target back and begins its report.
LEMMA RestoreStep ==
    ASSUME TypeOK, OneAtATime, Serving, SeesContained, UndoesToResting, Balanced,
           NEW w \in Workers, work[w].pc = "undo",
           work' = [work EXCEPT ![w] = [pc |-> "report", job |-> work[w].job,
                                        original |-> work[w].original,
                                        changed |-> work[w].was]],
           UNCHANGED history,
           \A tool \in Tools, target \in Targets :
               <<tool, target>> # <<work[w].job.tool, work[w].job.target>> =>
                   held'[tool][target] = held[tool][target],
           held'[work[w].job.tool][work[w].job.target].current = work[w].original,
           work[w].job.op = "rollback"
    PROVE  Balanced'
<1> DEFINE tool0 == work[w].job.tool
           target0 == work[w].job.target
<1>1. tool0 \in Tools /\ target0 \in Targets /\ target0 \in Serves[w]
  BY WorkTypes, JobTypes DEF Serving
<1>2. ASSUME NEW tool \in Tools, NEW target \in Targets,
             Resting[tool][target] # Contain[tool]
      PROVE  Balance(tool, target)'
  <2>1. Balance(tool, target)
    BY <1>2 DEF Balanced
  <2>2. CASE <<tool, target>> = <<tool0, target0>>
    <3>1. Undoing(tool, target) = {}
      BY <1>1, <2>2 DEF Undoing, Serving, OneAtATime
    <3>2. /\ work'[w].pc = "report" /\ work'[w].job = work[w].job
          /\ work'[w].changed = work[w].was
          /\ \A u \in Workers : u # w => work'[u] = work[u]
      BY DEF TypeOK
    <3>3. Undoing(tool, target)' = IF work[w].was THEN {w} ELSE {}
      BY <2>2, <3>1, <3>2 DEF Undoing
    <3>4. work[w].was = Contained(tool, target)
      BY <2>2 DEF SeesContained
    <3>5. ~Contained(tool, target)'
      BY <1>2, <2>2 DEF Contained, UndoesToResting
    <3>6. entered[tool][target] \in Nat /\ claimed[tool][target] \in Nat /\ mute[tool][target] \in Nat
      BY DEF TypeOK, Counts
    <3>7. UNCHANGED <<entered, claimed, mute>>
      BY DEF history
    <3> QED
      BY <2>1, <3>1, <3>3, <3>4, <3>5, <3>6, <3>7 DEF Balance
  <2>3. CASE <<tool, target>> # <<tool0, target0>>
    <3>1. Undoing(tool, target)' = Undoing(tool, target)
      BY <2>3 DEF Undoing, TypeOK
    <3>2. held'[tool][target] = held[tool][target]
      BY <2>3
    <3> QED
      BY <2>1, <3>1, <3>2 DEF Balance, Contained, history
  <2> QED
    BY <2>2, <2>3
<1> QED
  BY <1>2 DEF Balanced

UndoesRollbacks == \A w \in Workers : work[w].pc = "undo" => work[w].job.op = "rollback"

LEMMA UndoesRollbacksAlways == Spec => []UndoesRollbacks
<1>1. Init => UndoesRollbacks
  BY DEF Init, UndoesRollbacks, Idle
<1>2. TypeOK /\ UndoesRollbacks /\ [Next]_vars => UndoesRollbacks'
  <2> SUFFICES ASSUME TypeOK, UndoesRollbacks, [Next]_vars PROVE UndoesRollbacks'
    OBVIOUS
  <2>1. ASSUME NEW w \in Workers, Step(w) PROVE UndoesRollbacks'
    <3>1. \A u \in Workers : u # w => work'[u] = work[u]
      BY <2>1, Zenon DEF Step, Begin, Apply, Rehearse, Observe, RestoreValue, RemoveIsolation, Report,
                  Finish, TypeOK
    <3>2. CASE Observe(w)
      <4>1. work'[w].job.op = "rollback"
        BY <3>2 DEF Observe, TypeOK
      <4> QED
        BY <3>1, <4>1 DEF UndoesRollbacks
    <3>3. CASE ~Observe(w)
      <4>1. work'[w].pc # "undo"
        <5>1. CASE \E job \in Jobs : Begin(w, job)
          BY <5>1 DEF Begin, TypeOK
        <5>2. CASE Apply(w) \/ Rehearse(w) \/ RestoreValue(w)
          BY <5>2, SMTT(30) DEF Apply, Rehearse, RestoreValue, TypeOK
        <5>3. CASE RemoveIsolation(w)
          BY <5>3 DEF RemoveIsolation, TypeOK
        <5>4. CASE Report(w)
          BY <5>4 DEF Report, TypeOK
        <5>5. CASE Finish(w)
          BY <5>5 DEF Finish, Idle, TypeOK
        <5> QED
          BY <2>1, <3>3, <5>1, <5>2, <5>3, <5>4, <5>5 DEF Step
      <4> QED
        BY <3>1, <4>1 DEF UndoesRollbacks
    <3> QED
      BY <3>2, <3>3
  <2>2. CASE UNCHANGED vars
    BY <2>2 DEF vars, UndoesRollbacks
  <2> QED
    BY <2>1, <2>2 DEF Next, Step
<1> QED
  BY <1>1, <1>2, TypeCorrect, PTL DEF Spec

\* A containment is counted where its target becomes contained.
LEMMA ApplyStep ==
    ASSUME TypeOK, Balanced, NEW w \in Workers, Apply(w)
    PROVE  Balanced'
<1> DEFINE job == work[w].job
<1>1. job \in Jobs /\ job.tool \in Tools /\ job.target \in Targets
  BY WorkTypes, JobTypes DEF Apply
<1>2. \A tool \in Tools, target \in Targets : Undoing(tool, target)' = Undoing(tool, target)
  BY DEF Apply, Undoing, TypeOK
<1>3. ASSUME NEW tool \in Tools, NEW target \in Targets,
             Resting[tool][target] # Contain[tool]
      PROVE  Balance(tool, target)'
  <2>1. Balance(tool, target) /\ Undoing(tool, target)' = Undoing(tool, target)
    BY <1>2, <1>3 DEF Balanced
  <2>2. /\ entered' = IF Contained(job.tool, job.target) THEN entered ELSE Count(entered, job)
        /\ UNCHANGED <<claimed, mute>>
        /\ held' = [held EXCEPT ![job.tool][job.target].current = Contain[job.tool]]
    BY DEF Apply
  <2>3. /\ entered[tool][target] \in Nat /\ claimed[tool][target] \in Nat
        /\ mute[tool][target] \in Nat
    BY DEF TypeOK, Counts
  <2>4. CASE tool = job.tool /\ target = job.target
    <3>1. Contained(tool, target)'
      BY <1>1, <2>2, <2>4 DEF Contained, TypeOK
    <3>2. entered'[tool][target] =
             IF Contained(tool, target) THEN entered[tool][target] ELSE entered[tool][target] + 1
      BY <1>1, <2>2, <2>4, CountOne DEF TypeOK
    <3> QED
      BY <2>1, <2>2, <2>3, <3>1, <3>2 DEF Balance
  <2>5. CASE ~(tool = job.tool /\ target = job.target)
    <3>1. Contained(tool, target)' = Contained(tool, target)
      BY <1>1, <2>2, <2>5 DEF Contained, TypeOK
    <3>2. entered'[tool][target] = entered[tool][target]
      BY <1>1, <2>2, <2>5, CountOne DEF TypeOK
    <3> QED
      BY <2>1, <2>2, <3>1, <3>2 DEF Balance
  <2> QED
    BY <2>4, <2>5
<1> QED
  BY <1>3 DEF Balanced

\* A rollback that leaves its report has told its caller, or has raised.
LEMMA ReportStep ==
    ASSUME TypeOK, OneAtATime, Serving, Balanced, NEW w \in Workers, Report(w)
    PROVE  Balanced'
<1> DEFINE job == work[w].job
           told == job.op = "rollback" /\ work[w].changed
<1>1. /\ job \in Jobs /\ job.tool \in Tools /\ job.target \in Targets
      /\ job.target \in Serves[w] /\ work[w].changed \in BOOLEAN /\ work[w].pc = "report"
  BY WorkTypes, JobTypes DEF Report, Serving
<1>2. /\ work'[w].pc \in {"done", "raised"}
      /\ \A u \in Workers : u # w => work'[u] = work[u]
      /\ UNCHANGED <<held, entered>>
  BY DEF Report, TypeOK
<1>3. /\ ~told => UNCHANGED <<claimed, mute>>
      /\ told => \/ claimed' = Count(claimed, job) /\ mute' = mute
                 \/ mute' = Count(mute, job) /\ claimed' = claimed
  BY <1>1 DEF Report
<1>4. ASSUME NEW tool \in Tools, NEW target \in Targets,
             Resting[tool][target] # Contain[tool]
      PROVE  Balance(tool, target)'
  <2>1. /\ Balance(tool, target) /\ Contained(tool, target)' = Contained(tool, target)
        /\ entered'[tool][target] = entered[tool][target]
    BY <1>2, <1>4 DEF Balanced, Contained
  <2>2. /\ entered[tool][target] \in Nat /\ claimed[tool][target] \in Nat
        /\ mute[tool][target] \in Nat
    BY DEF TypeOK, Counts
  <2>3. CASE told /\ tool = job.tool /\ target = job.target
    <3>1. Undoing(tool, target) = {w}
      BY <1>1, <2>3 DEF Undoing, Serving, OneAtATime
    <3>2. Undoing(tool, target)' = {}
      BY <1>2, <3>1 DEF Undoing
    <3>3. claimed'[tool][target] + mute'[tool][target] = claimed[tool][target] + mute[tool][target] + 1
      <4>1. CASE claimed' = Count(claimed, job) /\ mute' = mute
        <5>1. claimed'[tool][target] = claimed[tool][target] + 1
          BY <1>1, <2>3, <4>1, CountOne DEF TypeOK
        <5> QED
          BY <2>2, <4>1, <5>1
      <4>2. CASE mute' = Count(mute, job) /\ claimed' = claimed
        <5>1. mute'[tool][target] = mute[tool][target] + 1
          BY <1>1, <2>3, <4>2, CountOne DEF TypeOK
        <5> QED
          BY <2>2, <4>2, <5>1
      <4> QED
        BY <1>3, <2>3, <4>1, <4>2
    <3>4. claimed'[tool][target] \in Nat /\ mute'[tool][target] \in Nat
      BY <1>1, <1>3, <2>2, <2>3, CountOne, SMTT(30) DEF TypeOK
    <3> QED
      BY <2>1, <2>2, <3>1, <3>2, <3>3, <3>4 DEF Balance
  <2>4. CASE ~(told /\ tool = job.tool /\ target = job.target)
    <3>1. Undoing(tool, target)' = Undoing(tool, target)
      BY <1>1, <1>2, <2>4 DEF Undoing
    <3>2. claimed'[tool][target] = claimed[tool][target] /\ mute'[tool][target] = mute[tool][target]
      BY <1>1, <1>3, <2>4, CountOne DEF TypeOK
    <3> QED
      BY <2>1, <3>1, <3>2 DEF Balance
  <2> QED
    BY <2>3, <2>4
<1> QED
  BY <1>4 DEF Balanced

LEMMA BalancedAlways ==
    ASSUME OneAtATime
    PROVE  Spec => []Balanced
<1> DEFINE Given == /\ TypeOK /\ UndoesToResting /\ Serving /\ SeesContained
                    /\ UndoesRollbacks /\ TwoValues
<1>1. Init => Balanced
  <2> SUFFICES ASSUME Init, NEW tool \in Tools, NEW target \in Targets,
                      Resting[tool][target] # Contain[tool]
               PROVE  Balance(tool, target)
    BY DEF Balanced
  <2>1. Undoing(tool, target) = {}
    BY DEF Init, Idle, Undoing
  <2>2. ~Contained(tool, target)
    BY DEF Init, Contained
  <2>3. entered[tool][target] = 0 /\ claimed[tool][target] = 0 /\ mute[tool][target] = 0
    BY DEF Init, Zero
  <2> QED
    BY <2>1, <2>2, <2>3 DEF Balance
<1>2. Given /\ Balanced /\ [Next]_vars => Balanced'
  <2> SUFFICES ASSUME Given, Balanced, [Next]_vars PROVE Balanced'
    OBVIOUS
  <2>1. ASSUME NEW w \in Workers, NEW job \in Jobs, Begin(w, job) PROVE Balanced'
    <3>1. /\ work[w].pc # "report" /\ work'[w].pc # "report"
          /\ \A u \in Workers : u # w => work'[u] = work[u]
          /\ UNCHANGED history /\ UNCHANGED held
      BY <2>1 DEF Begin, TypeOK, Idle
    <3>2. \A tool \in Tools, target \in Targets : Undoing(tool, target)' = Undoing(tool, target)
      BY <3>1 DEF Undoing
    <3> QED
      BY <3>1, <3>2, QuietStep
  <2>2. ASSUME NEW w \in Workers, Rehearse(w) PROVE Balanced'
    <3>1. /\ work[w].pc # "report" /\ work'[w].changed = FALSE
          /\ \A u \in Workers : u # w => work'[u] = work[u]
          /\ UNCHANGED history /\ UNCHANGED held
      BY <2>2 DEF Rehearse, TypeOK
    <3>2. \A tool \in Tools, target \in Targets : Undoing(tool, target)' = Undoing(tool, target)
      BY <3>1 DEF Undoing
    <3> QED
      BY <3>1, <3>2, QuietStep
  <2>3. ASSUME NEW w \in Workers, Observe(w) \/ Finish(w) PROVE Balanced'
    <3>1. /\ work[w].pc # "report" /\ work'[w].pc # "report"
          /\ \A u \in Workers : u # w => work'[u] = work[u]
          /\ UNCHANGED history /\ UNCHANGED held
      BY <2>3 DEF Observe, Finish, TypeOK, Idle
    <3>2. \A tool \in Tools, target \in Targets : Undoing(tool, target)' = Undoing(tool, target)
      BY <3>1 DEF Undoing
    <3> QED
      BY <3>1, <3>2, QuietStep
  <2>4. ASSUME NEW w \in Workers, Apply(w) PROVE Balanced'
    BY <2>4, ApplyStep
  <2>5. ASSUME NEW w \in Workers, RestoreValue(w) PROVE Balanced'
    <3>1. /\ work[w].job.tool \in Tools /\ work[w].job.target \in Targets
          /\ work[w].pc = "undo" /\ work[w].job.op = "rollback"
      BY <2>5, WorkTypes, JobTypes DEF RestoreValue, UndoesRollbacks
    <3>2. /\ held' = [held EXCEPT ![work[w].job.tool][work[w].job.target] =
                         [original |-> work[w].original, current |-> work[w].original]]
          /\ work' = [work EXCEPT ![w] = [pc |-> "report", job |-> work[w].job,
                                          original |-> work[w].original,
                                          changed |-> work[w].was]]
          /\ UNCHANGED history
      BY <2>5 DEF RestoreValue
    <3>3. /\ \A tool \in Tools, target \in Targets :
                <<tool, target>> # <<work[w].job.tool, work[w].job.target>> =>
                    held'[tool][target] = held[tool][target]
          /\ held'[work[w].job.tool][work[w].job.target].current = work[w].original
      BY <3>1, <3>2 DEF TypeOK
    <3> QED
      BY <3>1, <3>2, <3>3, RestoreStep, Zenon
  <2>6. ASSUME NEW w \in Workers, RemoveIsolation(w) PROVE Balanced'
    <3>1. /\ work[w].job.tool = "isolate" /\ "isolate" \in Tools /\ work[w].job.target \in Targets
          /\ work[w].pc = "undo" /\ work[w].job.op = "rollback"
          /\ work[w].original = Resting["isolate"][work[w].job.target]
          /\ work[w].was = Contained("isolate", work[w].job.target)
      BY <2>6, WorkTypes, JobTypes
         DEF RemoveIsolation, UndoesRollbacks, UndoesToResting, SeesContained
    <3>2. /\ work' = [work EXCEPT ![w] = [pc |-> "report", job |-> work[w].job,
                                          original |-> work[w].original,
                                          changed |-> work[w].was]]
          /\ UNCHANGED history
      BY <2>6, <3>1 DEF RemoveIsolation
    <3>3. /\ \A tool \in Tools, target \in Targets :
                <<tool, target>> # <<work[w].job.tool, work[w].job.target>> =>
                    held'[tool][target] = held[tool][target]
          /\ held'["isolate"][work[w].job.target].current = work[w].original
      <4>1. CASE Contained("isolate", work[w].job.target)
        <5>1. held' = [held EXCEPT !["isolate"][work[w].job.target].current = work[w].original]
          BY <2>6, <3>1, <4>1 DEF RemoveIsolation
        <5> QED
          BY <3>1, <5>1 DEF TypeOK
      <4>2. CASE ~Contained("isolate", work[w].job.target)
        <5>1. held' = held
          BY <2>6, <3>1, <4>2 DEF RemoveIsolation
        <5> QED
          BY <3>1, <4>2, <5>1 DEF TwoValues, Contained
      <4> QED
        BY <4>1, <4>2
    <3> QED
      BY <3>1, <3>2, <3>3, RestoreStep, Zenon
  <2>7. ASSUME NEW w \in Workers, Report(w) PROVE Balanced'
    BY <2>7, ReportStep
  <2>8. CASE UNCHANGED vars
    BY <2>8 DEF vars, history, Balanced, Balance, Undoing, Contained
  <2> QED
    BY <2>1, <2>2, <2>3, <2>4, <2>5, <2>6, <2>7, <2>8 DEF Next
<1> QED
  BY <1>1, <1>2, TypeCorrect, Originals, ServingAlways, TwoValuesAlways, KnowsItsTarget,
     UndoesRollbacksAlways, PTL DEF Spec

\* Every containment is still there or was taken back by exactly one rollback
\* that says so, where calls on one target do not overlap.
THEOREM Accounted ==
    ASSUME OneAtATime
    PROVE  Spec => []RollbacksAccounted
<1>1. Serving /\ Balanced => RollbacksAccounted
  BY OneUndoing DEF Balanced, Balance, RollbacksAccounted
<1> QED
  BY <1>1, ServingAlways, BalancedAlways, PTL
-----------------------------------------------------------------------------
\* An idempotency key is of one call, and so of one target.
KeysAreOfOneTarget ==
    \A j, k \in Jobs : j.tool = k.tool /\ StoreOf(j) = StoreOf(k) /\ j.key = k.key
                          => j.target = k.target

Answer(job) == results[job.tool][StoreOf(job)][job.key]

\* Who is about to act has not been answered before, and nobody else answers
\* his key meanwhile.
Unanswered ==
    \A w \in Workers :
        work[w].pc \in {"act", "undo"} /\ Remembers(work[w].job) => Answer(work[w].job) = None

\* An answer stored under one key changes no answer under another.
LEMMA ElsewhereStays ==
    ASSUME NEW R, NEW f \in [Tools -> [{"executor", "rollback"} -> [Keys -> R]]],
           NEW tool \in Tools, NEW store \in {"executor", "rollback"}, NEW key \in Keys,
           NEW other \in Tools, NEW place \in {"executor", "rollback"}, NEW token \in Keys,
           NEW v, ~(tool = other /\ store = place /\ key = token)
    PROVE  [f EXCEPT ![tool][store][key] = v][other][place][token] = f[other][place][token]
<1>1. CASE tool # other
  BY <1>1
<1>2. CASE tool = other /\ store # place
  BY <1>2
<1>3. CASE tool = other /\ store = place /\ key # token
  BY <1>3
<1> QED
  BY <1>1, <1>2, <1>3

LEMMA UnansweredAlways ==
    ASSUME OneAtATime, KeysAreOfOneTarget
    PROVE  Spec => []Unanswered
<1>1. Init => Unanswered
  BY DEF Init, Idle, Unanswered
<1>2. ASSUME TypeOK, Serving, Unanswered, [Next]_vars
      PROVE  Unanswered'
  <2> USE <1>2
  <2>1. ASSUME NEW w \in Workers, results' = results,
               \A u \in Workers \ {w} : work'[u] = work[u],
               work'[w].pc \in {"act", "undo"} =>
                  work[w].pc \in {"act", "undo"} /\ work'[w].job = work[w].job
        PROVE  Unanswered'
    BY <2>1 DEF Unanswered, Answer, Remembers, StoreOf
  <2>2. ASSUME NEW w \in Workers, NEW job \in Jobs, Begin(w, job) PROVE Unanswered'
    <3>1. results' = results /\ \A u \in Workers \ {w} : work'[u] = work[u]
      BY <2>2 DEF Begin, TypeOK
    <3>2. work'[w].pc \in {"act", "undo"} =>
             work'[w].job = job /\ (Remembers(job) => Answer(job) = None)
      BY <2>2 DEF Begin, TypeOK, Answer
    <3> QED
      BY <3>1, <3>2 DEF Unanswered, Answer, Remembers, StoreOf
  <2>3. ASSUME NEW w \in Workers,
               Apply(w) \/ Rehearse(w) \/ RestoreValue(w) \/ RemoveIsolation(w) \/ Finish(w)
        PROVE  Unanswered'
    <3>1. results' = results /\ \A u \in Workers \ {w} : work'[u] = work[u]
      BY <2>3, Zenon DEF Apply, Rehearse, RestoreValue, RemoveIsolation, Finish, TypeOK
    <3>2. work'[w].pc \in {"report", "raised", "idle"}
      BY <2>3, SMTT(30) DEF Apply, Rehearse, RestoreValue, RemoveIsolation, Finish, TypeOK, Idle
    <3> QED
      BY <2>1, <3>1, <3>2
  <2>4. ASSUME NEW w \in Workers, Observe(w) PROVE Unanswered'
    <3>1. /\ results' = results /\ \A u \in Workers \ {w} : work'[u] = work[u]
          /\ work[w].pc = "act" /\ work'[w].job = work[w].job
      BY <2>4 DEF Observe, TypeOK
    <3> QED
      BY <2>1, <3>1
  <2>5. ASSUME NEW w \in Workers, Report(w) PROVE Unanswered'
    <3> DEFINE job == work[w].job
    <3>1. work[w].pc = "report" /\ job \in Jobs /\ job.target \in Serves[w]
      BY <2>5, WorkTypes DEF Report, Serving
    <3>2. /\ \A u \in Workers \ {w} : work'[u] = work[u]
          /\ work'[w].pc \notin {"act", "undo"}
      BY <2>5 DEF Report, TypeOK
    <3>3. \/ results' = results
          \/ \E v : results' = [results EXCEPT ![job.tool][StoreOf(job)][job.key] = v]
      BY <2>5, Zenon DEF Report
    <3>4. ASSUME NEW u \in Workers \ {w}, work[u].pc \in {"act", "undo"}
          PROVE  Answer(work[u].job)' = Answer(work[u].job)
      <4> DEFINE other == work[u].job
      <4>1. other \in Jobs /\ other.target \in Serves[u]
        BY <3>4, WorkTypes DEF Serving
      <4>2. job.target # other.target
        BY <3>1, <4>1 DEF OneAtATime
      <4>3. ~(job.tool = other.tool /\ StoreOf(job) = StoreOf(other) /\ job.key = other.key)
        BY <3>1, <4>1, <4>2 DEF KeysAreOfOneTarget
      <4>4. /\ job.tool \in Tools /\ StoreOf(job) \in {"executor", "rollback"} /\ job.key \in Keys
            /\ other.tool \in Tools /\ StoreOf(other) \in {"executor", "rollback"}
            /\ other.key \in Keys
        BY <3>1, <4>1, JobTypes
      <4>5. work'[u] = work[u] /\ StoreOf(work[u].job)' = StoreOf(other)
        BY <3>2 DEF StoreOf
      <4>6. results'[other.tool][StoreOf(other)][other.key]
               = results[other.tool][StoreOf(other)][other.key]
        <5>1. results \in [Tools -> [{"executor", "rollback"} -> [Keys -> ActionResult \cup {None}]]]
          BY DEF TypeOK
        <5>2. ASSUME NEW v, results' = [results EXCEPT ![job.tool][StoreOf(job)][job.key] = v]
              PROVE  results'[other.tool][StoreOf(other)][other.key]
                        = results[other.tool][StoreOf(other)][other.key]
          <6>1. [results EXCEPT ![job.tool][StoreOf(job)][job.key] = v]
                   [other.tool][StoreOf(other)][other.key]
                   = results[other.tool][StoreOf(other)][other.key]
            <7> HIDE DEF job, other
            <7> QED
              BY <4>3, <4>4, <5>1, ElsewhereStays
          <6> QED
            BY <5>2, <6>1, Zenon
        <5> QED
          BY <3>3, <5>2, Zenon
      <4> QED
        BY <4>5, <4>6 DEF Answer
    <3> QED
      BY <3>2, <3>4 DEF Unanswered, Remembers
  <2>6. CASE UNCHANGED vars
    BY <2>6 DEF vars, Unanswered, Answer, Remembers, StoreOf
  <2> QED
    BY <2>2, <2>3, <2>4, <2>5, <2>6 DEF Next
<1> QED
  BY <1>1, <1>2, TypeCorrect, ServingAlways, PTL DEF Spec

\* No late duplicate contains or reverts anything, where calls on one target do
\* not overlap and no two targets share a key.
THEOREM NoDuplicateActs ==
    ASSUME OneAtATime, KeysAreOfOneTarget
    PROVE  Spec => DuplicatesDoNotAct
<1>1. ASSUME Unanswered
      PROVE  [\A w \in Workers :
                /\ work[w].pc \in {"act", "undo"} /\ work'[w].pc = "report"
                /\ held' # held
                /\ Remembers(work[w].job)
                => results[work[w].job.tool][StoreOf(work[w].job)][work[w].job.key] = None]_vars
  BY <1>1 DEF Unanswered, Answer
<1> QED
  BY <1>1, UnansweredAlways, PTL DEF Spec, DuplicatesDoNotAct
==============================================================================
