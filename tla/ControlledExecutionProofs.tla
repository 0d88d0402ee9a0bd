----------------------- MODULE ControlledExecutionProofs -----------------------
(***************************************************************************)
(* For every catalogue, set of requests, keys, threads and processes: the  *)
(* cluster is changed only by executions the gateway allowed, once per     *)
(* approval; where no two requests of a tool share a key, no authorized    *)
(* execution is lost; where a process has one thread and every result      *)
(* keeps its contract, no retry repeats an effect.                         *)
(***************************************************************************)
EXTENDS ControlledExecution, GatewayProofs

\* Every step of the execution is a step of the gateway, or none of it.
LEMMA GatewayStep ==
    ASSUME [ExecNext]_allVars
    PROVE  [Next]_vars
<1>1. ASSUME NEW w \in Workers, Lookup(w) \/ Effect(w) \/ Record(w) PROVE UNCHANGED vars
  BY <1>1 DEF Lookup, Effect, Record
<1>2. ASSUME NEW w \in Workers, Complete(w) PROVE Next
  BY <1>2 DEF Complete, Next
<1>3. ASSUME NEW p \in Procs, CrashAll(p) PROVE Next
  BY <1>3 DEF CrashAll, Next
<1>4. ASSUME NEW w \in Workers, Step(w) \/ \E r \in Requests : Receive(w, r) PROVE Next
  BY <1>4 DEF Next
<1>5. ASSUME \/ \E p \in Procs : Start(p)
             \/ Environment
             \/ Tick
      PROVE  Next
  BY <1>5 DEF Next
<1>6. UNCHANGED allVars => UNCHANGED vars
  BY DEF allVars
<1> QED
  BY <1>1, <1>2, <1>3, <1>4, <1>5, <1>6 DEF ExecNext, Executor

LEMMA ImplementsGateway == ExecSpec => Spec
<1>1. ExecInit => Init
  BY DEF ExecInit
<1>2. [ExecNext]_allVars => [Next]_vars
  BY GatewayStep
<1> QED
  BY <1>1, <1>2, PTL DEF ExecSpec, Spec
-----------------------------------------------------------------------------
WorkTypeOK ==
    /\ idem \in [Procs -> [Tools -> [Keys -> ActionResult \cup {None}]]]
    /\ work \in [Workers -> Works]
    /\ effects \in [Requests -> Nat]
    /\ repeated \in [Procs -> SUBSET (Tools \X Keys)]
    /\ contained \subseteq Tools \X {r.target : r \in Requests}
    /\ abandoned \subseteq Requests
    /\ \A w \in Workers :
          IF session[w].pc = "authorized" THEN session[w].req.tool_name \in Tools
                                          ELSE work[w] = NotWorking

\* What a step of the gateway alone does to the sessions: none becomes or
\* ceases to be authorized, or the one of w becomes so, with r.
NobodyPermitted ==
    /\ authorized' = authorized
    /\ \A v \in Workers : \/ session'[v] = session[v]
                          \/ session[v].pc # "authorized" /\ session'[v].pc # "authorized"

Permitted(w, r) ==
    /\ session[w].pc # "authorized" /\ r.tool_name \in Tools
    /\ session'[w] = [pc |-> "authorized", req |-> r]
    /\ authorized' = [authorized EXCEPT ![r] = @ + 1]
    /\ \A v \in Workers \ {w} : session'[v] = session[v]

GatewayOnly ==
    \/ \E w \in Workers : Step(w) \/ \E r \in Requests : Receive(w, r)
    \/ \E p \in Procs : Start(p)
    \/ Environment
    \/ Tick

LEMMA PermitsOnly ==
    ASSUME SessionTypeOK, SessionsAreBound, GatewayOnly
    PROVE  NobodyPermitted \/ \E w \in Workers, r \in Requests : Permitted(w, r)
<1> USE DEF gatewayVars
<1>0. session \in [Workers -> Sessions] /\ authorized \in [Requests -> Nat]
  BY DEF SessionTypeOK
<1>a. ASSUME NEW w \in Workers, session[w].pc # "authorized",
             Raise(w) \/ \E why \in Reasons : Deny(w, why)
      PROVE  NobodyPermitted
  BY <1>0, <1>a DEF Raise, Deny, NobodyPermitted
<1>b. ASSUME NEW w \in Workers, session[w].pc # "authorized",
             session[w].req \in Requests, session[w].req.tool_name \in Tools,
             Allow(w, session[w].req)
      PROVE  Permitted(w, session[w].req)
  BY <1>0, <1>b DEF Allow, Permitted
<1>1. ASSUME NEW w \in Workers, NEW r \in Requests, Receive(w, r) PROVE NobodyPermitted
  <2>1. session[w].pc # "authorized"
    BY <1>1 DEF Receive, Waiting
  <2>2. CASE session' = [session EXCEPT ![w] = [pc |-> "limiting", req |-> r, at |-> now]]
             /\ UNCHANGED authorized
    BY <1>0, <2>1, <2>2 DEF NobodyPermitted
  <2> QED
    BY <1>1, <1>a, <2>1, <2>2 DEF Receive, Reasons
<1>2. ASSUME NEW w \in Workers, CountAttempt(w) \/ Consume(w) PROVE NobodyPermitted
  BY <1>2 DEF CountAttempt, Consume, NobodyPermitted
<1>3. ASSUME NEW w \in Workers, Decide(w)
      PROVE  NobodyPermitted \/ \E r \in Requests : Permitted(w, r)
  <2>1. /\ session[w].pc = "limiting" /\ session[w].req \in Requests
        /\ session[w] \in [pc : {"limiting", "consuming"}, req : Requests, at : 0..MaxNow]
        /\ session[w].req.tool_name \in Tools
    BY <1>3, SessionTypes DEF Decide, SessionTypeOK
  <2>2. CASE session' = [session EXCEPT ![w].pc = "consuming"] /\ UNCHANGED authorized
    BY <1>0, <2>1, <2>2 DEF NobodyPermitted
  <2> QED
    BY <1>3, <1>a, <1>b, <2>1, <2>2 DEF Decide
<1>4. ASSUME NEW w \in Workers, Answer(w)
      PROVE  NobodyPermitted \/ \E r \in Requests : Permitted(w, r)
  <2>1. session[w].pc = "consuming" /\ session[w].req \in Requests
        /\ session[w].req.tool_name \in Tools
    BY <1>4, SessionTypes DEF Answer, SessionsAreBound, BoundSession, NeedsApproval
  <2>2. Allow(w, session[w].req) \/ Raise(w) \/ Deny(w, "approval")
    BY <1>4 DEF Answer
  <2> QED
    BY <1>a, <1>b, <2>1, <2>2 DEF Reasons
<1>5. (\E p \in Procs : Start(p)) \/ Environment \/ Tick => NobodyPermitted
  BY DEF Start, Environment, Tick, NobodyPermitted
<1> QED
  BY <1>1, <1>2, <1>3, <1>4, <1>5 DEF GatewayOnly, Step
-----------------------------------------------------------------------------
\* The executor works for an authorized session, on a request of a known tool.
LEMMA Working ==
    ASSUME SessionTypeOK, WorkTypeOK, NEW w \in Workers,
           session[w].pc = "authorized" \/ work[w] # NotWorking
    PROVE  /\ session[w].pc = "authorized"
           /\ session[w].req \in Requests /\ session[w].req.tool_name \in Tools
           /\ session[w].req.idempotency_key \in Keys
           /\ ProcOf[w] \in Procs
BY SessionTypes, KeysAssumption, ProcsAssumption DEF WorkTypeOK

LEMMA ResultTyped ==
    ASSUME NEW r \in Requests, r.tool_name \in Tools, NEW d \in BOOLEAN
    PROVE  ResultFor(r, d) \in ActionResult
<1>1. (d \/ <<r.tool_name, r.target>> \in contained) \in BOOLEAN
  BY DEF ResultFor
<1>2. r.target \in {q.target : q \in Requests}
  OBVIOUS
<1> QED
  BY <1>1, <1>2 DEF ResultFor, ActionResult

\* A result remembered replaces what its key had, and nothing else.
LEMMA Remembered ==
    ASSUME NEW f \in [Procs -> [Tools -> [Keys -> ActionResult \cup {None}]]],
           NEW p \in Procs, NEW tool \in Tools, NEW key \in Keys, NEW x \in ActionResult,
           NEW g, g = [f EXCEPT ![p][tool][key] = x]
    PROVE  /\ g \in [Procs -> [Tools -> [Keys -> ActionResult \cup {None}]]]
           /\ g[p][tool][key] = x
           /\ \A q \in Procs, t \in Tools, k \in Keys :
                 <<q, t, k>> # <<p, tool, key>> => g[q][t][k] = f[q][t][k]
<1> DEFINE h == [f[p][tool] EXCEPT ![key] = x]
<1>1. f[p] \in [Tools -> [Keys -> ActionResult \cup {None}]]
  OBVIOUS
<1>2. f[p][tool] \in [Keys -> ActionResult \cup {None}]
  BY <1>1
<1>3. /\ h \in [Keys -> ActionResult \cup {None}] /\ h[key] = x
      /\ \A k \in Keys : k # key => h[k] = f[p][tool][k]
  BY <1>2
<1> HIDE DEF h
<1> DEFINE fp == [f[p] EXCEPT ![tool] = h]
<1>4. /\ fp \in [Tools -> [Keys -> ActionResult \cup {None}]] /\ fp[tool] = h
      /\ \A t \in Tools : t # tool => fp[t] = f[p][t]
  BY <1>1, <1>3
<1>5. [f EXCEPT ![p][tool][key] = x] = [f EXCEPT ![p] = fp]
  BY DEF h
<1> HIDE DEF fp
<1> QED
  BY <1>3, <1>4, <1>5

LEMMA WorkTypesStep ==
    ASSUME SessionTypeOK, SessionsAreBound, WorkTypeOK, [ExecNext]_allVars
    PROVE  WorkTypeOK'
<1> USE DEF execVars
<1>0. NotWorking \in Works /\ [pc |-> "effect"] \in Works /\ [pc |-> "record"] \in Works
      /\ [pc |-> "failed"] \in Works
      /\ \A x \in ActionResult : [pc |-> "done", result |-> x] \in Works
  BY DEF Works, NotWorking
<1>1. ASSUME GatewayOnly, UNCHANGED execVars PROVE WorkTypeOK'
  <2>1. CASE NobodyPermitted
    BY <1>1, <2>1 DEF WorkTypeOK, NobodyPermitted
  <2>2. CASE \E w \in Workers, r \in Requests : Permitted(w, r)
    BY <1>1, <2>2 DEF WorkTypeOK, Permitted
  <2> QED
    BY <1>1, <2>1, <2>2, PermitsOnly
<1>2. ASSUME NEW w \in Workers, Lookup(w) PROVE WorkTypeOK'
  <2> DEFINE cached == idem[ProcOf[w]][session[w].req.tool_name][session[w].req.idempotency_key]
  <2>1. session[w].pc = "authorized" /\ cached \in ActionResult \cup {None}
    BY <1>2, Working DEF Lookup, WorkTypeOK
  <2>2. \E x \in Works : work' = [work EXCEPT ![w] = x]
    BY <1>0, <1>2, <2>1 DEF Lookup
  <2> QED
    BY <1>2, <2>1, <2>2 DEF Lookup, vars, gatewayVars, WorkTypeOK
<1>3. ASSUME NEW w \in Workers, Effect(w) PROVE WorkTypeOK'
  <2>1. session[w].pc = "authorized" /\ session[w].req \in Requests
        /\ session[w].req.tool_name \in Tools /\ session[w].req.idempotency_key \in Keys
        /\ ProcOf[w] \in Procs
    BY <1>3, Working DEF Effect, NotWorking
  <2>2. effects' \in [Requests -> Nat] /\ repeated' \in [Procs -> SUBSET (Tools \X Keys)]
    <3>1. CASE UNCHANGED <<effects, repeated>>
      BY <3>1 DEF WorkTypeOK
    <3>2. CASE /\ effects' = [effects EXCEPT ![session[w].req] = @ + 1]
               /\ repeated' = [repeated EXCEPT ![ProcOf[w]] =
                      @ \cup {<<session[w].req.tool_name, session[w].req.idempotency_key>>}]
      <4>1. effects' \in [Requests -> Nat]
        BY <2>1, <3>2 DEF WorkTypeOK
      <4>2. repeated' \in [Procs -> SUBSET (Tools \X Keys)]
        BY <2>1, <3>2 DEF WorkTypeOK
      <4> QED
        BY <4>1, <4>2
    <3> QED
      BY <1>3, <3>1, <3>2 DEF Effect
  <2>3. work' = [work EXCEPT ![w] = [pc |-> "record"]]
        /\ UNCHANGED <<session, idem, abandoned>>
    BY <1>3 DEF Effect, vars, gatewayVars
  <2>4. contained' \subseteq Tools \X {r.target : r \in Requests}
    <3>1. \/ contained' = contained
          \/ contained' = contained \cup {<<session[w].req.tool_name, session[w].req.target>>}
      BY <1>3 DEF Effect
    <3>2. session[w].req.target \in {r.target : r \in Requests}
      BY <2>1
    <3> QED
      BY <2>1, <3>1, <3>2 DEF WorkTypeOK
  <2> QED
    BY <1>0, <2>1, <2>2, <2>3, <2>4 DEF WorkTypeOK
<1>4. ASSUME NEW w \in Workers, Record(w) PROVE WorkTypeOK'
  <2> DEFINE r == session[w].req  result == ResultFor(r, DryRun(r))
  <2>1. session[w].pc = "authorized" /\ r \in Requests /\ r.tool_name \in Tools
        /\ r.idempotency_key \in Keys /\ ProcOf[w] \in Procs
    BY <1>4, Working DEF Record, NotWorking
  <2>2. result \in ActionResult
    BY <2>1, ResultTyped DEF DryRun
  <2> HIDE DEF result
  <2>3. UNCHANGED <<session, effects, repeated, contained, abandoned>>
    BY <1>4 DEF Record, vars, gatewayVars
  <2>4. (\E x \in Works : work' = [work EXCEPT ![w] = x])
        /\ (idem' = idem \/ idem' = [idem EXCEPT ![ProcOf[w]][r.tool_name][r.idempotency_key] = result])
    BY <1>0, <1>4, <2>2 DEF Record, result
  <2>5. idem' \in [Procs -> [Tools -> [Keys -> ActionResult \cup {None}]]]
    <3>1. idem \in [Procs -> [Tools -> [Keys -> ActionResult \cup {None}]]]
      BY DEF WorkTypeOK
    <3>2. CASE idem' = [idem EXCEPT ![ProcOf[w]][r.tool_name][r.idempotency_key] = result]
      <4> HIDE DEF r
      <4> QED
        BY <2>1, <2>2, <3>1, <3>2, Remembered
    <3> QED
      BY <2>4, <3>1, <3>2
  <2> QED
    BY <2>1, <2>3, <2>4, <2>5 DEF WorkTypeOK
<1>5. ASSUME NEW w \in Workers, Complete(w) PROVE WorkTypeOK'
  <2>1. /\ work' = [work EXCEPT ![w] = NotWorking] /\ session' = [session EXCEPT ![w] = Waiting]
        /\ UNCHANGED <<idem, effects, repeated, contained, abandoned>>
    BY <1>5 DEF Complete, Finish
  <2> QED
    BY <1>0, <2>1 DEF WorkTypeOK, SessionTypeOK, Waiting
<1>6. ASSUME NEW p \in Procs, CrashAll(p) PROVE WorkTypeOK'
  <2>1. NoResults \in [Tools -> [Keys -> ActionResult \cup {None}]]
    BY DEF NoResults
  <2>2. idem' \in [Procs -> [Tools -> [Keys -> ActionResult \cup {None}]]]
        /\ repeated' \in [Procs -> SUBSET (Tools \X Keys)]
    BY <1>6, <2>1 DEF CrashAll, WorkTypeOK
  <2>3. \A w \in Workers : IF ProcOf[w] = p
                             THEN session'[w] = Waiting /\ work'[w] = NotWorking
                             ELSE session'[w] = session[w] /\ work'[w] = work[w]
    BY <1>6 DEF CrashAll, Crash
  <2>4. work' \in [Workers -> Works] /\ UNCHANGED <<effects, contained>>
    BY <1>0, <1>6 DEF CrashAll, WorkTypeOK
  <2>5. abandoned' \subseteq Requests
    <3>1. Unserved(p) \subseteq Requests
      BY SessionTypes DEF Unserved
    <3> QED
      BY <1>6, <3>1 DEF CrashAll, WorkTypeOK
  <2> QED
    BY <2>2, <2>3, <2>4, <2>5 DEF WorkTypeOK, Waiting
<1>7. CASE UNCHANGED allVars
  BY <1>7 DEF allVars, vars, gatewayVars, WorkTypeOK
<1> QED
  BY <1>1, <1>2, <1>3, <1>4, <1>5, <1>6, <1>7 DEF ExecNext, Executor, GatewayOnly

LEMMA WorkTyped == ExecSpec => []WorkTypeOK
<1>1. ExecInit => WorkTypeOK
  BY DEF ExecInit, Init, WorkTypeOK, NoResults, Works, NotWorking, Waiting
<1> QED
  BY <1>1, WorkTypesStep, ImplementsGateway, SessionsTyped, GrantsHold, PTL DEF ExecSpec

\* The types of the execution are kept.
THEOREM ExecTypeCorrect == ExecSpec => []ExecTypeOK
<1>1. TypeOK /\ WorkTypeOK => ExecTypeOK
  BY DEF WorkTypeOK, ExecTypeOK
<1> QED
  BY <1>1, WorkTyped, ImplementsGateway, GatewayTypeCorrect, PTL
-----------------------------------------------------------------------------
\* The sessions that were allowed r and have not had its effect yet.
Pending(r) == {w \in Workers : /\ session[w].pc = "authorized" /\ session[w].req = r
                               /\ work[w].pc \in {"none", "effect"}}

\* No request has more effects, had or pending, than times it was authorized.
Budget ==
    \A r \in Requests : /\ IsFiniteSet(Pending(r))
                        /\ effects[r] + Cardinality(Pending(r)) <= authorized[r]

\* How the sessions that pend change.
LEMMA PendingSteps ==
    ASSUME SessionTypeOK, SessionsAreBound, WorkTypeOK
    PROVE  /\ NobodyPermitted /\ UNCHANGED work => \A r : Pending(r)' = Pending(r)
           /\ \A w \in Workers, q \in Requests :
                 Permitted(w, q) /\ UNCHANGED work =>
                    /\ w \notin Pending(q) /\ Pending(q)' = Pending(q) \cup {w}
                    /\ \A r : r # q => Pending(r)' = Pending(r)
           /\ \A w \in Workers : Lookup(w) => \A r : Pending(r)' \subseteq Pending(r)
           /\ \A w \in Workers, q \in Requests :
                 Effect(w) /\ session[w].req = q =>
                    /\ w \in Pending(q) /\ Pending(q)' = Pending(q) \ {w}
                    /\ \A r : r # q => Pending(r)' = Pending(r)
           /\ \A w \in Workers : Record(w) \/ Complete(w) => \A r : Pending(r)' = Pending(r)
           /\ \A p \in Procs : CrashAll(p) => \A r : Pending(r)' \subseteq Pending(r)
<1> USE DEF vars, gatewayVars
<1>0. work \in [Workers -> Works] /\ session \in [Workers -> Sessions]
  BY DEF WorkTypeOK, SessionTypeOK
<1>1. NobodyPermitted /\ UNCHANGED work => \A r : Pending(r)' = Pending(r)
  BY DEF NobodyPermitted, Pending
<1>2. ASSUME NEW w \in Workers, NEW q \in Requests, Permitted(w, q), UNCHANGED work
      PROVE  /\ w \notin Pending(q) /\ Pending(q)' = Pending(q) \cup {w}
             /\ \A r : r # q => Pending(r)' = Pending(r)
  <2>1. work[w].pc = "none" /\ session'[w].pc = "authorized" /\ session'[w].req = q
    BY <1>2 DEF Permitted, WorkTypeOK, NotWorking
  <2> QED
    BY <1>2, <2>1 DEF Permitted, Pending
<1>3. ASSUME NEW w \in Workers, Lookup(w) PROVE \A r : Pending(r)' \subseteq Pending(r)
  <2>1. work[w].pc = "none" /\ session' = session
        /\ \A v \in Workers \ {w} : work'[v] = work[v]
    BY <1>0, <1>3 DEF Lookup, NotWorking
  <2> QED
    BY <2>1 DEF Pending
<1>4. ASSUME NEW w \in Workers, NEW q \in Requests, Effect(w), session[w].req = q
      PROVE  /\ w \in Pending(q) /\ Pending(q)' = Pending(q) \ {w}
             /\ \A r : r # q => Pending(r)' = Pending(r)
  <2>1. /\ work[w].pc = "effect" /\ session[w].pc = "authorized" /\ session' = session
        /\ work'[w].pc = "record" /\ \A v \in Workers \ {w} : work'[v] = work[v]
    BY <1>0, <1>4, Working DEF Effect, NotWorking
  <2> QED
    BY <1>4, <2>1 DEF Pending
<1>5. ASSUME NEW w \in Workers, Record(w) PROVE \A r : Pending(r)' = Pending(r)
  <2>1. /\ work[w].pc = "record" /\ session' = session
        /\ work'[w].pc \in {"done", "failed"} /\ \A v \in Workers \ {w} : work'[v] = work[v]
    BY <1>0, <1>5 DEF Record
  <2> QED
    BY <2>1 DEF Pending
<1>6. ASSUME NEW w \in Workers, Complete(w) PROVE \A r : Pending(r)' = Pending(r)
  <2>1. /\ session[w].pc = "authorized" => work[w].pc \in {"done", "failed"}
        /\ session'[w].pc = "idle"
        /\ \A v \in Workers \ {w} : session'[v] = session[v] /\ work'[v] = work[v]
    BY <1>0, <1>6 DEF Complete, Finish, Waiting
  <2> QED
    BY <2>1 DEF Pending
<1>7. ASSUME NEW p \in Procs, CrashAll(p) PROVE \A r : Pending(r)' \subseteq Pending(r)
  BY <1>7 DEF CrashAll, Crash, Pending, Waiting
<1> QED
  BY <1>1, <1>2, <1>3, <1>4, <1>5, <1>6, <1>7

LEMMA BudgetStep ==
    ASSUME SessionTypeOK, SessionsAreBound, WorkTypeOK, Budget, [ExecNext]_allVars
    PROVE  Budget'
<1> USE DEF execVars, vars, gatewayVars
<1>0. authorized \in [Requests -> Nat] /\ effects \in [Requests -> Nat]
  BY DEF SessionTypeOK, WorkTypeOK
<1>a. ASSUME effects' = effects, authorized' = authorized,
             \A r : Pending(r)' \subseteq Pending(r)
      PROVE  Budget'
  <2> SUFFICES ASSUME NEW r \in Requests
               PROVE  IsFiniteSet(Pending(r)') /\ effects'[r] + Cardinality(Pending(r)') <= authorized'[r]
    BY DEF Budget
  <2>1. IsFiniteSet(Pending(r)) /\ effects[r] + Cardinality(Pending(r)) <= authorized[r]
    BY DEF Budget
  <2>2. Pending(r)' \in SUBSET Pending(r)
    BY <1>a
  <2>3. IsFiniteSet(Pending(r)') /\ Cardinality(Pending(r)') <= Cardinality(Pending(r))
    BY <2>1, <2>2, FS_Subset
  <2>4. Cardinality(Pending(r)') \in Nat /\ Cardinality(Pending(r)) \in Nat
    BY <2>1, <2>3, FS_CardinalityType
  <2> QED
    BY <1>0, <1>a, <2>1, <2>3, <2>4
<1>1. ASSUME GatewayOnly, UNCHANGED execVars PROVE Budget'
  <2>1. CASE NobodyPermitted
    BY <1>1, <1>a, <2>1, PendingSteps DEF NobodyPermitted
  <2>2. ASSUME NEW w \in Workers, NEW q \in Requests, Permitted(w, q) PROVE Budget'
    <3>1. /\ w \notin Pending(q) /\ Pending(q)' = Pending(q) \cup {w}
          /\ \A r : r # q => Pending(r)' = Pending(r)
      BY <1>1, <2>2, PendingSteps
    <3>2. /\ authorized'[q] = authorized[q] + 1
          /\ \A r \in Requests \ {q} : authorized'[r] = authorized[r]
          /\ effects' = effects
      BY <1>0, <1>1, <2>2 DEF Permitted
    <3>3. IsFiniteSet(Pending(q)) /\ effects[q] + Cardinality(Pending(q)) <= authorized[q]
      BY DEF Budget
    <3>4. /\ IsFiniteSet(Pending(q)')
          /\ Cardinality(Pending(q)') = Cardinality(Pending(q)) + 1
      BY <3>1, <3>3, FS_AddElement
    <3>5. Cardinality(Pending(q)) \in Nat
      BY <3>3, FS_CardinalityType
    <3>6. IsFiniteSet(Pending(q)') /\ effects'[q] + Cardinality(Pending(q)') <= authorized'[q]
      BY <1>0, <3>2, <3>3, <3>4, <3>5
    <3> QED
      BY <3>1, <3>2, <3>6 DEF Budget
  <2> QED
    BY <1>1, <2>1, <2>2, PermitsOnly
<1>2. ASSUME NEW w \in Workers, Lookup(w) \/ Record(w) \/ Complete(w) PROVE Budget'
  <2>1. \A r : Pending(r)' \subseteq Pending(r)
    BY <1>2, PendingSteps
  <2> QED
    BY <1>2, <1>a, <2>1 DEF Lookup, Record, Complete, Finish
<1>3. ASSUME NEW w \in Workers, NEW q \in Requests, Effect(w), session[w].req = q
      PROVE  Budget'
  <2>1. /\ w \in Pending(q) /\ Pending(q)' = Pending(q) \ {w}
        /\ \A r : r # q => Pending(r)' = Pending(r)
    BY <1>3, PendingSteps
  <2>3. /\ effects'[q] = effects[q] \/ effects'[q] = effects[q] + 1
        /\ \A r \in Requests \ {q} : effects'[r] = effects[r]
        /\ authorized' = authorized
    BY <1>0, <1>3 DEF Effect
  <2>4. IsFiniteSet(Pending(q)) /\ effects[q] + Cardinality(Pending(q)) <= authorized[q]
    BY DEF Budget
  <2>5. /\ IsFiniteSet(Pending(q)')
        /\ Cardinality(Pending(q)') = Cardinality(Pending(q)) - 1
    BY <2>1, <2>4, FS_RemoveElement
  <2>6. Cardinality(Pending(q)) \in Nat
    BY <2>4, FS_CardinalityType
  <2>7. IsFiniteSet(Pending(q)') /\ effects'[q] + Cardinality(Pending(q)') <= authorized'[q]
    BY <1>0, <2>3, <2>4, <2>5, <2>6
  <2> QED
    BY <2>1, <2>3, <2>7 DEF Budget
<1>4. ASSUME NEW p \in Procs, CrashAll(p) PROVE Budget'
  <2>1. \A r : Pending(r)' \subseteq Pending(r)
    BY <1>4, PendingSteps
  <2> QED
    BY <1>4, <1>a, <2>1 DEF CrashAll, Crash
<1>5. CASE UNCHANGED allVars
  <2>1. \A r : Pending(r)' \subseteq Pending(r)
    BY <1>5 DEF allVars, Pending
  <2> QED
    BY <1>5, <1>a, <2>1 DEF allVars
<1>6. \A w \in Workers : Effect(w) => session[w].req \in Requests
  BY Working DEF Effect, NotWorking
<1> QED
  BY <1>1, <1>2, <1>3, <1>4, <1>5, <1>6 DEF ExecNext, Executor, GatewayOnly
-----------------------------------------------------------------------------
\* What changed the cluster was an execution, and nothing else did.
OnlyExecutions ==
    /\ \A r \in Requests : effects[r] > 0 => r.action = "execute"
    /\ \A c \in contained : \E r \in Requests : effects[r] > 0 /\ c = <<r.tool_name, r.target>>

LEMMA OnlyExecutionsStep ==
    ASSUME SessionTypeOK, WorkTypeOK, OnlyExecutions, [ExecNext]_allVars
    PROVE  OnlyExecutions'
<1>1. CASE UNCHANGED <<effects, contained>>
  BY <1>1 DEF OnlyExecutions
<1>2. ASSUME NEW w \in Workers, Effect(w) PROVE OnlyExecutions'
  <2> DEFINE q == session[w].req
  <2>1. q \in Requests
    BY <1>2, Working DEF Effect, NotWorking
  <2>2. CASE /\ q.action = "execute" /\ contained' = contained \cup {<<q.tool_name, q.target>>}
             /\ effects' = [effects EXCEPT ![q] = @ + 1]
    <3>1. effects'[q] > 0 /\ \A r \in Requests : effects[r] > 0 => effects'[r] > 0
      BY <2>1, <2>2 DEF WorkTypeOK
    <3>2. \A r \in Requests : effects'[r] > 0 => r = q \/ effects[r] > 0
      BY <2>1, <2>2 DEF WorkTypeOK
    <3> HIDE DEF q
    <3> QED
      BY <2>1, <2>2, <3>1, <3>2 DEF OnlyExecutions
  <2> QED
    BY <1>1, <1>2, <2>2 DEF Effect, DryRun
<1> QED
  BY <1>1, <1>2
  DEF ExecNext, Executor, Lookup, Record, Complete, CrashAll, execVars, allVars

LEMMA EffectsCounted == ExecSpec => [](Budget /\ OnlyExecutions)
<1>1. ExecInit => Budget /\ OnlyExecutions
  <2>1. ASSUME ExecInit PROVE Budget
    <3>1. \A r : Pending(r) = {}
      BY <2>1 DEF ExecInit, Init, Waiting, Pending
    <3>2. \A r \in Requests : effects[r] = 0 /\ authorized[r] = 0
      BY <2>1 DEF ExecInit, Init
    <3> QED
      BY <3>1, <3>2, NoElement DEF Budget
  <2>2. ExecInit => OnlyExecutions
    BY DEF ExecInit, OnlyExecutions
  <2> QED
    BY <2>1, <2>2
<1> QED
  BY <1>1, BudgetStep, OnlyExecutionsStep, ImplementsGateway, SessionsTyped, GrantsHold,
     WorkTyped, PTL DEF ExecSpec

\* No request has more effects than times it was authorized.
LEMMA WithinBudget ==
    ASSUME SessionTypeOK, WorkTypeOK, Budget, NEW r \in Requests
    PROVE  /\ effects[r] <= authorized[r]
           /\ effects[r] \in Nat /\ authorized[r] \in Nat
<1>1. Cardinality(Pending(r)) \in Nat /\ effects[r] + Cardinality(Pending(r)) <= authorized[r]
  BY FS_CardinalityType DEF Budget
<1> QED
  BY <1>1 DEF SessionTypeOK, WorkTypeOK

\* The cluster is changed only by executions the gateway allowed, as often as
\* it allowed them.
THEOREM EffectsAuthorized == ExecSpec => []EffectsAreAuthorized
<1>1. SessionTypeOK /\ WorkTypeOK /\ Budget /\ OnlyExecutions => EffectsAreAuthorized
  BY WithinBudget DEF OnlyExecutions, EffectsAreAuthorized
<1> QED
  BY <1>1, EffectsCounted, ImplementsGateway, SessionsTyped, WorkTyped, PTL

\* One approval changes the cluster at most once.
THEOREM OneEffect == ExecSpec => []OneEffectPerApproval
<1>1. ASSUME SessionTypeOK, WorkTypeOK, Budget, OneExecutionPerApproval
      PROVE  OneEffectPerApproval
  <2> SUFFICES ASSUME NEW r \in Requests, NEW s \in Requests, NeedsApproval(r), NeedsApproval(s),
                      effects[r] > 0, effects[s] > 0
               PROVE  /\ effects[r] = 1
                      /\ r.approval.approval_id = s.approval.approval_id => r = s
    BY DEF OneEffectPerApproval, Executions
  <2>1. authorized[r] > 0 /\ authorized[s] > 0
    BY <1>1, WithinBudget
  <2>2. authorized[r] = 1 /\ (r.approval.approval_id = s.approval.approval_id => r = s)
    BY <1>1, <2>1 DEF OneExecutionPerApproval
  <2> QED
    BY <1>1, <2>2, WithinBudget
<1> QED
  BY <1>1, EffectsCounted, ImplementsGateway, SessionsTyped, WorkTyped, OneExecution, PTL
-----------------------------------------------------------------------------
\* Every action has a key of its own: two requests of one tool that share a
\* key are the same.
OwnKey == \A r, s \in Requests :
              r.tool_name = s.tool_name /\ r.idempotency_key = s.idempotency_key => r = s

\* The result x is what was asked for by r.
Fits(x, r) == /\ x.tool = r.tool_name /\ x.target = r.target
              /\ x.dry_run <=> r.action # "execute"
              /\ x.passed

Served(r) == r.action = "execute" => effects[r] > 0 /\ <<r.tool_name, r.target>> \in contained

\* A result, in hand or remembered, is one of a request that was served.
ResultsFit ==
    /\ \A w \in Workers :
          /\ work[w].pc = "record" => Served(session[w].req)
          /\ work[w].pc = "done" => /\ Fits(work[w].result, session[w].req)
                                    /\ Served(session[w].req)
    /\ \A p \in Procs, r \in Requests :
          LET known == idem[p][r.tool_name][r.idempotency_key] IN
          r.tool_name \in Tools /\ known # None => Fits(known, r) /\ Served(r)

\* Who was served stays served.
LEMMA ServedStays ==
    ASSUME SessionTypeOK, WorkTypeOK, [ExecNext]_allVars
    PROVE  \A r \in Requests : Served(r) => Served(r)'
<1>1. CASE UNCHANGED <<effects, contained>>
  BY <1>1 DEF Served
<1>2. ASSUME NEW w \in Workers, Effect(w) PROVE \A r \in Requests : Served(r) => Served(r)'
  <2>1. contained \subseteq contained' /\ \A r \in Requests : effects[r] > 0 => effects'[r] > 0
    <3>1. session[w].req \in Requests
      BY <1>2, Working DEF Effect, NotWorking
    <3> QED
      BY <1>2, <3>1 DEF Effect, WorkTypeOK
  <2> QED
    BY <2>1 DEF Served
<1> QED
  BY <1>1, <1>2
  DEF ExecNext, Executor, Lookup, Record, Complete, CrashAll, execVars, allVars

LEMMA ResultsFitStep ==
    ASSUME OwnKey, SessionTypeOK, SessionsAreBound, WorkTypeOK, ResultsFit, [ExecNext]_allVars
    PROVE  ResultsFit'
<1> USE DEF execVars, vars, gatewayVars
<1>0. work \in [Workers -> Works] /\ \A r \in Requests : Served(r) => Served(r)'
  BY ServedStays DEF WorkTypeOK
<1>a. \A w \in Workers : work[w] # NotWorking => session[w].req \in Requests
  BY Working
<1>b. ASSUME idem' = idem,
             \A w \in Workers :
                \/ work'[w].pc \notin {"record", "done"}
                \/ /\ work'[w] = work[w] /\ session'[w] = session[w]
                   /\ work[w] # NotWorking
                \/ /\ work'[w].pc = "record" => Served(session[w].req)'
                   /\ work'[w].pc = "done" => /\ Fits(work[w].result, session[w].req)'
                                              /\ Served(session[w].req)'
      PROVE  ResultsFit'
  BY <1>0, <1>a, <1>b DEF ResultsFit
<1>1. ASSUME GatewayOnly, UNCHANGED execVars PROVE ResultsFit'
  <2>1. \A w \in Workers : session[w].pc = "authorized" => session'[w] = session[w]
    BY <1>1, PermitsOnly DEF NobodyPermitted, Permitted
  <2> QED
    BY <1>1, <1>b, <2>1 DEF WorkTypeOK, NotWorking
<1>2. ASSUME NEW w \in Workers, Lookup(w) PROVE ResultsFit'
  <2> DEFINE q == session[w].req
             known == idem[ProcOf[w]][q.tool_name][q.idempotency_key]
  <2>1. q \in Requests /\ q.tool_name \in Tools /\ ProcOf[w] \in Procs
        /\ session' = session /\ idem' = idem
    BY <1>2, Working DEF Lookup
  <2>2. /\ \A v \in Workers \ {w} : work'[v] = work[v]
        /\ work'[w] = IF known # None THEN [pc |-> "done", result |-> known]
                                      ELSE [pc |-> "effect"]
    BY <1>0, <1>2 DEF Lookup
  <2>3. known # None => Fits(known, q) /\ Served(session[w].req)'
    <3>1. known # None => Fits(known, q) /\ Served(q)
      BY <2>1 DEF ResultsFit
    <3>2. Served(q) => Served(session[w].req)'
      BY <2>1, ServedStays DEF Served
    <3> QED
      BY <3>1, <3>2
  <2>4. ASSUME NEW v \in Workers \ {w}
        PROVE  \/ work'[v].pc \notin {"record", "done"}
               \/ work'[v] = work[v] /\ session'[v] = session[v] /\ work[v] # NotWorking
    BY <2>1, <2>2 DEF NotWorking
  <2>5. /\ work'[w].pc # "record"
        /\ work'[w].pc = "done" => /\ Fits(work[w].result, session[w].req)'
                                   /\ Served(session[w].req)'
    <3> HIDE DEF known
    <3> QED
      BY <2>1, <2>2, <2>3 DEF Fits
  <2> QED
    BY <1>b, <2>1, <2>4, <2>5
<1>3. ASSUME NEW w \in Workers, Effect(w) PROVE ResultsFit'
  <2> DEFINE q == session[w].req
  <2>1. /\ q \in Requests /\ session' = session /\ idem' = idem
        /\ work'[w] = [pc |-> "record"]
        /\ \A v \in Workers \ {w} : work'[v] = work[v]
    BY <1>0, <1>3, Working DEF Effect, NotWorking
  <2>2. Served(session[w].req)'
    <3>1. CASE ~DryRun(q)
      <4>1. effects' = [effects EXCEPT ![q] = @ + 1]
            /\ contained' = contained \cup {<<q.tool_name, q.target>>}
        BY <1>3, <3>1 DEF Effect
      <4>2. effects'[q] > 0 /\ <<q.tool_name, q.target>> \in contained'
        BY <2>1, <4>1 DEF WorkTypeOK
      <4> QED
        BY <2>1, <4>2 DEF Served
    <3>2. CASE DryRun(q)
      BY <2>1, <3>2 DEF Served, DryRun
    <3> QED
      BY <3>1, <3>2
  <2>3. ASSUME NEW v \in Workers \ {w}
        PROVE  \/ work'[v].pc \notin {"record", "done"}
               \/ work'[v] = work[v] /\ session'[v] = session[v] /\ work[v] # NotWorking
    BY <2>1 DEF NotWorking
  <2> QED
    BY <1>b, <2>1, <2>2, <2>3
<1>4. ASSUME NEW w \in Workers, Record(w) PROVE ResultsFit'
  <2> DEFINE q == session[w].req  result == ResultFor(q, DryRun(q))
  <2>1. /\ q \in Requests /\ q.tool_name \in Tools /\ q.idempotency_key \in Keys
        /\ ProcOf[w] \in Procs /\ session' = session /\ work[w].pc = "record"
    BY <1>4, Working DEF Record, NotWorking
  <2>2. Served(q) /\ Fits(result, q) /\ result \in ActionResult
    <3>1. Served(q)
      BY <2>1 DEF ResultsFit
    <3>2. Fits(result, q)
      BY <3>1 DEF Fits, Served, ResultFor, DryRun
    <3>3. result \in ActionResult
      BY <2>1, ResultTyped DEF DryRun
    <3> QED
      BY <3>1, <3>2, <3>3
  <2>3. Served(session[w].req)' /\ Fits(result, session'[w].req)
    BY <1>0, <2>1, <2>2, ServedStays DEF Served
  <2> HIDE DEF result
  <2>4. /\ \A v \in Workers \ {w} : work'[v] = work[v]
        /\ \/ /\ work'[w] = [pc |-> "done", result |-> result]
              /\ idem' = [idem EXCEPT ![ProcOf[w]][q.tool_name][q.idempotency_key] = result]
           \/ work'[w] = [pc |-> "failed"] /\ idem' = idem
    BY <1>0, <1>4 DEF Record, result
  <2>5. ASSUME NEW v \in Workers, work'[v].pc \in {"record", "done"}
        PROVE  /\ work'[v].pc = "record" => Served(session[v].req)'
               /\ work'[v].pc = "done" => /\ Fits(work[v].result, session[v].req)'
                                          /\ Served(session[v].req)'
    <3>1. CASE v = w
      BY <2>3, <2>4, <2>5, <3>1 DEF Fits
    <3>2. CASE v # w
      <4>1. work'[v] = work[v] /\ session'[v] = session[v] /\ session[v].req \in Requests
        BY <1>a, <2>1, <2>4, <2>5, <3>2 DEF NotWorking
      <4> QED
        BY <1>0, <2>5, <4>1, ServedStays DEF ResultsFit, Served
    <3> QED
      BY <3>1, <3>2
  <2>6. ASSUME NEW p \in Procs, NEW r \in Requests, r.tool_name \in Tools,
               idem'[p][r.tool_name][r.idempotency_key] # None
        PROVE  Fits(idem'[p][r.tool_name][r.idempotency_key], r) /\ Served(r)'
    <3>1. r.idempotency_key \in Keys
      BY KeysAssumption
    <3>2. CASE /\ idem'[p][r.tool_name][r.idempotency_key]
                     = idem[p][r.tool_name][r.idempotency_key]
      BY <1>0, <2>6, <3>2 DEF ResultsFit
    <3>3. CASE /\ <<p, r.tool_name, r.idempotency_key>> = <<ProcOf[w], q.tool_name, q.idempotency_key>>
               /\ idem'[p][r.tool_name][r.idempotency_key] = result
      <4>1. r = q
        BY <2>1, <3>3 DEF OwnKey
      <4> QED
        BY <1>0, <2>1, <2>2, <3>3, <4>1
    <3>4. idem \in [Procs -> [Tools -> [Keys -> ActionResult \cup {None}]]]
      BY DEF WorkTypeOK
    <3> HIDE DEF q
    <3>5. CASE idem' = [idem EXCEPT ![ProcOf[w]][q.tool_name][q.idempotency_key] = result]
      <4>1. /\ idem'[ProcOf[w]][q.tool_name][q.idempotency_key] = result
            /\ \A o \in Procs, t \in Tools, k \in Keys :
                  <<o, t, k>> # <<ProcOf[w], q.tool_name, q.idempotency_key>> =>
                     idem'[o][t][k] = idem[o][t][k]
        BY <2>1, <2>2, <3>4, <3>5, Remembered
      <4> QED
        BY <2>6, <3>1, <3>2, <3>3, <4>1
    <3> QED
      BY <2>4, <3>2, <3>5
  <2> HIDE DEF q
  <2> QED
    BY <2>5, <2>6 DEF ResultsFit
<1>5. ASSUME NEW w \in Workers, Complete(w) PROVE ResultsFit'
  <2>1. /\ work'[w].pc = "none" /\ idem' = idem
        /\ \A v \in Workers \ {w} : work'[v] = work[v] /\ session'[v] = session[v]
    BY <1>0, <1>5 DEF Complete, Finish, NotWorking, SessionTypeOK
  <2> QED
    BY <1>b, <2>1 DEF NotWorking
<1>6. ASSUME NEW p \in Procs, CrashAll(p) PROVE ResultsFit'
  <2>1. \A v \in Workers : \/ work'[v].pc = "none"
                           \/ work'[v] = work[v] /\ session'[v] = session[v]
    BY <1>6 DEF CrashAll, Crash, NotWorking
  <2>2. \A q \in Procs, r \in Requests : r.tool_name \in Tools =>
           \/ idem'[q][r.tool_name][r.idempotency_key] = None
           \/ idem'[q][r.tool_name][r.idempotency_key] = idem[q][r.tool_name][r.idempotency_key]
    BY <1>6, KeysAssumption DEF CrashAll, NoResults, WorkTypeOK
  <2>3. ASSUME NEW v \in Workers, work'[v].pc \in {"record", "done"}
        PROVE  /\ work'[v].pc = "record" => Served(session[v].req)'
               /\ work'[v].pc = "done" => /\ Fits(work[v].result, session[v].req)'
                                          /\ Served(session[v].req)'
    <3>1. work'[v] = work[v] /\ session'[v] = session[v] /\ session[v].req \in Requests
      BY <1>a, <2>1, <2>3 DEF NotWorking
    <3> QED
      BY <1>0, <2>3, <3>1, ServedStays DEF ResultsFit, Served
  <2> QED
    BY <1>0, <2>2, <2>3 DEF ResultsFit
<1>7. CASE UNCHANGED allVars
  BY <1>7, <1>b DEF allVars, NotWorking
<1> QED
  BY <1>1, <1>2, <1>3, <1>4, <1>5, <1>6, <1>7 DEF ExecNext, Executor, GatewayOnly

LEMMA ResultsFitHolds == ASSUME OwnKey PROVE ExecSpec => []ResultsFit
<1>1. ExecInit => ResultsFit
  BY KeysAssumption DEF ExecInit, ResultsFit, NoResults, NotWorking
<1>2. SessionTypeOK /\ SessionsAreBound /\ WorkTypeOK /\ ResultsFit /\ [ExecNext]_allVars
      => ResultsFit'
  BY ResultsFitStep
<1> QED
  BY <1>1, <1>2, ImplementsGateway, SessionsTyped, GrantsHold, WorkTyped, PTL DEF ExecSpec

\* The caller's ActionResult speaks of what was asked.
THEOREM AnswersMatch == ASSUME OwnKey PROVE ExecSpec => []AnswerMatchesRequest
<1>1. ResultsFit => AnswerMatchesRequest
  BY DEF ResultsFit, Fits, AnswerMatchesRequest
<1> QED
  BY <1>1, ResultsFitHolds, PTL

\* An authorized execution is not lost but by a crash: its session still has
\* the effect to cause when the executor knows no result for its key.
LEMMA WellSpentStep ==
    ASSUME SessionTypeOK, SessionsAreBound, WorkTypeOK, ResultsFit, ApprovalIsWellSpent,
           [ExecNext]_allVars
    PROVE  ApprovalIsWellSpent'
<1> USE DEF execVars, vars, gatewayVars
<1> DEFINE Spent(r) == effects[r] > 0 \/ r \in abandoned \/ Pending(r) # {}
<1>0. work \in [Workers -> Works] /\ session \in [Workers -> Sessions]
  BY DEF WorkTypeOK, SessionTypeOK
<1>a. ApprovalIsWellSpent <=> \A r \in Executions : authorized[r] > 0 => Spent(r)
  BY DEF ApprovalIsWellSpent, Pending
<1>b. ApprovalIsWellSpent' <=> \A r \in Executions : authorized'[r] > 0 => Spent(r)'
  BY DEF ApprovalIsWellSpent, Pending, Executions, NeedsApproval
<1> HIDE DEF Spent
<1>c. ASSUME \A r \in Executions : Spent(r) => Spent(r)', authorized' = authorized
      PROVE  ApprovalIsWellSpent'
  BY <1>a, <1>b, <1>c
<1>d. \A r \in Executions : r \in Requests /\ r.action = "execute"
  BY DEF Executions, NeedsApproval
<1>1. ASSUME GatewayOnly, UNCHANGED execVars PROVE ApprovalIsWellSpent'
  <2>1. CASE NobodyPermitted
    BY <1>1, <1>c, <2>1, PendingSteps DEF NobodyPermitted, Spent
  <2>2. ASSUME NEW w \in Workers, NEW q \in Requests, Permitted(w, q) PROVE ApprovalIsWellSpent'
    <3>1. /\ Pending(q)' = Pending(q) \cup {w}
          /\ \A r : r # q => Pending(r)' = Pending(r)
      BY <1>1, <2>2, PendingSteps
    <3>2. \A r \in Requests : r # q => authorized'[r] = authorized[r]
      BY <2>2 DEF Permitted, SessionTypeOK
    <3>3. Spent(q)' /\ \A r : r # q /\ Spent(r) => Spent(r)'
      BY <1>1, <3>1 DEF Spent
    <3> QED
      BY <1>a, <1>b, <1>d, <3>2, <3>3
  <2> QED
    BY <1>1, <2>1, <2>2, PermitsOnly
<1>2. ASSUME NEW w \in Workers, Lookup(w) PROVE ApprovalIsWellSpent'
  <2> DEFINE q == session[w].req
             known == idem[ProcOf[w]][q.tool_name][q.idempotency_key]
  <2>1. q \in Requests /\ q.tool_name \in Tools /\ ProcOf[w] \in Procs
        /\ UNCHANGED <<session, authorized, effects, abandoned>>
    BY <1>2, Working DEF Lookup
  <2>2. /\ \A v \in Workers \ {w} : work'[v] = work[v]
        /\ work'[w] = IF known # None THEN [pc |-> "done", result |-> known]
                                      ELSE [pc |-> "effect"]
    BY <1>0, <1>2 DEF Lookup
  <2>3. known # None => Served(q)
    BY <2>1 DEF ResultsFit
  <2> HIDE DEF known
  <2>4. ASSUME NEW r \in Executions, Spent(r) PROVE Spent(r)'
    <3>1. CASE effects[r] > 0 \/ r \in abandoned
      BY <2>1, <3>1 DEF Spent
    <3>2. CASE known # None /\ q = r
      BY <1>d, <2>1, <2>3, <3>2 DEF Served, Spent
    <3>3. CASE \E v \in Pending(r) : v # w \/ known = None \/ q # r
      <4>1. PICK v \in Pending(r) : v # w \/ known = None \/ q # r
        BY <3>3
      <4>2. v \in Pending(r)'
        BY <2>1, <2>2, <4>1 DEF Pending
      <4> QED
        BY <4>2 DEF Spent
    <3> QED
      BY <2>4, <3>1, <3>2, <3>3 DEF Spent
  <2> QED
    BY <1>c, <2>1, <2>4
<1>3. ASSUME NEW w \in Workers, NEW q \in Requests, Effect(w), session[w].req = q
      PROVE  ApprovalIsWellSpent'
  <2>1. \A r : r # q => Pending(r)' = Pending(r)
    BY <1>3, PendingSteps
  <2>2. authorized' = authorized /\ abandoned' = abandoned
    BY <1>3 DEF Effect
  <2>3. /\ q.action = "execute" => effects'[q] > 0
        /\ \A r \in Requests : r # q => effects'[r] = effects[r]
    BY <1>3 DEF Effect, DryRun, WorkTypeOK
  <2>4. ASSUME NEW r \in Executions, Spent(r) PROVE Spent(r)'
    BY <1>d, <2>1, <2>2, <2>3, <2>4 DEF Spent
  <2> QED
    BY <1>c, <2>2, <2>4
<1>4. ASSUME NEW w \in Workers, Record(w) \/ Complete(w) PROVE ApprovalIsWellSpent'
  <2>1. \A r : Pending(r)' = Pending(r)
    BY <1>4, PendingSteps
  <2> QED
    BY <1>4, <1>c, <2>1 DEF Record, Complete, Finish, Spent
<1>5. ASSUME NEW p \in Procs, CrashAll(p) PROVE ApprovalIsWellSpent'
  <2>1. /\ authorized' = authorized /\ effects' = effects
        /\ abandoned' = abandoned \cup Unserved(p)
        /\ \A v \in Workers : ProcOf[v] # p => session'[v] = session[v] /\ work'[v] = work[v]
    BY <1>5 DEF CrashAll, Crash
  <2>2. ASSUME NEW r, NEW v \in Pending(r) PROVE r \in abandoned' \/ v \in Pending(r)'
    <3>1. CASE ProcOf[v] = p
      BY <2>1, <2>2, <3>1 DEF Pending, Unserved
    <3>2. CASE ProcOf[v] # p
      BY <2>1, <2>2, <3>2 DEF Pending
    <3> QED
      BY <3>1, <3>2
  <2>3. ASSUME NEW r \in Executions, Spent(r) PROVE Spent(r)'
    BY <2>1, <2>2, <2>3 DEF Spent
  <2> QED
    BY <1>c, <2>1, <2>3
<1>6. CASE UNCHANGED allVars
  BY <1>6 DEF allVars, ApprovalIsWellSpent
<1>7. \A w \in Workers : Effect(w) => session[w].req \in Requests
  BY Working DEF Effect, NotWorking
<1> QED
  BY <1>1, <1>2, <1>3, <1>4, <1>5, <1>6, <1>7 DEF ExecNext, Executor, GatewayOnly

\* Only a crash wastes an approval that was spent.
THEOREM WellSpent == ASSUME OwnKey PROVE ExecSpec => []ApprovalIsWellSpent
<1>1. ExecInit => ApprovalIsWellSpent
  BY DEF ExecInit, Init, ApprovalIsWellSpent, Executions
<1> QED
  BY <1>1, WellSpentStep, ResultsFitHolds, ImplementsGateway, SessionsTyped, GrantsHold,
     WorkTyped, PTL DEF ExecSpec
-----------------------------------------------------------------------------
\* Every executor's result keeps its contract.
ContractsKept == \A r \in Requests : r.contract_ok

KeyOf(r) == <<r.tool_name, r.idempotency_key>>

\* What took effect in a process is remembered by it, or is about to be; what
\* is about to take effect is not remembered.
RepeatsKnown ==
    /\ \A p \in Procs, tool \in Tools, key \in Keys :
          <<tool, key>> \in repeated[p] =>
             \/ idem[p][tool][key] # None
             \/ \E w \in Workers : /\ ProcOf[w] = p /\ work[w].pc = "record"
                                   /\ KeyOf(session[w].req) = <<tool, key>>
    /\ \A w \in Workers : work[w].pc = "effect" =>
          LET r == session[w].req IN idem[ProcOf[w]][r.tool_name][r.idempotency_key] = None

LEMMA RepeatsKnownStep ==
    ASSUME OneThread, ContractsKept, SessionTypeOK, SessionsAreBound, WorkTypeOK,
           RepeatsKnown, [ExecNext]_allVars
    PROVE  RepeatsKnown'
<1> USE DEF execVars, vars, gatewayVars
<1>0. work \in [Workers -> Works] /\ session \in [Workers -> Sessions]
      /\ idem \in [Procs -> [Tools -> [Keys -> ActionResult \cup {None}]]]
      /\ repeated \in [Procs -> SUBSET (Tools \X Keys)]
  BY DEF WorkTypeOK, SessionTypeOK
<1>a. ASSUME UNCHANGED <<idem, repeated>>,
             \A w \in Workers :
                \/ work'[w] = work[w] /\ session'[w] = session[w]
                \/ work[w].pc # "record" /\ work'[w].pc # "effect"
                \/ /\ work[w].pc # "record" /\ session'[w] = session[w]
                   /\ idem[ProcOf[w]][session[w].req.tool_name][session[w].req.idempotency_key]
                         = None
      PROVE  RepeatsKnown'
  BY <1>a DEF RepeatsKnown
<1>1. ASSUME GatewayOnly, UNCHANGED execVars PROVE RepeatsKnown'
  <2>1. \A w \in Workers : session[w].pc = "authorized" => session'[w] = session[w]
    BY <1>1, PermitsOnly DEF NobodyPermitted, Permitted
  <2> QED
    BY <1>1, <1>a, <2>1 DEF WorkTypeOK, NotWorking
<1>2. ASSUME NEW w \in Workers, Lookup(w) PROVE RepeatsKnown'
  <2>1. /\ work[w].pc = "none" /\ UNCHANGED <<idem, repeated, session>>
        /\ \A v \in Workers \ {w} : work'[v] = work[v]
        /\ \/ work'[w].pc = "done"
           \/ idem[ProcOf[w]][session[w].req.tool_name][session[w].req.idempotency_key] = None
    BY <1>0, <1>2 DEF Lookup, NotWorking
  <2> QED
    BY <1>a, <2>1
<1>3. ASSUME NEW w \in Workers, Effect(w) PROVE RepeatsKnown'
  <2>1. /\ UNCHANGED <<idem, session>> /\ work[w].pc = "effect" /\ work'[w].pc = "record"
        /\ \A v \in Workers \ {w} : work'[v] = work[v]
    BY <1>0, <1>3 DEF Effect
  <2>2. \A p \in Procs, tool \in Tools, key \in Keys :
           <<tool, key>> \in repeated'[p] =>
              \/ <<tool, key>> \in repeated[p]
              \/ p = ProcOf[w] /\ KeyOf(session[w].req) = <<tool, key>>
    BY <1>0, <1>3 DEF Effect, KeyOf
  <2> QED
    BY <2>1, <2>2 DEF RepeatsKnown
<1>4. ASSUME NEW w \in Workers, Record(w) PROVE RepeatsKnown'
  <2> DEFINE q == session[w].req  result == ResultFor(q, DryRun(q))
  <2>1. /\ q \in Requests /\ q.tool_name \in Tools /\ q.idempotency_key \in Keys
        /\ ProcOf[w] \in Procs /\ session' = session /\ repeated' = repeated
    BY <1>4, Working DEF Record, NotWorking
  <2>2. result \in ActionResult /\ result # None
    BY <2>1, ResultTyped, NoneAssumption DEF DryRun
  <2> HIDE DEF result
  <2>3. /\ idem' = [idem EXCEPT ![ProcOf[w]][q.tool_name][q.idempotency_key] = result]
        /\ work'[w].pc = "done" /\ \A v \in Workers \ {w} : work'[v] = work[v]
    BY <1>0, <1>4, <2>1 DEF Record, ContractsKept, result
  <2>4. /\ idem'[ProcOf[w]][q.tool_name][q.idempotency_key] = result
        /\ \A o \in Procs, t \in Tools, k \in Keys :
              <<o, t, k>> # <<ProcOf[w], q.tool_name, q.idempotency_key>> =>
                 idem'[o][t][k] = idem[o][t][k]
    BY <1>0, <2>1, <2>2, <2>3, Remembered
  <2>5. ASSUME NEW p \in Procs, NEW tool \in Tools, NEW key \in Keys,
               <<tool, key>> \in repeated'[p], idem'[p][tool][key] = None
        PROVE  \E v \in Workers : /\ ProcOf[v] = p /\ work'[v].pc = "record"
                                  /\ KeyOf(session'[v].req) = <<tool, key>>
    <3>1. <<p, tool, key>> # <<ProcOf[w], q.tool_name, q.idempotency_key>>
      BY <2>2, <2>4, <2>5
    <3>2. idem[p][tool][key] = None
      BY <2>4, <2>5, <3>1
    <3>3. PICK v \in Workers : /\ ProcOf[v] = p /\ work[v].pc = "record"
                               /\ KeyOf(session[v].req) = <<tool, key>>
      BY <2>1, <2>5, <3>2 DEF RepeatsKnown
    <3>4. v # w
      BY <3>1, <3>3 DEF KeyOf
    <3> QED
      BY <2>1, <2>3, <3>3, <3>4
  <2>6. ASSUME NEW v \in Workers, work'[v].pc = "effect"
        PROVE  idem'[ProcOf[v]][session'[v].req.tool_name][session'[v].req.idempotency_key] = None
    <3>1. v # w /\ work'[v] = work[v] /\ ProcOf[v] # ProcOf[w]
      BY <2>3, <2>6 DEF OneThread
    <3>2. /\ session[v].req.tool_name \in Tools /\ session[v].req.idempotency_key \in Keys
          /\ ProcOf[v] \in Procs
      BY <2>6, <3>1, Working DEF NotWorking
    <3> QED
      BY <2>1, <2>4, <2>6, <3>1, <3>2 DEF RepeatsKnown
  <2> HIDE DEF q
  <2> QED
    BY <2>5, <2>6 DEF RepeatsKnown
<1>5. ASSUME NEW w \in Workers, Complete(w) PROVE RepeatsKnown'
  <2>1. /\ work[w].pc # "record" /\ work'[w].pc = "none" /\ UNCHANGED <<idem, repeated>>
        /\ \A v \in Workers \ {w} : work'[v] = work[v] /\ session'[v] = session[v]
    BY <1>0, <1>5 DEF Complete, Finish, NotWorking, WorkTypeOK
  <2> QED
    BY <1>a, <2>1
<1>6. ASSUME NEW p \in Procs, CrashAll(p) PROVE RepeatsKnown'
  <2>1. /\ repeated'[p] = {} /\ \A q \in Procs \ {p} : repeated'[q] = repeated[q] /\ idem'[q] = idem[q]
        /\ \A v \in Workers : IF ProcOf[v] = p THEN work'[v].pc = "none"
                                ELSE work'[v] = work[v] /\ session'[v] = session[v]
    BY <1>0, <1>6 DEF CrashAll, Crash, NotWorking
  <2>2. ASSUME NEW o \in Procs, NEW tool \in Tools, NEW key \in Keys,
               <<tool, key>> \in repeated'[o], idem'[o][tool][key] = None
        PROVE  \E v \in Workers : /\ ProcOf[v] = o /\ work'[v].pc = "record"
                                  /\ KeyOf(session'[v].req) = <<tool, key>>
    <3>1. o # p /\ <<tool, key>> \in repeated[o] /\ idem[o][tool][key] = None
      BY <2>1, <2>2
    <3>2. PICK v \in Workers : /\ ProcOf[v] = o /\ work[v].pc = "record"
                               /\ KeyOf(session[v].req) = <<tool, key>>
      BY <3>1 DEF RepeatsKnown
    <3> QED
      BY <2>1, <3>1, <3>2
  <2>3. ASSUME NEW v \in Workers, work'[v].pc = "effect"
        PROVE  idem'[ProcOf[v]][session'[v].req.tool_name][session'[v].req.idempotency_key] = None
    BY <2>1, <2>3, ProcsAssumption DEF RepeatsKnown
  <2> QED
    BY <2>2, <2>3 DEF RepeatsKnown
<1>7. CASE UNCHANGED allVars
  BY <1>7, <1>a DEF allVars
<1> QED
  BY <1>1, <1>2, <1>3, <1>4, <1>5, <1>6, <1>7 DEF ExecNext, Executor, GatewayOnly

LEMMA RepeatsKnownHolds == ASSUME OneThread, ContractsKept PROVE ExecSpec => []RepeatsKnown
<1>1. ExecInit => RepeatsKnown
  BY DEF ExecInit, RepeatsKnown, NotWorking
<1>2. SessionTypeOK /\ SessionsAreBound /\ WorkTypeOK /\ RepeatsKnown /\ [ExecNext]_allVars
      => RepeatsKnown'
  BY RepeatsKnownStep
<1> QED
  BY <1>1, <1>2, ImplementsGateway, SessionsTyped, GrantsHold, WorkTyped, PTL DEF ExecSpec

\* A retry with the same key repeats no effect while the process lives.
THEOREM RetriesRepeatNothing ==
    ASSUME OneThread, ContractsKept PROVE ExecSpec => RetryHasNoEffect
<1> DEFINE NoRepeat == \A w \in Workers :
        work[w].pc = "effect" /\ effects'[session[w].req] > effects[session[w].req] =>
           <<session[w].req.tool_name, session[w].req.idempotency_key>> \notin repeated[ProcOf[w]]
<1>1. ASSUME SessionTypeOK, WorkTypeOK, RepeatsKnown PROVE NoRepeat
  <2> SUFFICES ASSUME NEW w \in Workers, work[w].pc = "effect"
               PROVE  KeyOf(session[w].req) \notin repeated[ProcOf[w]]
    BY DEF KeyOf
  <2> DEFINE q == session[w].req
  <2>1. q.tool_name \in Tools /\ q.idempotency_key \in Keys /\ ProcOf[w] \in Procs
    BY <1>1, Working DEF NotWorking
  <2>2. idem[ProcOf[w]][q.tool_name][q.idempotency_key] = None
    BY <1>1 DEF RepeatsKnown
  <2>3. ~ \E v \in Workers : ProcOf[v] = ProcOf[w] /\ work[v].pc = "record"
    BY DEF OneThread
  <2> QED
    BY <1>1, <2>1, <2>2, <2>3 DEF RepeatsKnown, KeyOf
<1>2. SessionTypeOK /\ WorkTypeOK /\ RepeatsKnown /\ [ExecNext]_allVars => [NoRepeat]_allVars
  BY <1>1
<1> QED
  BY <1>2, RepeatsKnownHolds, ImplementsGateway, SessionsTyped, WorkTyped, PTL
  DEF ExecSpec, RetryHasNoEffect
==============================================================================
