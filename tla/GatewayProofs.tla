---------------------------- MODULE GatewayProofs ----------------------------
(***************************************************************************)
(* For every catalogue, allowlist, set of requests, approvals, threads and *)
(* processes.  The rate limiter first: where each process has one thread,  *)
(* no window holds more than the limit, and none is refused while there is *)
(* room.  Then the gateway, which is a rate limiter and a durable store,   *)
(* so that what was proved of them holds of it: an execution is bound to   *)
(* its approval, no approval authorizes two, and no denial spends one.     *)
(***************************************************************************)
EXTENDS Gateway, FiniteSetTheorems, TLAPS

\* The empty set, and one element more.
LEMMA NoElement == IsFiniteSet({}) /\ Cardinality({}) = 0
BY FS_EmptySet

LEMMA OneMore ==
    ASSUME NEW S, IsFiniteSet(S), NEW x, NEW T \in SUBSET (S \cup {x})
    PROVE  /\ IsFiniteSet(S \cup {x})
           /\ Cardinality(T) \in Nat /\ Cardinality(T) <= Cardinality(S) + 1
<1>1. /\ IsFiniteSet(S \cup {x})
      /\ Cardinality(S \cup {x}) = IF x \in S THEN Cardinality(S) ELSE Cardinality(S) + 1
  BY FS_AddElement
<1>2. IsFiniteSet(T) /\ Cardinality(T) <= Cardinality(S \cup {x})
  BY <1>1, FS_Subset
<1>3. Cardinality(S) \in Nat /\ Cardinality(T) \in Nat
  BY <1>2, FS_CardinalityType
<1> QED
  BY <1>1, <1>2, <1>3

\* A history of one tool in one process is replaced.
LEMMA Replaced ==
    ASSUME NEW f \in [Procs -> [Tools -> SUBSET Attempt]],
           NEW p \in Procs, NEW tool \in Tools, NEW S \in SUBSET Attempt
    PROVE  [f EXCEPT ![p][tool] = S] \in [Procs -> [Tools -> SUBSET Attempt]]
OBVIOUS

\* A check that is under way has its fields.
LEMMA CheckTypes ==
    ASSUME LimiterTypeOK, NEW w \in Workers
    PROVE  /\ ProcOf[w] \in Procs
           /\ check[w].pc = "read" =>
                 check[w] \in [pc : {"read"}, tool : Tools, attempt : Attempt]
           /\ check[w].pc = "write" =>
                 check[w] \in [pc : {"write"}, tool : Tools, attempt : Attempt,
                               history : SUBSET Attempt]
           /\ check[w].pc \in {"read", "write"} =>
                 check[w].tool \in Tools /\ check[w].attempt \in Attempt
BY ProcsAssumption DEF LimiterTypeOK, Checks

LEMMA LimiterTypesStep ==
    ASSUME LimiterTypeOK, [LimiterNext]_clockedVars
    PROVE  LimiterTypeOK'
<1> USE ProcsAssumption, LimitAssumption, BoundsAssumption
<1>1. ASSUME NEW w \in Workers, NEW tool \in Tools, Enter(w, tool) PROVE LimiterTypeOK'
  <2>1. [at |-> now, n |-> attempts + 1] \in Attempt
    BY <1>1 DEF Enter, LimiterTypeOK, Attempt
  <2>2. [pc |-> "read", tool |-> tool, attempt |-> [at |-> now, n |-> attempts + 1]] \in Checks
    BY <2>1 DEF Checks
  <2> QED
    BY <1>1, <2>2 DEF Enter, LimiterTypeOK
<1>2. ASSUME NEW w \in Workers, Read(w) PROVE LimiterTypeOK'
  <2> DEFINE history == InWindow(calls[ProcOf[w]][check[w].tool], check[w].attempt.at)
  <2>1. check[w] \in [pc : {"read"}, tool : Tools, attempt : Attempt] /\ ProcOf[w] \in Procs
    BY <1>2, CheckTypes DEF Read
  <2>2. history \in SUBSET Attempt
    BY <2>1 DEF LimiterTypeOK, InWindow
  <2> HIDE DEF history
  <2>3. [pc |-> "write", tool |-> check[w].tool, attempt |-> check[w].attempt,
         history |-> history] \in Checks
    BY <2>1, <2>2 DEF Checks
  <2> QED
    BY <1>2, <2>3 DEF Read, LimiterTypeOK, history
<1>3. ASSUME NEW w \in Workers, Limit(w) \/ Admit(w) PROVE LimiterTypeOK'
  <2>1. /\ check[w] \in [pc : {"write"}, tool : Tools, attempt : Attempt,
                         history : SUBSET Attempt]
        /\ ProcOf[w] \in Procs
    BY <1>3, CheckTypes DEF Limit, Admit
  <2>2. [pc |-> "limited"] \in Checks /\ [pc |-> "allowed"] \in Checks
    BY DEF Checks
  <2>3. check' \in [Workers -> Checks]
    BY <1>3, <2>2 DEF Limit, Admit, LimiterTypeOK
  <2>4. calls' \in [Procs -> [Tools -> SUBSET Attempt]]
    <3>1. \E S \in SUBSET Attempt : calls' = [calls EXCEPT ![ProcOf[w]][check[w].tool] = S]
      BY <1>3, <2>1 DEF Limit, Admit
    <3> QED
      BY <2>1, <3>1, Replaced DEF LimiterTypeOK
  <2>5. admitted' \in [Procs -> [Tools -> SUBSET Attempt]]
    <3> DEFINE S == admitted[ProcOf[w]][check[w].tool] \cup {check[w].attempt}
    <3>1. \/ admitted' = admitted
          \/ admitted' = [admitted EXCEPT ![ProcOf[w]][check[w].tool] = S]
      BY <1>3 DEF Limit, Admit
    <3>2. S \in SUBSET Attempt
      BY <2>1 DEF LimiterTypeOK
    <3> HIDE DEF S
    <3>3. [admitted EXCEPT ![ProcOf[w]][check[w].tool] = S] \in [Procs -> [Tools -> SUBSET Attempt]]
      BY <2>1, <3>2, Replaced DEF LimiterTypeOK
    <3> QED
      BY <3>1, <3>3 DEF LimiterTypeOK
  <2> QED
    BY <1>3, <2>3, <2>4, <2>5 DEF Limit, Admit, LimiterTypeOK
<1>4. ASSUME NEW w \in Workers, Leave(w) PROVE LimiterTypeOK'
  BY <1>4 DEF Leave, LimiterTypeOK, Checks, Out
<1>5. ASSUME NEW p \in Procs, Restart(p) PROVE LimiterTypeOK'
  <2>1. Empty \in [Tools -> SUBSET Attempt] /\ Out \in Checks
    BY DEF Empty, Checks, Out
  <2> QED
    BY <1>5, <2>1 DEF Restart, LimiterTypeOK
<1>6. CASE LimiterTick
  BY <1>6 DEF LimiterTick, limiterVars, LimiterTypeOK
<1>7. CASE UNCHANGED clockedVars
  BY <1>7 DEF clockedVars, limiterVars, LimiterTypeOK
<1> QED
  BY <1>1, <1>2, <1>3, <1>4, <1>5, <1>6, <1>7 DEF LimiterNext

\* The types of the limiter are kept, whatever its threads do.
THEOREM LimiterTypeCorrect == LimiterSpec => []LimiterTypeOK
<1>1. LimiterInit => LimiterTypeOK
  BY BoundsAssumption DEF LimiterInit, LimiterTypeOK, Empty, Checks, Out
<1> QED
  BY <1>1, LimiterTypesStep, PTL DEF LimiterSpec
-----------------------------------------------------------------------------
\* The assumption on the callers: nobody else is in the limiter meanwhile.
OneThread == \A v, w \in Workers : ProcOf[v] = ProcOf[w] => v = w

\* What _calls forgets is a minute old, and all of it was admitted.
Remembers(p, tool, t) ==
    /\ \A a \in admitted[p][tool] : a.at <= t
    /\ \A a \in admitted[p][tool] \ calls[p][tool] : a.at <= t - Window
HistoriesAreRight ==
    \A p \in Procs, tool \in Tools :
        /\ IsFiniteSet(admitted[p][tool])
        /\ calls[p][tool] \subseteq admitted[p][tool]
        /\ Remembers(p, tool, now)

\* The same is true at the instant of an attempt that is being checked, which
\* may be past; and what it has read is what _calls holds of its window.
Informed(w) ==
    check[w].pc \in {"read", "write"} =>
        /\ check[w].attempt.at <= now
        /\ Remembers(ProcOf[w], check[w].tool, check[w].attempt.at)
        /\ check[w].pc = "write" =>
              check[w].history = InWindow(calls[ProcOf[w]][check[w].tool], check[w].attempt.at)

Right == HistoriesAreRight /\ \A w \in Workers : Informed(w)

\* Numbers the limiter compares are numbers.
LEMMA Instants ==
    ASSUME LimiterTypeOK
    PROVE  /\ now \in Nat /\ Window \in Nat
           /\ \A p \in Procs, tool \in Tools :
                 /\ calls[p][tool] \subseteq Attempt
                 /\ admitted[p][tool] \subseteq Attempt
           /\ \A a \in Attempt : a.at \in Nat
BY BoundsAssumption DEF LimiterTypeOK, Attempt

\* What a check has read is all that was admitted in the minute before it.
LEMMA HistoryIsWindow ==
    ASSUME LimiterTypeOK, Right, NEW w \in Workers, check[w].pc = "write"
    PROVE  LET A == admitted[ProcOf[w]][check[w].tool]
               t == check[w].attempt.at
           IN /\ check[w].history = Between(A, t - Window, t)
              /\ IsFiniteSet(check[w].history)
              /\ Cardinality(check[w].history) \in Nat
<1> DEFINE p == ProcOf[w]
           tool == check[w].tool
           t == check[w].attempt.at
           A == admitted[p][tool]
<1>1. p \in Procs /\ tool \in Tools /\ check[w].attempt \in Attempt /\ t \in Nat
  BY CheckTypes, Instants
<1>2. /\ calls[p][tool] \subseteq A /\ A \subseteq Attempt /\ IsFiniteSet(A)
      /\ Remembers(p, tool, t)
      /\ check[w].history = InWindow(calls[p][tool], t)
  BY <1>1, Instants DEF Right, HistoriesAreRight, Informed
<1>3. check[w].history = Between(A, t - Window, t)
  BY <1>1, <1>2, Instants DEF Remembers, InWindow, Between
<1>4. check[w].history \in SUBSET A
  BY <1>3 DEF Between
<1> QED
  BY <1>2, <1>3, <1>4, FS_Subset, FS_CardinalityType

\* The histories stay right; the step of one process is not felt in another.
LEMMA RightStep ==
    ASSUME OneThread, LimiterTypeOK, Right, [LimiterNext]_clockedVars
    PROVE  Right'
<1>0. LimiterTypeOK'
  BY LimiterTypesStep
<1>1. ASSUME NEW w \in Workers, NEW tool \in Tools, Enter(w, tool) PROVE Right'
  <2>1. HistoriesAreRight'
    BY <1>1 DEF Enter, Right, HistoriesAreRight, Remembers
  <2>2. ASSUME NEW v \in Workers PROVE Informed(v)'
    <3>1. CASE v = w
      <4>1. check'[w] = [pc |-> "read", tool |-> tool,
                         attempt |-> [at |-> now, n |-> attempts + 1]]
        BY <1>1 DEF Enter, LimiterTypeOK
      <4>2. Remembers(ProcOf[w], tool, now)' /\ now' = now
        BY <1>1, <2>1, CheckTypes DEF Enter, HistoriesAreRight
      <4> QED
        BY <3>1, <4>1, <4>2, Instants DEF Informed, Remembers
    <3>2. CASE v # w
      BY <1>1, <3>2 DEF Enter, LimiterTypeOK, Right, Informed, Remembers
    <3> QED
      BY <3>1, <3>2
  <2> QED
    BY <2>1, <2>2 DEF Right
<1>2. ASSUME NEW w \in Workers, Read(w) PROVE Right'
  <2>1. HistoriesAreRight'
    BY <1>2 DEF Read, Right, HistoriesAreRight, Remembers
  <2>2. ASSUME NEW v \in Workers PROVE Informed(v)'
    <3>1. CASE v = w
      <4>1. check'[w] = [pc |-> "write", tool |-> check[w].tool, attempt |-> check[w].attempt,
                         history |-> InWindow(calls[ProcOf[w]][check[w].tool], check[w].attempt.at)]
        BY <1>2 DEF Read, LimiterTypeOK
      <4>2. Informed(w) /\ check[w].pc = "read"
        BY <1>2 DEF Read, Right
      <4> QED
        BY <1>2, <3>1, <4>1, <4>2 DEF Read, Informed, Remembers
    <3>2. CASE v # w
      BY <1>2, <3>2 DEF Read, LimiterTypeOK, Right, Informed, Remembers
    <3> QED
      BY <3>1, <3>2
  <2> QED
    BY <2>1, <2>2 DEF Right
<1>3. ASSUME NEW w \in Workers, Limit(w) \/ Admit(w) PROVE Right'
  <2> DEFINE p == ProcOf[w]
             tool == check[w].tool
             t == check[w].attempt.at
             A == admitted[p][tool]
             h == check[w].history
  <2>1. /\ check[w].pc = "write" /\ now' = now
        /\ p \in Procs /\ tool \in Tools /\ check[w].attempt \in Attempt
        /\ t \in Nat /\ now \in Nat /\ Window \in Nat /\ t <= now
    BY <1>3, CheckTypes, Instants DEF Limit, Admit, Right, Informed
  <2>2. h = Between(A, t - Window, t) /\ A \subseteq Attempt /\ Remembers(p, tool, t)
    BY <2>1, HistoryIsWindow, Instants DEF Right, Informed
  <2>3. /\ \A q \in Procs, u \in Tools : <<q, u>> # <<p, tool>> =>
              calls'[q][u] = calls[q][u] /\ admitted'[q][u] = admitted[q][u]
        /\ \A v \in Workers : v # w => check'[v] = check[v]
        /\ check'[w].pc \in {"limited", "allowed"}
    BY <1>3, <2>1 DEF Limit, Admit, LimiterTypeOK
  <2>4. \/ calls'[p][tool] = h /\ admitted'[p][tool] = A
        \/ calls'[p][tool] = h \cup {check[w].attempt}
           /\ admitted'[p][tool] = A \cup {check[w].attempt}
    BY <1>3, <2>1 DEF Limit, Admit, LimiterTypeOK
  <2>5. IsFiniteSet(admitted'[p][tool])
    <3>1. IsFiniteSet(A)
      BY <2>1 DEF Right, HistoriesAreRight
    <3>2. IsFiniteSet(A \cup {check[w].attempt})
      BY <3>1, FS_AddElement
    <3> QED
      BY <2>4, <3>1, <3>2
  <2>6. calls'[p][tool] \subseteq admitted'[p][tool]
    BY <2>2, <2>4 DEF Between
  <2>7. \A a \in admitted'[p][tool] : a.at <= t /\ (a \notin calls'[p][tool] => a.at <= t - Window)
    <3>1. \A a \in A : a.at \in Nat
      BY <2>2, Instants
    <3> QED
      BY <2>1, <2>2, <2>4, <3>1 DEF Remembers, Between
  <2>8. \A a \in admitted'[p][tool] : a.at \in Nat
    BY <2>1, <2>2, <2>4, Instants
  <2>9. \A a \in admitted'[p][tool] :
           a.at <= now' /\ (a \notin calls'[p][tool] => a.at <= now' - Window)
    BY <2>1, <2>7, <2>8
  <2>10. HistoriesAreRight'
    <3> SUFFICES ASSUME NEW q \in Procs, NEW u \in Tools
                 PROVE  /\ IsFiniteSet(admitted'[q][u])
                        /\ calls'[q][u] \subseteq admitted'[q][u]
                        /\ Remembers(q, u, now)'
      BY DEF HistoriesAreRight
    <3>1. CASE q = p /\ u = tool
      BY <2>5, <2>6, <2>9, <3>1 DEF Remembers
    <3>2. CASE <<q, u>> # <<p, tool>>
      BY <2>1, <2>3, <3>2 DEF Right, HistoriesAreRight, Remembers
    <3> QED
      BY <3>1, <3>2
  <2>11. ASSUME NEW v \in Workers PROVE Informed(v)'
    <3>1. CASE v = w
      BY <2>3, <3>1 DEF Informed
    <3>2. CASE v # w /\ check[v].pc \in {"read", "write"}
      <4>1. ProcOf[v] # p /\ ProcOf[v] \in Procs /\ check[v].tool \in Tools
        BY <3>2, CheckTypes DEF OneThread
      <4> QED
        BY <2>1, <2>3, <3>2, <4>1 DEF Right, Informed, Remembers
    <3>3. CASE v # w /\ check[v].pc \notin {"read", "write"}
      BY <2>3, <3>3 DEF Informed
    <3> QED
      BY <3>1, <3>2, <3>3
  <2> QED
    BY <2>10, <2>11 DEF Right
<1>4. ASSUME NEW w \in Workers, Leave(w) PROVE Right'
  <2>1. \A v \in Workers : check'[v] = check[v] \/ check'[v].pc = "out"
    BY <1>4 DEF Leave, LimiterTypeOK, Out
  <2> QED
    BY <1>4, <2>1 DEF Leave, Right, HistoriesAreRight, Informed, Remembers
<1>5. ASSUME NEW p \in Procs, Restart(p) PROVE Right'
  <2>1. \A q \in Procs, u \in Tools :
           /\ q = p => calls'[q][u] = {} /\ admitted'[q][u] = {}
           /\ q # p => calls'[q][u] = calls[q][u] /\ admitted'[q][u] = admitted[q][u]
    BY <1>5 DEF Restart, LimiterTypeOK, Empty
  <2>2. now' = now
    BY <1>5 DEF Restart
  <2>3. HistoriesAreRight'
    <3> SUFFICES ASSUME NEW q \in Procs, NEW u \in Tools
                 PROVE  /\ IsFiniteSet(admitted'[q][u])
                        /\ calls'[q][u] \subseteq admitted'[q][u]
                        /\ Remembers(q, u, now)'
      BY DEF HistoriesAreRight
    <3>1. CASE q = p
      BY <2>1, <3>1, NoElement DEF Remembers
    <3>2. CASE q # p
      BY <2>1, <2>2, <3>2 DEF Right, HistoriesAreRight, Remembers
    <3> QED
      BY <3>1, <3>2
  <2>4. ASSUME NEW v \in Workers PROVE Informed(v)'
    <3>1. CASE ProcOf[v] = p
      BY <1>5, <3>1 DEF Restart, Informed, Out
    <3>2. CASE ProcOf[v] # p /\ check[v].pc \in {"read", "write"}
      <4>1. ProcOf[v] \in Procs /\ check[v].tool \in Tools /\ check'[v] = check[v]
        BY <1>5, <3>2, CheckTypes DEF Restart
      <4> QED
        BY <2>1, <2>2, <3>2, <4>1 DEF Right, Informed, Remembers
    <3>3. CASE ProcOf[v] # p /\ check[v].pc \notin {"read", "write"}
      BY <1>5, <3>3 DEF Restart, Informed
    <3> QED
      BY <3>1, <3>2, <3>3
  <2> QED
    BY <2>3, <2>4 DEF Right
<1>6. CASE LimiterTick
  <2>1. /\ now \in Nat /\ now' = now + 1
        /\ calls' = calls /\ admitted' = admitted /\ check' = check
    BY <1>6, Instants DEF LimiterTick, limiterVars
  <2>2. \A p \in Procs, tool \in Tools : Remembers(p, tool, now) => Remembers(p, tool, now)'
    <3>1. \A p \in Procs, tool \in Tools : \A a \in admitted[p][tool] : a.at \in Nat
      BY Instants
    <3> QED
      BY <2>1, <3>1, Instants DEF Remembers
  <2>3. HistoriesAreRight'
    BY <2>1, <2>2 DEF Right, HistoriesAreRight
  <2>4. ASSUME NEW v \in Workers PROVE Informed(v)'
    <3>1. check[v].pc \in {"read", "write"} => check[v].attempt.at \in Nat
      BY CheckTypes, Instants
    <3> QED
      BY <2>1, <3>1 DEF Right, Informed, Remembers
  <2> QED
    BY <2>3, <2>4 DEF Right
<1>7. CASE UNCHANGED clockedVars
  BY <1>7 DEF clockedVars, limiterVars, Right, HistoriesAreRight, Informed, Remembers
<1> QED
  BY <1>1, <1>2, <1>3, <1>4, <1>5, <1>6, <1>7 DEF LimiterNext

LEMMA RightHolds == ASSUME OneThread PROVE LimiterSpec => []Right
<1>1. LimiterInit => Right
  BY NoElement DEF LimiterInit, Empty, Out, Right, HistoriesAreRight, Informed, Remembers
<1>2. LimiterTypeOK /\ Right /\ [LimiterNext]_clockedVars => Right'
  BY RightStep
<1> QED
  BY <1>1, <1>2, LimiterTypeCorrect, PTL DEF LimiterSpec
-----------------------------------------------------------------------------
\* Admitting an attempt fills no window beyond the limit: every window it lies
\* in holds, besides it, only what its own minute holds.
LEMMA AdmitKeepsBound ==
    ASSUME LimiterTypeOK, Right, WindowBound, NEW w \in Workers, Admit(w)
    PROVE  WindowBound'
<1> DEFINE p == ProcOf[w]
           tool == check[w].tool
           a == check[w].attempt
           A == admitted[p][tool]
           h == check[w].history
<1>1. /\ check[w].pc = "write" /\ p \in Procs /\ tool \in Tools /\ a \in Attempt
      /\ a.at \in Nat /\ Window \in Nat /\ CallsPerMinute[tool] \in Nat
  BY CheckTypes, Instants, LimitAssumption DEF Admit
<1>2. /\ h = Between(A, a.at - Window, a.at) /\ IsFiniteSet(h) /\ Cardinality(h) \in Nat
      /\ Cardinality(h) < CallsPerMinute[tool]
  BY <1>1, HistoryIsWindow DEF Admit, Full
<1>3. A \subseteq Attempt /\ \A b \in A : b.at \in Nat /\ b.at <= a.at
  BY <1>1, Instants DEF Right, Informed, Remembers
<1>4. /\ \A q \in Procs, u \in Tools : <<q, u>> # <<p, tool>> => admitted'[q][u] = admitted[q][u]
      /\ admitted'[p][tool] = A \cup {a}
  BY <1>1 DEF Admit, LimiterTypeOK
<1> SUFFICES ASSUME NEW q \in Procs, NEW u \in Tools, NEW t \in 0..MaxNow
             PROVE  Cardinality(Between(admitted'[q][u], t - Window, t)) <= CallsPerMinute[u]
  BY DEF WindowBound
<1>5. CASE <<q, u>> # <<p, tool>>
  BY <1>4, <1>5 DEF WindowBound
<1>6. CASE q = p /\ u = tool /\ ~(t - Window < a.at /\ a.at <= t)
  <2>1. Between(A \cup {a}, t - Window, t) = Between(A, t - Window, t)
    BY <1>6 DEF Between
  <2> QED
    BY <1>1, <1>4, <1>6, <2>1 DEF WindowBound
<1>7. CASE q = p /\ u = tool /\ t - Window < a.at /\ a.at <= t
  <2> DEFINE B == Between(A \cup {a}, t - Window, t)
  <2>0. t \in Nat
    BY BoundsAssumption
  <2>1. B \in SUBSET (h \cup {a})
    BY <1>1, <1>2, <1>3, <1>7, <2>0 DEF Between
  <2>2. Cardinality(B) \in Nat /\ Cardinality(B) <= Cardinality(h) + 1
    BY <1>2, <2>1, OneMore
  <2> HIDE DEF B
  <2>3. Cardinality(B) <= CallsPerMinute[tool]
    BY <1>1, <1>2, <2>2
  <2> QED
    BY <1>4, <1>7, <2>3 DEF B
<1> QED
  BY <1>5, <1>6, <1>7

\* No minute, wherever it ends, holds more admitted attempts than the limit.
THEOREM Bounded == ASSUME OneThread PROVE LimiterSpec => []WindowBound
<1>0. ASSUME NEW u \in Tools, NEW t
      PROVE  Cardinality(Between({}, t - Window, t)) <= CallsPerMinute[u]
  <2>1. Between({}, t - Window, t) = {}
    BY DEF Between
  <2> QED
    BY <2>1, NoElement, LimitAssumption
<1>1. LimiterInit => WindowBound
  BY <1>0 DEF LimiterInit, Empty, WindowBound
<1>2. LimiterTypeOK /\ Right /\ WindowBound /\ [LimiterNext]_clockedVars => WindowBound'
  <2> SUFFICES ASSUME LimiterTypeOK, Right, WindowBound, [LimiterNext]_clockedVars
               PROVE  WindowBound'
    OBVIOUS
  <2>1. ASSUME NEW p \in Procs, Restart(p) PROVE WindowBound'
    <3>1. \A q \in Procs, u \in Tools : admitted'[q][u] = admitted[q][u] \/ admitted'[q][u] = {}
      BY <2>1 DEF Restart, LimiterTypeOK, Empty
    <3> QED
      BY <1>0, <3>1 DEF WindowBound
  <2>2. ASSUME UNCHANGED admitted PROVE WindowBound'
    BY <2>2 DEF WindowBound
  <2> QED
    BY <2>1, <2>2, AdmitKeepsBound
    DEF LimiterNext, Enter, Read, Limit, Leave, LimiterTick, clockedVars, limiterVars
<1> QED
  BY <1>1, <1>2, LimiterTypeCorrect, RightHolds, PTL DEF LimiterSpec

\* An attempt is refused only if its minute holds the limit already.
THEOREM Justified == ASSUME OneThread PROVE LimiterSpec => RefusalJustified
<1>1. ASSUME LimiterTypeOK, Right, NEW w \in Workers, Limit(w)
      PROVE  LET c == check[w] IN
             Cardinality(Between(admitted[ProcOf[w]][c.tool], c.attempt.at - Window, c.attempt.at))
                 >= CallsPerMinute[c.tool]
  BY <1>1, HistoryIsWindow DEF Limit, Full
<1>2. LimiterTypeOK /\ Right /\ [LimiterNext]_clockedVars =>
         [\A w \in Workers : Limit(w) =>
             LET c == check[w] IN
             Cardinality(Between(admitted[ProcOf[w]][c.tool], c.attempt.at - Window, c.attempt.at))
                 >= CallsPerMinute[c.tool]]_clockedVars
  BY <1>1
<1> QED
  BY <1>2, LimiterTypeCorrect, RightHolds, PTL DEF LimiterSpec, RefusalJustified
-----------------------------------------------------------------------------
\* The store, with what is proved about it.
Db == INSTANCE DurableApprovalStoreProofs

\* The assumptions of the store are the gateway's.
LEMMA StoreAssumptions ==
    /\ ProcOf \in [Workers -> Procs] /\ Opener \in [Procs -> Workers]
    /\ ApprovalSet \subseteq Db!ApprovalRecord(Ids, Subjects, Plans)
    /\ MaxNow \in Nat
BY ProcsAssumption, OpenerAssumption, ApprovalsAssumption, BoundsAssumption
DEF ApprovalRecord, Db!ApprovalRecord

SessionTypeOK ==
    /\ session \in [Workers -> Sessions]
    /\ authorized \in [Requests -> Nat]
    /\ \A w \in Workers : session[w].pc = "limiting" => session[w].req.tool_name \in Tools

\* A session that is under way has its request.
LEMMA SessionTypes ==
    ASSUME SessionTypeOK, NEW w \in Workers
    PROVE  /\ session[w].pc \in {"limiting", "consuming"} =>
                 /\ session[w] \in [pc : {"limiting", "consuming"}, req : Requests, at : 0..MaxNow]
                 /\ session[w].req \in Requests /\ session[w].at \in 0..MaxNow
           /\ session[w].pc = "authorized" => session[w].req \in Requests
BY DEF SessionTypeOK, Sessions
-----------------------------------------------------------------------------
\* Every step of a gateway is a step of its limiter, or none of it.
LEMMA LimiterStep ==
    ASSUME [Next]_vars
    PROVE  [LimiterNext]_clockedVars
<1> USE DEF clockedVars, limiterVars
<1>1. ASSUME NEW w \in Workers, NEW r \in Requests, Receive(w, r)
      PROVE  [LimiterNext]_clockedVars
  BY <1>1 DEF Receive, LimiterNext
<1>2. ASSUME NEW w \in Workers, CountAttempt(w) \/ Decide(w) PROVE LimiterNext
  BY <1>2 DEF CountAttempt, Decide, LimiterNext
<1>3. ASSUME NEW w \in Workers, Consume(w) \/ Answer(w) PROVE UNCHANGED clockedVars
  BY <1>3 DEF Consume, Answer, Store!Insert, Store!Replay, Store!Unavailable, Store!Return
<1>4. ASSUME NEW w \in Workers, Finish(w) PROVE UNCHANGED clockedVars
  BY <1>4 DEF Finish
<1>5. ASSUME NEW p \in Procs, Start(p) \/ Crash(p) PROVE [LimiterNext]_clockedVars
  BY <1>5 DEF Start, Crash, Store!Open, LimiterNext
<1>6. CASE Environment \/ Tick
  BY <1>6 DEF Environment, Store!ToggleLock, Tick, LimiterTick, LimiterNext
<1>7. CASE UNCHANGED vars
  BY <1>7 DEF vars
<1> QED
  BY <1>1, <1>2, <1>3, <1>4, <1>5, <1>6, <1>7 DEF Next, Step

LEMMA ImplementsLimiter == Spec => LimiterSpec
<1>1. Init => LimiterInit
  BY DEF Init
<1>2. [Next]_vars => [LimiterNext]_clockedVars
  BY LimiterStep
<1> QED
  BY <1>1, <1>2, PTL DEF Spec, LimiterSpec

\* The quota of a tool holds whatever is denied, consumed or lost around it.
THEOREM QuotaBounds == ASSUME OneThread PROVE Spec => []WindowBound
BY ImplementsLimiter, Bounded, PTL

\* A denial for the quota has its reason in the minute before it.
THEOREM QuotaJustified == ASSUME OneThread PROVE Spec => RefusalJustified
BY ImplementsLimiter, Justified, PTL
-----------------------------------------------------------------------------
\* What Verdict has seen when it sends a request on to the store, or lets it
\* through without.
LEMMA VerdictMeans ==
    ASSUME NEW r \in Requests, NEW at, r.tool_name \in Tools
    PROVE  /\ Verdict(r, at) = "consume" =>
                 NeedsApproval(r) /\ PlanBound(r) /\ SafetyChain(r, at) = "ok"
           /\ Verdict(r, at) = "allow" => ~NeedsApproval(r)
<1> DEFINE chain == SafetyChain(r, at)
<1>1. chain \in {"safety_chain", "raise", "ok"}
  BY DEF SafetyChain
<1> HIDE DEF chain
<1>2. Verdict(r, at) =
         (IF r.action \notin Catalog[r.tool_name].mode THEN "mode"
          ELSE IF Catalog[r.tool_name].required_scope \notin r.granted_scopes THEN "scope"
          ELSE IF ~OnAllowlist(r) THEN "allowlist"
          ELSE IF r.action # "execute" THEN "allow"
          ELSE IF chain # "ok" THEN chain
          ELSE IF ~Catalog[r.tool_name].approval_required THEN "allow"
          ELSE IF PlanBound(r) THEN "consume" ELSE "approval")
  BY DEF Verdict, chain
<1>3. Verdict(r, at) = "consume" => NeedsApproval(r) /\ PlanBound(r) /\ chain = "ok"
  BY <1>1, <1>2 DEF NeedsApproval
<1>4. Verdict(r, at) = "allow" => ~NeedsApproval(r)
  BY <1>1, <1>2 DEF NeedsApproval
<1> QED
  BY <1>3, <1>4 DEF chain

\* A request whose plan is bound presents an approval for a plan.
LEMMA BoundArguments ==
    ASSUME NEW r \in Requests, PlanBound(r)
    PROVE  /\ r.approval \in ApprovalSet /\ r.approval.approval_id \in Ids
           /\ r.current_plan_hash \in Plans /\ r.subject \in Subjects
<1>1. r.approval \in ApprovalSet /\ r.current_plan_hash \in Plans /\ r.subject \in Subjects
  BY RequestsAssumption DEF PlanBound
<1> QED
  BY <1>1, ApprovalsAssumption DEF ApprovalRecord

LEMMA SessionTypesStep ==
    ASSUME SessionTypeOK, LimiterTypeOK, [Next]_vars
    PROVE  SessionTypeOK'
<1>0. /\ Waiting \in Sessions /\ [pc |-> "raised"] \in Sessions
      /\ \A why \in Reasons : [pc |-> "denied", why |-> why] \in Sessions
      /\ \A r \in Requests : [pc |-> "authorized", req |-> r] \in Sessions
  BY DEF Sessions, Waiting
<1>a. ASSUME NEW w \in Workers, NEW why \in Reasons, Deny(w, why) PROVE SessionTypeOK'
  BY <1>0, <1>a DEF Deny, SessionTypeOK
<1>b. ASSUME NEW w \in Workers, Raise(w) PROVE SessionTypeOK'
  BY <1>0, <1>b DEF Raise, SessionTypeOK
<1>c. ASSUME NEW w \in Workers, NEW r \in Requests, Allow(w, r) PROVE SessionTypeOK'
  <2>1. authorized' \in [Requests -> Nat]
    BY <1>c DEF Allow, SessionTypeOK
  <2> QED
    BY <1>0, <1>c, <2>1 DEF Allow, SessionTypeOK
<1>1. ASSUME NEW w \in Workers, NEW r \in Requests, Receive(w, r) PROVE SessionTypeOK'
  <2>1. CASE Raise(w) \/ Deny(w, "P0")
    BY <1>a, <1>b, <2>1 DEF Reasons
  <2>2. CASE /\ r.tool_name \in Tools /\ UNCHANGED authorized
             /\ session' = [session EXCEPT ![w] = [pc |-> "limiting", req |-> r, at |-> now]]
    <3>1. [pc |-> "limiting", req |-> r, at |-> now] \in Sessions
      BY DEF Sessions, LimiterTypeOK
    <3> QED
      BY <2>2, <3>1 DEF SessionTypeOK
  <2> QED
    BY <1>1, <2>1, <2>2 DEF Receive
<1>2. ASSUME NEW w \in Workers, CountAttempt(w) \/ Consume(w) PROVE SessionTypeOK'
  BY <1>2 DEF CountAttempt, Consume, gatewayVars, SessionTypeOK
<1>3. ASSUME NEW w \in Workers, Decide(w) PROVE SessionTypeOK'
  <2>1. /\ session[w] \in [pc : {"limiting", "consuming"}, req : Requests, at : 0..MaxNow]
        /\ session[w].req \in Requests
    BY <1>3, SessionTypes DEF Decide
  <2>2. CASE \/ \E why \in Reasons : Deny(w, why)
             \/ Raise(w)
             \/ Allow(w, session[w].req)
    BY <1>a, <1>b, <1>c, <2>1, <2>2
  <2>3. CASE session' = [session EXCEPT ![w].pc = "consuming"] /\ UNCHANGED authorized
    <3>1. [session[w] EXCEPT !.pc = "consuming"] \in Sessions
          /\ [session[w] EXCEPT !.pc = "consuming"].pc = "consuming"
      BY <2>1 DEF Sessions
    <3> QED
      BY <2>3, <3>1 DEF SessionTypeOK
  <2> QED
    BY <1>3, <2>2, <2>3 DEF Decide
<1>4. ASSUME NEW w \in Workers, Answer(w) PROVE SessionTypeOK'
  <2>1. session[w].req \in Requests
    BY <1>4, SessionTypes DEF Answer
  <2>2. Allow(w, session[w].req) \/ Raise(w) \/ Deny(w, "approval")
    BY <1>4 DEF Answer
  <2> QED
    BY <1>a, <1>b, <1>c, <2>1, <2>2 DEF Reasons
<1>5. ASSUME NEW w \in Workers, Finish(w) PROVE SessionTypeOK'
  BY <1>0, <1>5 DEF Finish, SessionTypeOK, Waiting
<1>6. ASSUME NEW p \in Procs, Start(p) PROVE SessionTypeOK'
  BY <1>6 DEF Start, gatewayVars, SessionTypeOK
<1>7. ASSUME NEW p \in Procs, Crash(p) PROVE SessionTypeOK'
  BY <1>0, <1>7 DEF Crash, SessionTypeOK, Waiting
<1>8. CASE Environment \/ Tick \/ UNCHANGED vars
  BY <1>8 DEF Environment, Tick, vars, gatewayVars, SessionTypeOK
<1> QED
  BY <1>1, <1>2, <1>3, <1>4, <1>5, <1>6, <1>7, <1>8 DEF Next, Step

LEMMA SessionsTyped == Spec => []SessionTypeOK
<1>1. Init => SessionTypeOK
  BY DEF Init, SessionTypeOK, Sessions, Waiting
<1> QED
  BY <1>1, SessionTypesStep, ImplementsLimiter, LimiterTypeCorrect, PTL DEF Spec
-----------------------------------------------------------------------------
\* The instant a request was received with is past.
InstantsArePast ==
    \A w \in Workers : session[w].pc \in {"limiting", "consuming"} => session[w].at \in 0..now

LEMMA InstantsArePastHolds == Spec => []InstantsArePast
<1>1. Init => InstantsArePast
  BY DEF Init, InstantsArePast, Waiting
<1>2. ASSUME SessionTypeOK, LimiterTypeOK, InstantsArePast, [Next]_vars
      PROVE  InstantsArePast'
  <2>1. now \in Nat /\ now' \in Nat /\ now <= now'
    <3>1. now' = now \/ now' = now + 1
      BY <1>2, LimiterStep
      DEF LimiterNext, Enter, Read, Limit, Admit, Leave, Restart, LimiterTick, clockedVars
    <3>2. now \in Nat
      BY <1>2, BoundsAssumption DEF LimiterTypeOK
    <3> QED
      BY <3>1, <3>2
  <2>2. \A w \in Workers :
           \/ session'[w] = session[w]
           \/ session'[w].pc \notin {"limiting", "consuming"}
           \/ session'[w].pc = "limiting" /\ session'[w].at = now
           \/ session[w].pc = "limiting" /\ session'[w].at = session[w].at
    <3> USE <1>2 DEF SessionTypeOK
    <3>a. ASSUME NEW w \in Workers, NEW v \in Workers,
                 Raise(w) \/ (\E why \in Reasons : Deny(w, why)) \/ (\E r \in Requests : Allow(w, r))
          PROVE  session'[v] = session[v] \/ session'[v].pc \notin {"limiting", "consuming"}
      BY <3>a DEF Raise, Deny, Allow
    <3>1. ASSUME NEW w \in Workers, NEW r \in Requests, Receive(w, r), NEW v \in Workers
          PROVE  \/ session'[v] = session[v]
                 \/ session'[v].pc \notin {"limiting", "consuming"}
                 \/ session'[v].pc = "limiting" /\ session'[v].at = now
      BY <3>1, <3>a DEF Receive, Reasons
    <3>2. ASSUME NEW w \in Workers, Decide(w), NEW v \in Workers
          PROVE  \/ session'[v] = session[v]
                 \/ session'[v].pc \notin {"limiting", "consuming"}
                 \/ session[v].pc = "limiting" /\ session'[v].at = session[v].at
      <4>1. /\ session[w] \in [pc : {"limiting", "consuming"}, req : Requests, at : 0..MaxNow]
            /\ session[w].pc = "limiting"
        BY <3>2, SessionTypes DEF Decide
      <4>2. CASE session' = [session EXCEPT ![w].pc = "consuming"]
        BY <4>1, <4>2
      <4>3. CASE ~(session' = [session EXCEPT ![w].pc = "consuming"])
        BY <3>2, <3>a, <4>1, <4>3, SessionTypes DEF Decide
      <4> QED
        BY <4>2, <4>3
    <3>3. ASSUME NEW w \in Workers, Answer(w), NEW v \in Workers
          PROVE  session'[v] = session[v] \/ session'[v].pc \notin {"limiting", "consuming"}
      BY <3>3, <3>a, SessionTypes DEF Answer, Reasons
    <3>4. ASSUME NEW w \in Workers, Finish(w), NEW v \in Workers
          PROVE  session'[v] = session[v] \/ session'[v].pc \notin {"limiting", "consuming"}
      BY <3>4 DEF Finish, Waiting
    <3>5. ASSUME NEW p \in Procs, Crash(p), NEW v \in Workers
          PROVE  session'[v] = session[v] \/ session'[v].pc \notin {"limiting", "consuming"}
      BY <3>5 DEF Crash, Waiting
    <3> QED
      BY <3>1, <3>2, <3>3, <3>4, <3>5
      DEF Next, Step, CountAttempt, Consume, Start, Environment, Tick, vars, gatewayVars
  <2> QED
    BY <1>2, <2>1, <2>2 DEF InstantsArePast
<1> QED
  BY <1>1, <1>2, SessionsTyped, ImplementsLimiter, LimiterTypeCorrect, PTL DEF Spec

\* Every step of a gateway is a step of the store its processes share, or none
\* of it.
LEMMA StoreStep ==
    ASSUME SessionTypeOK, InstantsArePast, [Next]_vars
    PROVE  [Db!Next]_(Db!vars)
<1> USE DEF Db!vars, Db!storeVars, storeVars, limiterVars
<1>1. ASSUME NEW w \in Workers, NEW r \in Requests, Receive(w, r) PROVE UNCHANGED Db!vars
  BY <1>1 DEF Receive
<1>2. ASSUME NEW w \in Workers, CountAttempt(w) PROVE UNCHANGED Db!vars
  BY <1>2 DEF CountAttempt, Read, Limit, Admit
<1>3. ASSUME NEW w \in Workers, Decide(w) PROVE [Db!Next]_(Db!vars)
  <2> DEFINE r == session[w].req  at == session[w].at
  <2>1. now' = now
    BY <1>3 DEF Decide, Leave
  <2>2. CASE UNCHANGED storeVars
    BY <2>1, <2>2
  <2>3. CASE /\ Verdict(r, at) = "consume"
             /\ Store!Call(w, r.approval, r.current_plan_hash, r.subject, at)
    <3>1. r \in Requests /\ r.tool_name \in Tools /\ at \in 0..now
      BY <1>3, SessionTypes DEF Decide, SessionTypeOK, InstantsArePast
    <3>2. PlanBound(r)
      BY <2>3, <3>1, VerdictMeans
    <3>3. r.approval \in ApprovalSet /\ r.current_plan_hash \in Plans /\ r.subject \in Subjects
      BY <3>1, <3>2, BoundArguments
    <3>4. Db!Call(w, r.approval, r.current_plan_hash, r.subject, at)
      BY <2>3 DEF Store!Call, Db!Call, Store!Idle, Db!Idle, Store!ValidateFields, Db!ValidateFields,
         Store!Segregated, Db!Segregated, Store!SignatureRef, Db!SignatureRef
    <3> QED
      BY <3>1, <3>3, <3>4 DEF Db!Next
  <2>4. UNCHANGED storeVars
        \/ /\ Verdict(r, at) = "consume"
           /\ Store!Call(w, r.approval, r.current_plan_hash, r.subject, at)
    BY <1>3 DEF Decide
  <2> QED
    BY <2>2, <2>3, <2>4
<1>4. ASSUME NEW w \in Workers, Consume(w) PROVE Db!Next
  <2>1. Db!Insert(w) \/ Db!Replay(w) \/ Db!Unavailable(w)
    BY <1>4 DEF Consume, Store!Insert, Store!Replay, Store!Unavailable, Store!Usable,
       Store!Consumed, Store!IdOf, Store!Refuse, Db!Insert, Db!Replay, Db!Unavailable,
       Db!Usable, Db!Consumed, Db!IdOf, Db!Refuse
  <2> QED
    BY <2>1 DEF Db!Next, Db!Progress
<1>5. ASSUME NEW w \in Workers, Answer(w) PROVE Db!Next
  <2>1. Db!Return(w)
    BY <1>5 DEF Answer, Store!Return, Store!Outcomes, Store!Idle, Store!IdOf,
       Db!Return, Db!Outcomes, Db!Idle, Db!IdOf
  <2> QED
    BY <2>1 DEF Db!Next, Db!Progress
<1>6. ASSUME NEW w \in Workers, Finish(w) PROVE UNCHANGED Db!vars
  BY <1>6 DEF Finish
<1>7. ASSUME NEW p \in Procs, Start(p) PROVE Db!Next
  BY <1>7 DEF Start, Store!Open, Db!Open, Db!Next
<1>8. ASSUME NEW p \in Procs, Crash(p) PROVE Db!Next
  <2>1. Db!Crash(p)
    BY <1>8 DEF Crash, Store!Crash, Store!IdOf, Store!Idle, Db!Crash, Db!IdOf, Db!Idle
  <2> QED
    BY <2>1 DEF Db!Next
<1>9. CASE Environment
  BY <1>9 DEF Environment, Store!ToggleLock, Db!ToggleLock, Db!Next
<1>10. CASE Tick
  BY <1>10 DEF Tick, Db!Tick, Db!Next
<1>11. CASE UNCHANGED vars
  BY <1>11 DEF vars
<1> QED
  BY <1>1, <1>2, <1>3, <1>4, <1>5, <1>6, <1>7, <1>8, <1>9, <1>10, <1>11 DEF Next, Step

LEMMA ImplementsStore == Spec => Db!Spec
<1>1. Init => Db!Init
  BY DEF Init, Store!Init, Store!Idle, Db!Init, Db!Idle
<1>2. SessionTypeOK /\ InstantsArePast /\ [Next]_vars => [Db!Next]_(Db!vars)
  BY StoreStep
<1> QED
  BY <1>1, <1>2, SessionsTyped, InstantsArePastHolds, PTL DEF Spec, Db!Spec

LEMMA StoreFacts == Spec => [](Db!TypeOK /\ Db!ConsumptionAccounted)
<1>1. Db!Spec => []Db!TypeOK
  BY Db!TypeCorrect, StoreAssumptions
<1>2. Db!Spec => []Db!ConsumptionAccounted
  BY Db!Conservation, StoreAssumptions
<1> QED
  BY <1>1, <1>2, ImplementsStore, PTL

\* The types of a gateway are kept.
THEOREM GatewayTypeCorrect == Spec => []TypeOK
<1>1. Db!TypeOK /\ SessionTypeOK /\ LimiterTypeOK => TypeOK
  BY DEF TypeOK, SessionTypeOK, Store!TypeOK, Store!Row, Store!Calls, Db!TypeOK, Db!Row, Db!Calls
<1> QED
  BY <1>1, StoreFacts, SessionsTyped, ImplementsLimiter, LimiterTypeCorrect, PTL

\* Through the gateway, too, an approval is granted once or burned, and no row
\* of the store is ever deleted or bound to another plan.
THEOREM GatewayKeepsThePromise == Spec => Db!ImplementsConsumeOnce /\ Db!RowsAreForever
<1>1. Db!Spec => Db!ImplementsConsumeOnce
  BY Db!Refinement, StoreAssumptions
<1>2. Db!Spec => Db!RowsAreForever
  BY Db!RowsPersist, StoreAssumptions
<1> QED
  BY <1>1, <1>2, ImplementsStore, PTL
-----------------------------------------------------------------------------
\* The request whose safety chain passes at an instant is covered by an
\* envelope still valid then, which is the one that was verified.
LEMMA ChainMeans ==
    ASSUME NEW r \in Requests, NEW at \in Nat, SafetyChain(r, at) = "ok"
    PROVE  /\ at <= r.safety_envelope.valid_until
           /\ r.verification_result.envelope_hash = r.safety_envelope.envelope_hash
<1>1. /\ r.safety_envelope # None
      /\ ~(at > r.safety_envelope.valid_until)
      /\ VerificationCovers(r.verification_result, r)
  BY DEF SafetyChain
<1>2. r.safety_envelope.valid_until \in Nat
  BY <1>1, RequestsAssumption
<1> QED
  BY <1>1, <1>2 DEF VerificationCovers

\* The row that consuming the approval of a request leaves.
RowFor(r, at) == [approval_id |-> r.approval.approval_id, consumed_at |-> at,
                  action_binding |-> r.current_plan_hash]

\* What a session s, its call c of the store and the table t have in common:
\* the store is asked for nothing but a request that has passed every check,
\* and with its approval and its plan.
BoundSession(s, c, t) ==
    /\ s.pc # "consuming" => c = Waiting
    /\ s.pc = "consuming" =>
          /\ NeedsApproval(s.req) /\ PlanBound(s.req) /\ SafetyChain(s.req, s.at) = "ok"
          /\ c.pc \in {"insert", "accepted", "rejected", "unavailable", "raised"}
          /\ c.pc \in {"insert", "accepted"} =>
                /\ c.approval = s.req.approval
                /\ c.plan = s.req.current_plan_hash
                /\ c.at = s.at
                /\ s.req.approval.approver_id # s.req.subject
          /\ c.pc = "accepted" => RowFor(s.req, s.at) \in t

SessionsAreBound == \A w \in Workers : BoundSession(session[w], call[w], rows)

\* A call's arguments and its row stay what they were when others act.
LEMMA BoundForOthers ==
    ASSUME SessionsAreBound, rows \subseteq rows',
           \A w \in Workers : \/ session'[w] = session[w] /\ call'[w] = call[w]
                              \/ BoundSession(session'[w], call'[w], rows')
    PROVE  SessionsAreBound'
<1>1. \A s, c : BoundSession(s, c, rows) => BoundSession(s, c, rows')
  BY DEF BoundSession
<1> QED
  BY <1>1 DEF SessionsAreBound

LEMMA SessionsAreBoundStep ==
    ASSUME SessionTypeOK, Db!TypeOK, SessionsAreBound, [Next]_vars
    PROVE  SessionsAreBound'
<1> USE DEF storeVars, limiterVars, gatewayVars
<1>0. session \in [Workers -> Sessions] /\ call \in [Workers -> Db!Calls]
  BY DEF SessionTypeOK, Db!TypeOK
<1>a. ASSUME NEW w \in Workers, call'[w] = Waiting, rows' = rows,
             \A v \in Workers \ {w} : call'[v] = call[v],
             \/ Raise(w)
             \/ \E why \in Reasons : Deny(w, why)
             \/ \E r \in Requests : Allow(w, r)
      PROVE  SessionsAreBound'
  <2>1. session'[w].pc # "consuming" /\ \A v \in Workers \ {w} : session'[v] = session[v]
    BY <1>0, <1>a DEF Raise, Deny, Allow
  <2>2. BoundSession(session'[w], call'[w], rows')
    BY <1>a, <2>1 DEF BoundSession
  <2> QED
    BY <1>a, <2>1, <2>2, BoundForOthers
<1>1. ASSUME NEW w \in Workers, NEW r \in Requests, Receive(w, r) PROVE SessionsAreBound'
  <2>1. call[w] = Waiting
    BY <1>1 DEF Receive, Waiting, SessionsAreBound, BoundSession
  <2>2. CASE Raise(w) \/ Deny(w, "P0")
    BY <1>1, <1>a, <2>1, <2>2 DEF Receive, Reasons
  <2>3. CASE session' = [session EXCEPT ![w] = [pc |-> "limiting", req |-> r, at |-> now]]
    <3>1. session'[w].pc = "limiting" /\ \A v \in Workers \ {w} : session'[v] = session[v]
      BY <1>0, <2>3
    <3>2. BoundSession(session'[w], call'[w], rows')
      BY <1>1, <2>1, <3>1 DEF Receive, BoundSession
    <3> QED
      BY <1>1, <3>1, <3>2, BoundForOthers DEF Receive
  <2> QED
    BY <1>1, <2>2, <2>3 DEF Receive
<1>2. ASSUME NEW w \in Workers, Decide(w) PROVE SessionsAreBound'
  <2> DEFINE r == session[w].req  at == session[w].at
  <2>1. /\ session[w] \in [pc : {"limiting", "consuming"}, req : Requests, at : 0..MaxNow]
        /\ session[w].pc = "limiting" /\ r \in Requests /\ r.tool_name \in Tools
        /\ call[w] = Waiting
    BY <1>2, SessionTypes DEF Decide, SessionTypeOK, SessionsAreBound, BoundSession
  <2>2. CASE Store!Call(w, r.approval, r.current_plan_hash, r.subject, at)
             /\ session' = [session EXCEPT ![w].pc = "consuming"]
             /\ Verdict(r, at) = "consume"
    <3>1. NeedsApproval(r) /\ PlanBound(r) /\ SafetyChain(r, at) = "ok"
      BY <2>1, <2>2, VerdictMeans
    <3>2. session'[w].pc = "consuming" /\ session'[w].req = r /\ session'[w].at = at
          /\ \A v \in Workers \ {w} : session'[v] = session[v] /\ call'[v] = call[v]
      BY <1>0, <2>1, <2>2 DEF Store!Call
    <3> DEFINE verdict == Store!ValidateFields(r.approval, r.current_plan_hash, r.subject,
                                               ExecutorId, at)
    <3>3. /\ verdict \in {"valid", "rejected", "raised"}
          /\ verdict = "valid" => r.approval.approver_id # r.subject
      BY DEF Store!ValidateFields, Store!Segregated
    <3> HIDE DEF verdict
    <3>4. call'[w] = IF verdict = "valid"
                       THEN [pc |-> "insert", approval |-> r.approval,
                             plan |-> r.current_plan_hash, at |-> at]
                       ELSE [pc |-> verdict]
      BY <1>0, <2>2 DEF Store!Call, verdict
    <3>5. BoundSession(session'[w], call'[w], rows')
      BY <3>1, <3>2, <3>3, <3>4 DEF BoundSession
    <3> QED
      BY <2>2, <3>2, <3>5, BoundForOthers DEF Store!Call
  <2>3. CASE /\ \/ Raise(w)
                \/ \E why \in Reasons : Deny(w, why)
                \/ Allow(w, r)
             /\ UNCHANGED storeVars
    BY <1>a, <2>1, <2>3
  <2> QED
    BY <1>2, <2>2, <2>3 DEF Decide
<1>3. ASSUME NEW w \in Workers, Consume(w) PROVE SessionsAreBound'
  <2>1. /\ call[w].pc = "insert" /\ session' = session
        /\ \A v \in Workers \ {w} : call'[v] = call[v]
    BY <1>0, <1>3 DEF Consume, Store!Insert, Store!Replay, Store!Unavailable, Store!Refuse
  <2>2. session[w].pc = "consuming" /\ BoundSession(session[w], call[w], rows)
    BY <2>1 DEF SessionsAreBound, BoundSession, Waiting
  <2>3. CASE Store!Insert(w)
    <3>1. call[w] \in [pc : {"insert", "accepted"}, approval : ApprovalSet,
                       plan : Plans, at : Nat]
      BY <1>0, <2>1 DEF Db!Calls
    <3>2. call'[w] = [call[w] EXCEPT !.pc = "accepted"]
          /\ rows' = rows \cup {RowFor(session[w].req, session[w].at)}
      BY <1>0, <2>1, <2>2, <2>3 DEF Store!Insert, Store!IdOf, BoundSession, RowFor
    <3>3. /\ call'[w].pc = "accepted" /\ call'[w].approval = call[w].approval
          /\ call'[w].plan = call[w].plan /\ call'[w].at = call[w].at
      BY <3>1, <3>2
    <3>4. BoundSession(session'[w], call'[w], rows')
      BY <2>1, <2>2, <3>2, <3>3 DEF BoundSession
    <3> QED
      BY <2>1, <3>2, <3>4, BoundForOthers
  <2>4. CASE Store!Replay(w) \/ Store!Unavailable(w)
    <3>1. rows' = rows /\ call'[w].pc \in {"rejected", "unavailable"}
      BY <1>0, <2>4 DEF Store!Replay, Store!Unavailable, Store!Refuse
    <3>2. BoundSession(session'[w], call'[w], rows')
      BY <2>1, <2>2, <3>1 DEF BoundSession
    <3> QED
      BY <2>1, <3>1, <3>2, BoundForOthers
  <2> QED
    BY <1>3, <2>3, <2>4 DEF Consume
<1>4. ASSUME NEW w \in Workers, Answer(w) PROVE SessionsAreBound'
  <2>1. /\ call'[w] = Waiting /\ rows' = rows
        /\ \A v \in Workers \ {w} : call'[v] = call[v]
    BY <1>0, <1>4 DEF Answer, Store!Return, Store!Idle, Waiting
  <2>2. session[w].req \in Requests
    BY <1>4, SessionTypes DEF Answer
  <2>3. Allow(w, session[w].req) \/ Raise(w) \/ Deny(w, "approval")
    BY <1>4 DEF Answer
  <2> QED
    BY <1>a, <2>1, <2>2, <2>3 DEF Reasons
<1>5. ASSUME NEW w \in Workers, Finish(w) PROVE SessionsAreBound'
  <2>1. /\ session'[w] = Waiting /\ call'[w] = Waiting /\ rows' = rows /\ call' = call
        /\ \A v \in Workers \ {w} : session'[v] = session[v]
    BY <1>0, <1>5 DEF Finish, SessionsAreBound, BoundSession
  <2>2. BoundSession(session'[w], call'[w], rows')
    BY <2>1 DEF BoundSession, Waiting
  <2> QED
    BY <2>1, <2>2, BoundForOthers
<1>6. ASSUME NEW p \in Procs, Crash(p) PROVE SessionsAreBound'
  <2>1. /\ rows' = rows
        /\ \A w \in Workers : IF ProcOf[w] = p
                                THEN session'[w] = Waiting /\ call'[w] = Waiting
                                ELSE session'[w] = session[w] /\ call'[w] = call[w]
    BY <1>6 DEF Crash, Store!Crash, Store!Idle, Waiting
  <2>2. BoundSession(Waiting, Waiting, rows')
    BY DEF BoundSession, Waiting
  <2> QED
    BY <2>1, <2>2, BoundForOthers
<1>7. CASE UNCHANGED <<session, call, rows>>
  BY <1>7, BoundForOthers
<1>8. ASSUME NEW w \in Workers, CountAttempt(w) PROVE UNCHANGED <<session, call, rows>>
  BY <1>8 DEF CountAttempt
<1>9. ASSUME NEW p \in Procs, Start(p) PROVE UNCHANGED <<session, call, rows>>
  BY <1>9 DEF Start, Store!Open
<1>10. Environment \/ Tick \/ UNCHANGED vars => UNCHANGED <<session, call, rows>>
  BY DEF Environment, Store!ToggleLock, Tick, vars
<1> QED
  BY <1>1, <1>2, <1>3, <1>4, <1>5, <1>6, <1>7, <1>8, <1>9, <1>10 DEF Next, Step
-----------------------------------------------------------------------------
Executed(r) == r \in Requests /\ NeedsApproval(r) /\ authorized[r] > 0

\* Every execution that was authorized is one the store granted, once, after
\* all its checks; and the store granted nothing else.
Granted ==
    /\ \A r : Executed(r) =>
          /\ authorized[r] = 1
          /\ PlanBound(r) /\ r.approval.approver_id # r.subject
          /\ grants[r.approval.approval_id] = 1
          /\ \E at \in Nat : SafetyChain(r, at) = "ok" /\ RowFor(r, at) \in rows
    /\ \A r, s : Executed(r) /\ Executed(s) =>
          (r.approval.approval_id = s.approval.approval_id => r = s)
    /\ \A i \in Ids : grants[i] = 1 => \E r : Executed(r) /\ r.approval.approval_id = i

\* What is granted stays so while nothing is authorized or answered.
LEMMA GrantedStays ==
    ASSUME Granted, grants' = grants, rows \subseteq rows',
           \A r \in Requests : NeedsApproval(r) => authorized'[r] = authorized[r]
    PROVE  Granted'
<1>1. \A r : Executed(r)' <=> Executed(r)
  BY DEF Executed, NeedsApproval
<1>2. \A r : Executed(r) => authorized'[r] = authorized[r]
  BY DEF Executed
<1>3. \A r, at : /\ PlanBound(r)' <=> PlanBound(r)
                 /\ SafetyChain(r, at)' = SafetyChain(r, at)
                 /\ RowFor(r, at)' = RowFor(r, at)
  BY DEF PlanBound, SafetyChain, RowFor
<1> QED
  BY <1>1, <1>2, <1>3 DEF Granted

LEMMA GrantedStep ==
    ASSUME SessionTypeOK, Db!TypeOK, Db!ConsumptionAccounted, SessionsAreBound,
           Granted, [Next]_vars
    PROVE  Granted'
<1> USE DEF storeVars, limiterVars, gatewayVars
<1>1. ASSUME UNCHANGED <<grants, rows, authorized>> PROVE Granted'
  BY <1>1, GrantedStays
<1>2. ASSUME NEW w \in Workers, NEW r \in Requests, Receive(w, r)
      PROVE  UNCHANGED <<grants, rows, authorized>>
  BY <1>2 DEF Receive, Raise, Deny
<1>3. ASSUME NEW w \in Workers, CountAttempt(w) \/ Finish(w)
      PROVE  UNCHANGED <<grants, rows, authorized>>
  BY <1>3 DEF CountAttempt, Finish
<1>4. ASSUME NEW w \in Workers, Decide(w) PROVE Granted'
  <2> DEFINE r == session[w].req  at == session[w].at
  <2>1. r \in Requests /\ r.tool_name \in Tools
    BY <1>4, SessionTypes DEF Decide, SessionTypeOK
  <2>2. grants' = grants /\ rows' = rows
    BY <1>4 DEF Decide, Store!Call
  <2>3. CASE Verdict(r, at) = "allow" /\ Allow(w, r)
    <3>1. ~NeedsApproval(r)
      BY <2>1, <2>3, VerdictMeans
    <3>2. \A s \in Requests : NeedsApproval(s) => authorized'[s] = authorized[s]
      BY <2>3, <3>1 DEF Allow, SessionTypeOK
    <3> QED
      BY <2>2, <3>2, GrantedStays
  <2>4. CASE authorized' = authorized
    BY <1>1, <2>2, <2>4
  <2> QED
    BY <1>4, <2>3, <2>4 DEF Decide, Deny, Raise, Reasons
<1>5. ASSUME NEW w \in Workers, Consume(w) PROVE Granted'
  BY <1>5, GrantedStays
  DEF Consume, Store!Insert, Store!Replay, Store!Unavailable
<1>6. ASSUME NEW w \in Workers, Answer(w) PROVE Granted'
  <2> DEFINE q == session[w].req  i == q.approval.approval_id
  <2>1. /\ session[w].pc = "consuming" /\ q \in Requests /\ session[w].at \in Nat
        /\ rows' = rows
    BY <1>6, SessionTypes DEF Answer, Store!Return
  <2>2. /\ NeedsApproval(q) /\ PlanBound(q) /\ SafetyChain(q, session[w].at) = "ok"
        /\ BoundSession(session[w], call[w], rows)
    BY <2>1 DEF SessionsAreBound, BoundSession
  <2>3. CASE call[w].pc # "accepted"
    <3>1. grants' = grants /\ authorized' = authorized
      BY <1>6, <2>3 DEF Answer, Store!Return, Raise, Deny
    <3> QED
      BY <1>1, <2>1, <3>1
  <2>4. CASE call[w].pc = "accepted"
    <3>1. i \in Ids
      BY <2>1, <2>2, BoundArguments
    <3>2. /\ call[w].approval = q.approval /\ q.approval.approver_id # q.subject
          /\ RowFor(q, session[w].at) \in rows
      BY <2>1, <2>2, <2>4 DEF BoundSession
    <3>3. grants[i] = 0
      BY <2>4, <3>1, <3>2 DEF Db!ConsumptionAccounted, Db!Accepted, Db!IdOf
    <3>4. \A r : Executed(r) => r # q /\ r.approval.approval_id # i
      BY <3>3 DEF Granted
    <3>5. authorized[q] = 0
      BY <2>1, <2>2, <3>4 DEF Executed, SessionTypeOK
    <3>6. /\ authorized' = [authorized EXCEPT ![q] = @ + 1]
          /\ grants' = [grants EXCEPT ![i] = @ + 1]
      BY <1>6, <2>4, <3>2 DEF Answer, Store!Return, Store!IdOf, Allow
    <3>7. /\ authorized'[q] = 1 /\ \A r \in Requests \ {q} : authorized'[r] = authorized[r]
          /\ grants'[i] = 1 /\ \A j \in Ids \ {i} : grants'[j] = grants[j]
      BY <2>1, <3>1, <3>3, <3>5, <3>6 DEF SessionTypeOK, Db!TypeOK
    <3>8. \A r : Executed(r)' <=> Executed(r) \/ r = q
      BY <2>1, <2>2, <3>7 DEF Executed, NeedsApproval
    <3>9. \A r : Executed(r) => /\ r \in Requests /\ PlanBound(r)
                                /\ r.approval.approval_id \in Ids \ {i}
      BY <3>4, BoundArguments DEF Granted, Executed
    <3>10. \A r, at : /\ PlanBound(r)' <=> PlanBound(r)
                      /\ SafetyChain(r, at)' = SafetyChain(r, at)
                      /\ RowFor(r, at)' = RowFor(r, at)
      BY DEF PlanBound, SafetyChain, RowFor
    <3>11. ASSUME NEW r, Executed(r)'
           PROVE  /\ authorized'[r] = 1
                  /\ PlanBound(r)' /\ r.approval.approver_id # r.subject
                  /\ grants'[r.approval.approval_id] = 1
                  /\ \E at \in Nat : SafetyChain(r, at)' = "ok" /\ RowFor(r, at)' \in rows'
      <4>1. CASE r = q
        BY <2>1, <2>2, <3>2, <3>7, <3>10, <4>1
      <4>2. CASE r # q /\ Executed(r)
        BY <2>1, <3>7, <3>9, <3>10, <4>2 DEF Granted
      <4> QED
        BY <3>8, <3>11, <4>1, <4>2
    <3>12. \A r, s : Executed(r)' /\ Executed(s)' =>
                        (r.approval.approval_id = s.approval.approval_id => r = s)
      BY <3>4, <3>8 DEF Granted
    <3>13. \A j \in Ids : grants'[j] = 1 =>
              \E r : Executed(r)' /\ r.approval.approval_id = j
      BY <3>7, <3>8 DEF Granted
    <3> QED
      BY <3>11, <3>12, <3>13 DEF Granted
  <2> QED
    BY <2>3, <2>4
<1>7. ASSUME NEW p \in Procs, Start(p) \/ Crash(p) PROVE UNCHANGED <<grants, rows, authorized>>
  BY <1>7 DEF Start, Crash, Store!Open, Store!Crash
<1>8. Environment \/ Tick \/ UNCHANGED vars => UNCHANGED <<grants, rows, authorized>>
  BY DEF Environment, Store!ToggleLock, Tick, vars
<1> QED
  BY <1>1, <1>2, <1>3, <1>4, <1>5, <1>6, <1>7, <1>8 DEF Next, Step

LEMMA GrantsHold == Spec => [](SessionsAreBound /\ Granted)
<1>1. Init => SessionsAreBound /\ Granted
  <2>1. Init => SessionsAreBound
    BY DEF Init, Store!Init, Store!Idle, SessionsAreBound, BoundSession, Waiting
  <2>2. ASSUME Init PROVE Granted
    <3>1. \A r : ~Executed(r)
      BY <2>2 DEF Init, Executed
    <3>2. \A i \in Ids : grants[i] # 1
      BY <2>2 DEF Init, Store!Init
    <3> QED
      BY <3>1, <3>2 DEF Granted
  <2> QED
    BY <2>1, <2>2
<1> QED
  BY <1>1, SessionsAreBoundStep, GrantedStep, SessionsTyped, StoreFacts, PTL DEF Spec

\* An authorized execution rests on a consumed approval for exactly that
\* execution, whichever requests, processes and restarts there are.
THEOREM ExecutionsBound == Spec => []ExecutionIsBound
<1>1. ASSUME Granted PROVE ExecutionIsBound
  <2> SUFFICES ASSUME NEW r \in Requests, NeedsApproval(r), authorized[r] > 0
               PROVE  /\ r.approval.approver_id # r.subject
                      /\ r.verification_result.envelope_hash = r.safety_envelope.envelope_hash
                      /\ \E row \in rows :
                            /\ row.approval_id = r.approval.approval_id
                            /\ row.action_binding = PlanHash(r.tool_name, r.target, "execute",
                                                             r.safety_envelope.envelope_hash)
                            /\ row.consumed_at <= r.safety_envelope.valid_until
    BY DEF ExecutionIsBound
  <2>1. PlanBound(r) /\ r.approval.approver_id # r.subject
    BY <1>1 DEF Granted, Executed
  <2>2. PICK at \in Nat : SafetyChain(r, at) = "ok" /\ RowFor(r, at) \in rows
    BY <1>1 DEF Granted, Executed
  <2>3. r.current_plan_hash = PlanHash(r.tool_name, r.target, "execute",
                                       r.safety_envelope.envelope_hash)
    BY <2>1 DEF PlanBound, NeedsApproval
  <2> QED
    BY <2>1, <2>2, <2>3, ChainMeans DEF RowFor
<1> QED
  BY <1>1, GrantsHold, PTL

\* No approval authorizes two executions.
THEOREM OneExecution == Spec => []OneExecutionPerApproval
<1>1. Granted => OneExecutionPerApproval
  BY DEF Granted, Executed, OneExecutionPerApproval
<1> QED
  BY <1>1, GrantsHold, PTL

\* Nothing but an execution spends an approval.
THEOREM DenialsSpendNothing == Spec => []DenialSpendsNothing
<1>1. ASSUME Db!TypeOK, Db!ConsumptionAccounted, SessionsAreBound, Granted
      PROVE  DenialSpendsNothing
  <2> SUFFICES ASSUME NEW row \in rows, row.approval_id \notin burned
               PROVE  \/ \E r \in Requests : /\ NeedsApproval(r) /\ authorized[r] > 0
                                             /\ r.approval.approval_id = row.approval_id
                      \/ \E w \in Workers : /\ session[w].pc = "consuming"
                                            /\ session[w].req.approval.approval_id = row.approval_id
                                            /\ call[w].pc = "accepted"
    BY DEF DenialSpendsNothing
  <2>1. row.approval_id \in Ids /\ Db!Consumed(row.approval_id)
    BY <1>1 DEF Db!TypeOK, Db!Row, Db!Consumed
  <2>2. CASE grants[row.approval_id] = 1
    BY <1>1, <2>1, <2>2 DEF Granted, Executed
  <2>3. CASE \E w \in Workers : Db!Accepted(w, row.approval_id)
    <3>1. PICK w \in Workers : call[w].pc = "accepted"
                               /\ call[w].approval.approval_id = row.approval_id
      BY <2>3 DEF Db!Accepted, Db!IdOf
    <3>2. session[w].pc = "consuming" /\ call[w].approval = session[w].req.approval
      BY <1>1, <3>1 DEF SessionsAreBound, BoundSession, Waiting
    <3> QED
      BY <3>1, <3>2
  <2> QED
    BY <1>1, <2>1, <2>2, <2>3 DEF Db!ConsumptionAccounted
<1> QED
  BY <1>1, GrantsHold, StoreFacts, PTL
==============================================================================
