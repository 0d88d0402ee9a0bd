--------------------------- MODULE AttackPathProofs ---------------------------
(***************************************************************************)
(* For every catalogue, allowlist and set of requests: a gateway that is   *)
(* asked by validations is the gateway it is without them, and a validated *)
(* path and a bypassed gate are what they are called.                      *)
(***************************************************************************)
EXTENDS AttackPath, GatewayProofs

\* Every step with validations is one of the gateway, or none of it.
LEMMA PathStep ==
    ASSUME [PathNext]_pathVars
    PROVE  [Next]_vars
BY ProbesAssumption
DEF PathNext, pathVars, Ask, Validate, Conclude, CrashPath, Next

LEMMA ImplementsGateway == PathSpec => Spec
<1>1. PathInit => Init
  BY DEF PathInit
<1> QED
  BY <1>1, PathStep, PTL DEF PathSpec, Spec

\* Validations take no worker from its client and leave no trace of theirs.
THEOREM PathTypeCorrect == PathSpec => []PathTypeOK
<1> DEFINE ProbeTypeOK == probe \in [Workers -> Probes \cup {None}]
<1>1. PathInit => ProbeTypeOK
  BY DEF PathInit
<1>2. ProbeTypeOK /\ [PathNext]_pathVars => ProbeTypeOK'
  BY DEF PathNext, pathVars, Ask, Validate, Conclude, CrashPath
<1>3. PathSpec => []ProbeTypeOK
  BY <1>1, <1>2, PTL DEF PathSpec
<1>4. TypeOK /\ ProbeTypeOK => PathTypeOK
  BY DEF PathTypeOK
<1> HIDE DEF ProbeTypeOK
<1> QED
  BY <1>3, <1>4, ImplementsGateway, GatewayTypeCorrect, PTL

\* What holds of every gateway holds of one that validations ask: they obtain
\* no execution that needs an approval and spend none.
THEOREM ValidationsAreHarmless ==
    PathSpec => [](ExecutionIsBound /\ OneExecutionPerApproval /\ DenialSpendsNothing)
BY ImplementsGateway, ExecutionsBound, OneExecution, DenialsSpendNothing, PTL

\* The attempts of validations are counted like those of clients: no window
\* holds more than the limit of its tool, and none is refused while it has room.
THEOREM ValidationsKeepTheQuota ==
    ASSUME OneThread PROVE PathSpec => []WindowBound /\ RefusalJustified
BY ImplementsGateway, QuotaBounds, QuotaJustified, PTL
-----------------------------------------------------------------------------
\* The safety chain gave this verdict at some instant until `until`.
ChainWas(r, verdict, until) == \E at \in 0..until : SafetyChain(r, at) = verdict

\* Where the call of a validation of r is in authorize, and what it has come
\* past: it never gets as far as the store.
OnItsWay(r, s, until) ==
    /\ s.pc \in {"limiting", "authorized", "denied", "raised"}
    /\ s.pc \in {"limiting", "authorized"} => s.req = r
    /\ s.pc = "limiting" => /\ r.tool_name \in Tools
                            /\ Catalog[r.tool_name].side_effect_class \notin DeniedInP0
    /\ s.pc = "denied" /\ s.why = "safety_chain" =>
          ~Excluded(r) /\ ChainWas(r, "safety_chain", until)
    /\ s.pc = "denied" /\ s.why = "approval" => ~Excluded(r) /\ NeedsApproval(r)
    /\ s.pc = "authorized" =>
          ~Excluded(r) /\ ~NeedsApproval(r)

ProbesAreOnTheirWay ==
    /\ probe \in [Workers -> Probes \cup {None}]
    /\ \A w \in Workers : probe[w] # None => OnItsWay(probe[w], session[w], now)

\* What Verdict says to a request to execute without an approval.
LEMMA ProbeVerdict ==
    ASSUME NEW r \in Probes, NEW at, r.tool_name \in Tools,
           Catalog[r.tool_name].side_effect_class \notin DeniedInP0
    PROVE  /\ Verdict(r, at) # "consume"
           /\ Verdict(r, at) = "safety_chain" =>
                 ~Excluded(r) /\ SafetyChain(r, at) = "safety_chain"
           /\ Verdict(r, at) = "approval" => ~Excluded(r) /\ NeedsApproval(r)
           /\ Verdict(r, at) = "allow" =>
                 ~Excluded(r) /\ ~NeedsApproval(r) /\ SafetyChain(r, at) = "ok"
<1> DEFINE chain == SafetyChain(r, at)
<1>1. chain \in {"safety_chain", "raise", "ok"}
  BY DEF SafetyChain
<1> HIDE DEF chain
<1>2. r.action = "execute" /\ ~PlanBound(r)
  BY ProbesAssumption DEF PlanBound
<1>3. Excluded(r) <=> \/ r.action \notin Catalog[r.tool_name].mode
                      \/ Catalog[r.tool_name].required_scope \notin r.granted_scopes
                      \/ ~OnAllowlist(r)
  BY DEF Excluded
<1>4. Verdict(r, at) =
         (IF r.action \notin Catalog[r.tool_name].mode THEN "mode"
          ELSE IF Catalog[r.tool_name].required_scope \notin r.granted_scopes THEN "scope"
          ELSE IF ~OnAllowlist(r) THEN "allowlist"
          ELSE IF chain # "ok" THEN chain
          ELSE IF ~Catalog[r.tool_name].approval_required THEN "allow"
          ELSE "approval")
  BY <1>2 DEF Verdict, chain
<1>5. NeedsApproval(r) <=> Catalog[r.tool_name].approval_required
  BY <1>2 DEF NeedsApproval
<1>6. Excluded(r) => Verdict(r, at) \in {"mode", "scope", "allowlist"}
  BY <1>3, <1>4
<1>7. ~Excluded(r) => Verdict(r, at) = (IF chain # "ok" THEN chain
                                        ELSE IF ~NeedsApproval(r) THEN "allow" ELSE "approval")
  BY <1>3, <1>4, <1>5
<1> HIDE DEF Excluded, NeedsApproval, Verdict
<1> QED
  BY <1>1, <1>6, <1>7 DEF chain

\* Time that passes takes nothing from it.
LEMMA StaysOnItsWay ==
    ASSUME NEW r, NEW s, NEW t \in Nat, NEW u \in Nat, t <= u, OnItsWay(r, s, t)
    PROVE  OnItsWay(r, s, u)
<1>1. 0..t \subseteq 0..u
  OBVIOUS
<1> QED
  BY <1>1, Zenon DEF OnItsWay, ChainWas

LEMMA ProbesAreOnTheirWayStep ==
    ASSUME SessionTypeOK, LimiterTypeOK, InstantsArePast, ProbesAreOnTheirWay,
           [PathNext]_pathVars
    PROVE  ProbesAreOnTheirWay'
<1>0. now \in Nat /\ now' \in Nat /\ now <= now'
  <2>1. now' = now \/ now' = now + 1
    BY PathStep, LimiterStep
    DEF LimiterNext, Enter, Read, Limit, Admit, Leave, Restart, LimiterTick, clockedVars
  <2>2. now \in Nat
    BY BoundsAssumption DEF LimiterTypeOK
  <2> QED
    BY <2>1, <2>2
<1>1. probe' \in [Workers -> Probes \cup {None}]
  BY DEF PathNext, pathVars, Ask, Validate, Conclude, CrashPath, ProbesAreOnTheirWay
<1> DEFINE Same(w) == probe'[w] = probe[w] /\ session'[w] = session[w]
           Fine(w) == probe'[w] # None => OnItsWay(probe'[w], session'[w], now')
<1>2. ASSUME \A w \in Workers : Same(w) \/ Fine(w) PROVE ProbesAreOnTheirWay'
  <2>1. ASSUME NEW w \in Workers, Same(w) PROVE Fine(w)
    BY <1>0, <2>1, StaysOnItsWay DEF ProbesAreOnTheirWay
  <2>2. (\A w \in Workers : Fine(w)) => ProbesAreOnTheirWay'
    BY <1>1 DEF ProbesAreOnTheirWay, OnItsWay, ChainWas, Excluded, NeedsApproval, OnAllowlist,
                SafetyChain, EnvelopeCovers, VerificationCovers
  <2> QED
    BY <1>2, <2>1, <2>2
<1>3. ASSUME NEW w \in Workers, Raise(w) \/ (\E why \in Reasons : Deny(w, why))
                                \/ (\E r \in Requests : Allow(w, r))
      PROVE  \A v \in Workers \ {w} : session'[v] = session[v]
  BY <1>3 DEF Raise, Deny, Allow, SessionTypeOK
<1>4. ASSUME NEW w \in Workers, NEW r \in Requests, Receive(w, r) PROVE
         /\ \A v \in Workers \ {w} : session'[v] = session[v]
         /\ probe[w] = None
         /\ r \in Probes => OnItsWay(r, session'[w], now')
  <2>1. probe[w] = None
    BY <1>4 DEF Receive, Waiting, ProbesAreOnTheirWay, OnItsWay
  <2>2. CASE Raise(w)
    BY <1>3, <2>1, <2>2 DEF Raise, SessionTypeOK, OnItsWay
  <2>3. CASE Deny(w, "P0")
    BY <1>3, <2>1, <2>3 DEF Deny, SessionTypeOK, OnItsWay, Reasons
  <2>4. CASE /\ r.tool_name \in Tools
             /\ Catalog[r.tool_name].side_effect_class \notin DeniedInP0
             /\ session' = [session EXCEPT ![w] = [pc |-> "limiting", req |-> r, at |-> now]]
    BY <2>1, <2>4 DEF SessionTypeOK, OnItsWay
  <2> QED
    BY <1>4, <2>2, <2>3, <2>4 DEF Receive
<1>5. ASSUME NEW w \in Workers, NEW r \in Requests, Ask(w, r) PROVE ProbesAreOnTheirWay'
  BY <1>2, <1>4, <1>5 DEF Ask
<1>6. ASSUME NEW w \in Workers, NEW r \in Probes, Validate(w, r) PROVE ProbesAreOnTheirWay'
  <2>1. r \in Requests
    BY ProbesAssumption
  <2>2. probe'[w] = r /\ \A v \in Workers \ {w} : probe'[v] = probe[v]
    BY <1>6 DEF Validate, ProbesAreOnTheirWay
  <2> QED
    BY <1>2, <1>4, <1>6, <2>1, <2>2 DEF Validate
<1>7. ASSUME NEW w \in Workers, Conclude(w) PROVE ProbesAreOnTheirWay'
  <2>1. probe'[w] = None /\ \A v \in Workers \ {w} : probe'[v] = probe[v] /\ session'[v] = session[v]
    BY <1>7 DEF Conclude, Finish, SessionTypeOK, ProbesAreOnTheirWay
  <2> QED
    BY <1>2, <2>1
<1>8. ASSUME NEW w \in Workers, Decide(w), UNCHANGED probe PROVE ProbesAreOnTheirWay'
  <2> DEFINE r == session[w].req  at == session[w].at
             verdict == IF check[w].pc = "limited" THEN "rate_limit" ELSE Verdict(r, at)
  <2>1. r \in Requests /\ at \in 0..now /\ session[w].pc = "limiting"
    BY <1>8, SessionTypes DEF Decide, InstantsArePast
  <2>2. probe[w] # None =>
           /\ r = probe[w] /\ r \in Probes
           /\ r.tool_name \in Tools /\ Catalog[r.tool_name].side_effect_class \notin DeniedInP0
    BY <2>1 DEF ProbesAreOnTheirWay, OnItsWay
  <2>3. probe[w] # None => verdict # "consume"
    BY <2>2, ProbeVerdict
  <2>4. CASE verdict \in Reasons /\ Deny(w, verdict)
    <3>1. session'[w] = [pc |-> "denied", why |-> verdict]
      BY <2>4 DEF Deny, SessionTypeOK
    <3>2. ASSUME probe[w] # None, verdict \in {"safety_chain", "approval"}
          PROVE  /\ verdict = Verdict(r, at) /\ ~Excluded(r)
                 /\ verdict = "safety_chain" => SafetyChain(r, at) = "safety_chain"
                 /\ verdict = "approval" => NeedsApproval(r)
      BY <2>2, <3>2, ProbeVerdict
    <3>3. at \in 0..now'
      BY <1>0, <2>1
    <3> HIDE DEF verdict
    <3>4. probe[w] # None => OnItsWay(r, session'[w], now')
      BY <3>1, <3>2, <3>3 DEF OnItsWay, ChainWas
    <3> QED
      BY <1>2, <1>3, <1>8, <2>2, <2>4, <3>4
  <2>5. CASE verdict = "raise" /\ Raise(w)
    <3>1. session'[w] = [pc |-> "raised"]
      BY <2>5 DEF Raise, SessionTypeOK
    <3> QED
      BY <1>2, <1>3, <1>8, <2>5, <3>1 DEF OnItsWay
  <2>6. CASE verdict = "allow" /\ Allow(w, r)
    <3>1. session'[w] = [pc |-> "authorized", req |-> r]
      BY <2>6 DEF Allow, SessionTypeOK
    <3>2. ASSUME probe[w] # None
          PROVE  ~Excluded(r) /\ ~NeedsApproval(r) /\ SafetyChain(r, at) = "ok"
      BY <2>2, <2>6, <3>2, ProbeVerdict
    <3>3. at \in 0..now'
      BY <1>0, <2>1
    <3>4. probe[w] # None => OnItsWay(r, session'[w], now')
      BY <3>1, <3>2, <3>3 DEF OnItsWay, ChainWas
    <3> QED
      BY <1>2, <1>3, <1>8, <2>1, <2>2, <2>6, <3>4
  <2>7. CASE verdict = "consume" /\ session' = [session EXCEPT ![w].pc = "consuming"]
    <3>1. \A v \in Workers \ {w} : session'[v] = session[v]
      BY <2>7 DEF SessionTypeOK
    <3> QED
      BY <1>2, <1>8, <2>3, <2>7, <3>1
  <2> QED
    BY <1>8, <2>4, <2>5, <2>6, <2>7 DEF Decide
<1>9. ASSUME NEW w \in Workers, Answer(w), UNCHANGED probe PROVE ProbesAreOnTheirWay'
  <2>1. session[w].pc = "consuming" /\ session[w].req \in Requests
    BY <1>9, SessionTypes DEF Answer
  <2>2. probe[w] = None
    BY <2>1 DEF ProbesAreOnTheirWay, OnItsWay
  <2>3. Raise(w) \/ Deny(w, "approval") \/ Allow(w, session[w].req)
    BY <1>9 DEF Answer
  <2> QED
    BY <1>2, <1>3, <1>9, <2>1, <2>2, <2>3 DEF Reasons
<1>10. ASSUME NEW p \in Procs, CrashPath(p) PROVE ProbesAreOnTheirWay'
  <2>1. \A w \in Workers : IF ProcOf[w] = p THEN probe'[w] = None ELSE Same(w)
    BY <1>10 DEF CrashPath, Crash
  <2> QED
    BY <1>2, <2>1
<1>11. CASE UNCHANGED <<session, probe>>
  BY <1>2, <1>11
<1> QED
  BY <1>5, <1>6, <1>7, <1>8, <1>9, <1>10, <1>11
  DEF PathNext, pathVars, vars, gatewayVars, Step, CountAttempt, Consume, Start, Environment, Tick

\* VALIDATED and GATE_BYPASSED are earned, by every request of every catalogue.
THEOREM ClassesAreEarned == PathSpec => []ClassIsEarned
<1>1. PathInit => ProbesAreOnTheirWay
  BY DEF PathInit, ProbesAreOnTheirWay
<1>2. PathSpec => []ProbesAreOnTheirWay
  BY <1>1, ProbesAreOnTheirWayStep, ImplementsGateway, SessionsTyped, InstantsArePastHolds,
     ImplementsLimiter, LimiterTypeCorrect, PTL DEF PathSpec
<1>3. ASSUME ProbesAreOnTheirWay PROVE ClassIsEarned
  <2> SUFFICES ASSUME NEW w \in Workers, probe[w] # None
               PROVE  LET r == probe[w] IN
                      /\ Reported(w, "VALIDATED") =>
                            /\ ~Excluded(r)
                            /\ NeedsApproval(r) \/ ChainWas(r, "safety_chain", now)
                      /\ Reported(w, "GATE_BYPASSED") => ~Excluded(r) /\ ~NeedsApproval(r)
    BY DEF ClassIsEarned, Reported, ChainWas
  <2>1. OnItsWay(probe[w], session[w], now)
    BY <1>3 DEF ProbesAreOnTheirWay
  <2>2. Reported(w, "VALIDATED") =>
           session[w].pc = "denied" /\ session[w].why \in {"safety_chain", "approval"}
    BY DEF Reported, Decision, Answered
  <2>3. Reported(w, "GATE_BYPASSED") => session[w].pc = "authorized"
    BY DEF Reported, Decision, Answered
  <2> QED
    BY <2>1, <2>2, <2>3 DEF OnItsWay
<1> QED
  BY <1>2, <1>3, PTL
==============================================================================
