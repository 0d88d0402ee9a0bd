----------------------------- MODULE ClusterGraph -----------------------------
(***************************************************************************)
(* graph/: build_graph, which reads a list of manifests one after another, *)
(* and the analyses of what it has built (escalation.py, blast_radius.py,  *)
(* exposure.py).                                                           *)
(*                                                                         *)
(* Every list of manifests is an input, so every prefix of a build is the  *)
(* end of another one, and the analyses are asked about in every state.    *)
(* The lists the code keeps are sets here: nothing looks at their order,   *)
(* and a finding that it reports twice is one finding.                     *)
(***************************************************************************)
EXTENDS Naturals, Sequences, FiniteSets

CONSTANTS
    Manifests,    \* the manifests a build may meet
    Allowlist,    \* the <<namespace, name>> of the scenario's allowed targets
    None,         \* Python's None, and a manifest's missing field
    MaxManifests  \* bound on the manifests of a build

RoleKinds == {"Role", "ClusterRole"}
BindingKinds == {"RoleBinding", "ClusterRoleBinding"}
ClusterKinds == {"ClusterRole", "ClusterRoleBinding"}

OfKind(kinds) == {m \in Manifests : m.kind \in kinds}
Names == {m.name : m \in Manifests} \cup UNION {m.backends : m \in OfKind({"Ingress"})}
Namespaces == {m.namespace : m \in Manifests}
Subjects == UNION {m.subjects : m \in OfKind(BindingKinds)}
Rules == UNION {m.rules : m \in OfKind(RoleKinds)}

ASSUME ManifestsAssumption ==
    /\ IsFiniteSet(Manifests)
    /\ \A m \in Manifests : {"kind", "name", "namespace"} \subseteq DOMAIN m
    /\ \A r \in Rules : {"resources", "verbs"} \subseteq DOMAIN r
    /\ \A s \in Subjects : {"kind", "name", "namespace"} \subseteq DOMAIN s
    /\ \A m \in OfKind(BindingKinds) : IsFiniteSet(m.subjects)
ASSUME MaxManifestsAssumption == MaxManifests \in Nat

VARIABLES
    graph,    \* the ClusterGraph
    status,   \* "building", or "invalid" once InvalidManifest was raised
    read      \* the manifests read, in their order (history)

vars == <<graph, status, read>>

RoleKeys == ({"Role"} \X Names \X (Namespaces \ {None})) \cup ({"ClusterRole"} \X Names \X {None})
Bindings == [kind : {"RoleBinding"}, namespace : Namespaces \ {None}, name : Names,
             role_ref : {m.role_ref : m \in OfKind(BindingKinds)}, subjects : SUBSET Subjects]
            \cup
            [kind : {"ClusterRoleBinding"}, namespace : {None}, name : Names,
             role_ref : {m.role_ref : m \in OfKind(BindingKinds)}, subjects : SUBSET Subjects]

TypeOK ==
    /\ status \in {"building", "invalid"}
    /\ DOMAIN graph.roles \subseteq RoleKeys
    /\ \A key \in DOMAIN graph.roles : graph.roles[key] \subseteq Rules
    /\ graph.role_bindings \subseteq Bindings
    /\ DOMAIN graph.services \subseteq (Namespaces \ {None}) \X Names
    /\ \A key \in DOMAIN graph.services :
          graph.services[key] \in {m.type : m \in OfKind({"Service"})}
    /\ graph.ingresses \subseteq (Namespaces \ {None}) \X Names
    /\ graph.network_policies \subseteq
          [namespace : Namespaces \ {None}, name : Names, is_default_deny : BOOLEAN]
    /\ read \in Seq(Manifests)

Init ==
    /\ graph = [roles |-> <<>>, role_bindings |-> {}, services |-> <<>>,
                ingresses |-> {}, network_policies |-> {}]
    /\ status = "building"
    /\ read = <<>>

\* A dictionary with one more or one replaced entry.
Put(dict, key, value) ==
    [k \in DOMAIN dict \cup {key} |-> IF k = key THEN value ELSE dict[k]]

\* _metadata, and roleRef of a binding
Valid(m) ==
    /\ m.name # None
    /\ m.kind \notin ClusterKinds => m.namespace # None
    /\ m.kind \in BindingKinds => m.role_ref # None
\* Faulty: metadata.namespace is taken as it stands.
Scope_AsWritten(m) == m.namespace
\* A cluster-wide object has no namespace, whatever its metadata says.
Scope(m) == IF m.kind \in ClusterKinds THEN None ELSE m.namespace
-----------------------------------------------------------------------------
\* The step of build_graph's loop that handles m.
Handle(m, handled) ==
    /\ status = "building" /\ Len(read) < MaxManifests
    /\ Valid(m)
    /\ graph' = handled
    /\ read' = Append(read, m)
    /\ UNCHANGED status

AddRole(m) ==
    /\ m.kind \in RoleKinds
    /\ Handle(m, [graph EXCEPT !.roles = Put(@, <<m.kind, m.name, Scope(m)>>, m.rules)])

\* Faulty: the bindings are kept by name.
AddRoleBinding_ByName(m) ==
    /\ m.kind \in BindingKinds
    /\ Handle(m, [graph EXCEPT !.role_bindings =
                     {rb \in @ : rb.name # m.name} \cup
                     {[kind |-> m.kind, namespace |-> Scope(m), name |-> m.name,
                       role_ref |-> m.role_ref, subjects |-> m.subjects]}])

AddRoleBinding(m) ==
    /\ m.kind \in BindingKinds
    /\ Handle(m, [graph EXCEPT !.role_bindings = @ \cup
                     {[kind |-> m.kind, namespace |-> Scope(m), name |-> m.name,
                       role_ref |-> m.role_ref, subjects |-> m.subjects]}])

AddService(m) ==
    /\ m.kind = "Service"
    /\ Handle(m, [graph EXCEPT !.services = Put(@, <<m.namespace, m.name>>, m.type)])

\* One IngressDef per backend of the manifest's paths.
AddIngress(m) ==
    /\ m.kind = "Ingress"
    /\ Handle(m, [graph EXCEPT !.ingresses = @ \cup ({m.namespace} \X m.backends)])

AddNetworkPolicy(m) ==
    /\ m.kind = "NetworkPolicy"
    /\ Handle(m, [graph EXCEPT !.network_policies = @ \cup
                     {[namespace |-> m.namespace, name |-> m.name,
                       is_default_deny |-> \E way \in {"Ingress", "Egress"} \cap m.policy_types :
                                             way \notin m.allows]}])

Handled == RoleKinds \cup BindingKinds \cup {"Service", "Ingress", "NetworkPolicy"}

\* Other kinds have no handler.
Skip(m) ==
    /\ status = "building" /\ Len(read) < MaxManifests
    /\ m.kind \notin Handled
    /\ read' = Append(read, m)
    /\ UNCHANGED <<graph, status>>

\* InvalidManifest: the caller gets no graph.
Raise(m) ==
    /\ status = "building" /\ Len(read) < MaxManifests
    /\ m.kind \in Handled /\ ~Valid(m)
    /\ status' = "invalid"
    /\ UNCHANGED <<graph, read>>

Next == \E m \in Manifests :
    \/ AddRole(m) \/ AddRoleBinding(m) \/ AddService(m) \/ AddIngress(m)
    \/ AddNetworkPolicy(m) \/ Skip(m) \/ Raise(m)

Spec == Init /\ [][Next]_vars
-----------------------------------------------------------------------------
(* escalation.py *)

\* Faulty: a role is always looked up in the namespace of its binding.
EffectiveRules_OneNamespace(g, subject) ==
    UNION {g.roles[key] : key \in {k \in DOMAIN g.roles : \E rb \in g.role_bindings :
        subject \in rb.subjects /\ k = <<rb.role_ref.kind, rb.role_ref.name, rb.namespace>>}}

EffectiveRules(g, subject) ==
    UNION {g.roles[key] : key \in {k \in DOMAIN g.roles : \E rb \in g.role_bindings :
        /\ subject \in rb.subjects
        /\ k = <<rb.role_ref.kind, rb.role_ref.name,
                 IF rb.role_ref.kind = "Role" THEN rb.namespace ELSE None>>}}

Wildcard == [reason |-> "wildcard", resources |-> {"*"}, verbs |-> {"*"}]
Patterns == {Wildcard,
    [reason |-> "rbac", resources |-> {"roles", "clusterroles", "rolebindings", "clusterrolebindings"},
     verbs |-> {"bind", "escalate", "impersonate", "*"}],
    [reason |-> "exec", resources |-> {"pods/exec", "pods/attach"}, verbs |-> {"create", "*"}],
    [reason |-> "secrets", resources |-> {"secrets"}, verbs |-> {"get", "list", "watch", "*"}]}

RuleMatches(rule, p) ==
    /\ "*" \in rule.resources \/ rule.resources \cap p.resources # {}
    /\ "*" \in rule.verbs \/ rule.verbs \cap p.verbs # {}

Label(subject) == <<subject.namespace, subject.name>>

Bound(g) == UNION {rb.subjects : rb \in g.role_bindings}

\* EscalationFinding
Finding(s, rule, p, severity) ==
    [subject |-> Label(s), kind |-> s.kind, rule |-> rule, reason |-> p.reason,
     severity |-> severity]

\* find_privilege_escalations: the wildcard comes first and ends the search.
Escalations(g) ==
    {Finding(f[1], f[2], f[3], IF f[3] = Wildcard THEN "critical" ELSE "high") :
     f \in {t \in Bound(g) \X Rules \X Patterns :
            /\ t[2] \in EffectiveRules(g, t[1])
            /\ RuleMatches(t[2], t[3])
            /\ t[3] = Wildcard \/ ~RuleMatches(t[2], Wildcard)}}
-----------------------------------------------------------------------------
(* blast_radius.py *)

\* Faulty: any namespace's policy will do.
NamespaceHasDefaultDeny_Anywhere(g, namespace) ==
    \E np \in g.network_policies : np.is_default_deny
NamespaceHasDefaultDeny(g, namespace) ==
    \E np \in g.network_policies : np.namespace = namespace /\ np.is_default_deny

AffectedServices(g, namespace, name) ==
    IF NamespaceHasDefaultDeny(g, namespace) THEN {}
    ELSE {key \in DOMAIN g.services : key[1] = namespace /\ key[2] # name}

\* Faulty: a subject is told from the compromised one by its label.
AffectedSubjects_ByLabel(g, subject) ==
    LET bound == {rb.role_ref : rb \in {b \in g.role_bindings : subject \in b.subjects}}
    IN UNION {{Label(s) : s \in {t \in rb.subjects : Label(t) # Label(subject)}} :
              rb \in {b \in g.role_bindings : b.role_ref \in bound}}

AffectedSubjects(g, subject) ==
    LET bound == {rb.role_ref : rb \in {b \in g.role_bindings : subject \in b.subjects}}
    IN UNION {{Label(s) : s \in rb.subjects \ {subject}} :
              rb \in {b \in g.role_bindings : b.role_ref \in bound}}

\* assess_blast_radius
Recommendation(g, namespace, name, subject) ==
    LET affected == Cardinality(AffectedServices(g, namespace, name))
                    + Cardinality(AffectedSubjects(g, subject))
    IN IF affected = 0 THEN "GO" ELSE IF affected <= 2 THEN "NARROW" ELSE "STOP"
-----------------------------------------------------------------------------
(* exposure.py *)

\* _EXTERNALLY_REACHABLE_SERVICE_TYPES, and what they are called in a finding
ExternalTypes == {"NodePort", "LoadBalancer"}
Lower(type) == IF type = "NodePort" THEN "nodeport" ELSE "loadbalancer"

\* Faulty: an Ingress is matched by the name of its backend alone.
ExposureType_AnyNamespace(g, key) ==
    IF \E ing \in g.ingresses : ing[2] = key[2] THEN "ingress"
    ELSE IF g.services[key] \in ExternalTypes THEN Lower(g.services[key]) ELSE "internal"
ExposureType(g, key) ==
    IF key \in g.ingresses THEN "ingress"
    ELSE IF g.services[key] \in ExternalTypes THEN Lower(g.services[key]) ELSE "internal"

DiscoverExposure(g) ==
    {[service |-> key, exposure_type |-> ExposureType(g, key),
      severity |-> IF ExposureType(g, key) # "internal" /\ key \notin Allowlist
                     THEN "high" ELSE "low"] : key \in DOMAIN g.services}
-----------------------------------------------------------------------------
(* What the manifests say, without the graph *)

SameObject(a, b) == a.kind = b.kind /\ a.name = b.name
                    /\ (a.kind \notin ClusterKinds => a.namespace = b.namespace)
\* The manifests of `kinds` that no later one of the same object replaces.
InForce(kinds) ==
    {read[i] : i \in {j \in DOMAIN read : read[j].kind \in kinds /\
        ~\E later \in DOMAIN read : later > j /\ SameObject(read[later], read[j])}}
Said(kinds) == {read[i] : i \in {j \in DOMAIN read : read[j].kind \in kinds}}

\* A binding grants a role of its own namespace, or a role of the cluster.
Grants(b, role) ==
    /\ b.role_ref.kind = role.kind /\ b.role_ref.name = role.name
    /\ role.kind = "Role" => b.kind = "RoleBinding" /\ b.namespace = role.namespace
Holds(s, rule) ==
    \E b \in Said(BindingKinds), role \in InForce(RoleKinds) :
        s \in b.subjects /\ Grants(b, role) /\ rule \in role.rules
\* Two bindings are of the same role.
SharesRole(s, t) ==
    \E b, c \in Said(BindingKinds) :
        /\ s \in b.subjects /\ t \in c.subjects /\ b.role_ref = c.role_ref
        /\ b.role_ref.kind = "Role" => b.kind = "RoleBinding" /\ c.kind = "RoleBinding"
                                        /\ b.namespace = c.namespace
Allows(rule, verb, resource) ==
    (verb \in rule.verbs \/ "*" \in rule.verbs) /\ (resource \in rule.resources \/ "*" \in rule.resources)
\* Can a holder of the rule do one of the pattern's dangerous operations?
Can(rule, p) == \E verb \in p.verbs \ {"*"}, resource \in p.resources : Allows(rule, verb, resource)
Total(rule) == "*" \in rule.verbs /\ "*" \in rule.resources
-----------------------------------------------------------------------------
\* A subject is reported for a rule exactly if the manifests, in any order,
\* with objects redefined and bindings that point nowhere, give it the rule
\* and the rule lets it do something dangerous; and a rule that lets it do
\* everything is reported once, as critical, and not again per pattern.  (A
\* rule is taken without its reach, as effective_rules hands it out; that the
\* grade is then wrong of some is what CriticalIsClusterWide is about.)
EscalationsExact ==
    Escalations(graph) =
      {Finding(f[1], f[2], f[3], IF Total(f[2]) THEN "critical" ELSE "high") :
       f \in {t \in Subjects \X Rules \X Patterns :
            /\ Holds(t[1], t[2])
            /\ IF Total(t[2]) THEN t[3] = Wildcard ELSE t[3] # Wildcard /\ Can(t[2], t[3])}}

\* What the text says and the code does not do.  effective_rules keeps apart a
\* RoleBinding, which grants a ClusterRole within its own namespace, and a
\* ClusterRoleBinding: a subject graded critical, "equivalente a cluster-admin",
\* holds its rule in the whole cluster.
CriticalIsClusterWide ==
    \A f \in Escalations(graph) : f.severity = "critical" =>
        \E b \in Said({"ClusterRoleBinding"}), role \in InForce({"ClusterRole"}) :
            /\ \E s \in b.subjects : Label(s) = f.subject /\ s.kind = f.kind
            /\ Grants(b, role) /\ f.rule \in role.rules

\* Nobody who shares a role with the compromised subject is left out of its
\* blast radius, whatever names users, groups, bindings and roles of other
\* namespaces have in common.
NobodyForgotten ==
    \A s, t \in Subjects :
        s # t /\ SharesRole(s, t) => Label(t) \in AffectedSubjects(graph, s)

\* "GO" is given only if nobody shares a role with the subject and no other
\* service of the namespace can be reached, because there is none or because
\* a policy of this namespace denies a whole direction of traffic.
GoIsSafe ==
    \A s \in Subjects, target \in DOMAIN graph.services :
        Recommendation(graph, target[1], target[2], s) = "GO" =>
            /\ ~\E t \in Subjects : s # t /\ SharesRole(s, t)
            /\ \/ ~\E m \in Said({"Service"}) : m.namespace = target[1] /\ m.name # target[2]
               \/ \E m \in Said({"NetworkPolicy"}) :
                     m.namespace = target[1] /\ ~(m.policy_types \subseteq m.allows)

\* Each service is reported once, as its last manifest has it, as reachable
\* from outside if and only if its type or an Ingress of its own namespace
\* makes it so, and as grave if it is so and not an allowed target.
ExposureExact ==
    LET services == InForce({"Service"})
        Routed(m) == \E i \in Said({"Ingress"}) : i.namespace = m.namespace /\ m.name \in i.backends
        Outside(m) == Routed(m) \/ m.type \in ExternalTypes
        findings == DiscoverExposure(graph)
        For(m) == {f \in findings : f.service = <<m.namespace, m.name>>}
    IN /\ Cardinality(findings) = Cardinality(services)
       /\ \A m \in services : \E f \in For(m) :
             /\ (f.exposure_type = "internal") = ~Outside(m)
             /\ (f.exposure_type = "ingress") = Routed(m)
             /\ (f.severity = "high") = (Outside(m) /\ <<m.namespace, m.name>> \notin Allowlist)

\* Reading one more manifest never hides anything: a finding goes away only
\* with the redefinition of a role, and a recommendation gets milder only
\* with a network policy.
MoreNeverHides ==
    [][read' # read =>
         LET m == read'[Len(read')]
             Rank == [GO |-> 0, NARROW |-> 1, STOP |-> 2]
         IN /\ (m.kind \in RoleKinds /\ \E i \in DOMAIN read :
                   SameObject(read[i], m))
               \/ Escalations(graph) \subseteq Escalations(graph)'
            /\ m.kind = "NetworkPolicy" \/
               \A s \in Subjects, target \in DOMAIN graph.services :
                  Rank[Recommendation(graph, target[1], target[2], s)]
                    <= Rank[Recommendation(graph', target[1], target[2], s)]]_vars
==============================================================================
