-------------------------- MODULE ClusterGraphProofs --------------------------
(***************************************************************************)
(* For every finite set of manifests, read in any order and however often: *)
(* the graph mirrors what the manifests in force say, and so what the      *)
(* analyses find in the graph is what the manifests say: every escalation  *)
(* and every exposure, and no GO where something is within reach.          *)
(***************************************************************************)
EXTENDS ClusterGraph, FiniteSetTheorems, FunctionTheorems, SequenceTheorems, TLAPS

\* How build_graph keeps a manifest of each kind.
RoleKey(m) == <<m.kind, m.name, Scope(m)>>
ServiceKey(m) == <<m.namespace, m.name>>
Binding(m) == [kind |-> m.kind, namespace |-> Scope(m), name |-> m.name,
               role_ref |-> m.role_ref, subjects |-> m.subjects]
Policy(m) == [namespace |-> m.namespace, name |-> m.name,
              is_default_deny |-> \E way \in {"Ingress", "Egress"} \cap m.policy_types :
                                    way \notin m.allows]

ReadIsValid ==
    /\ read \in Seq(Manifests)
    /\ \A i \in DOMAIN read : read[i].kind \in Handled => Valid(read[i])

\* The roles are those of the manifests in force, under their keys ...
RolesMirror ==
    /\ \A key \in DOMAIN graph.roles : \E m \in InForce(RoleKinds) : RoleKey(m) = key
    /\ \A m \in InForce(RoleKinds) :
          RoleKey(m) \in DOMAIN graph.roles /\ graph.roles[RoleKey(m)] = m.rules

\* ... and so are the services; a service is never forgotten, and they are
\* finitely many.
ServicesMirror ==
    /\ \A key \in DOMAIN graph.services : \E m \in InForce({"Service"}) : ServiceKey(m) = key
    /\ \A m \in InForce({"Service"}) :
          ServiceKey(m) \in DOMAIN graph.services /\ graph.services[ServiceKey(m)] = m.type
    /\ \A m \in Said({"Service"}) : ServiceKey(m) \in DOMAIN graph.services
    /\ IsFiniteSet(DOMAIN graph.services)

\* What is kept in lists is what was ever said.
ListsMirror ==
    /\ \A rb : rb \in graph.role_bindings <=> \E m \in Said(BindingKinds) : rb = Binding(m)
    /\ \A key : key \in graph.ingresses <=>
                   \E m \in Said({"Ingress"}) : key \in {m.namespace} \X m.backends
    /\ \A np : np \in graph.network_policies <=> \E m \in Said({"NetworkPolicy"}) : np = Policy(m)
    /\ IsFiniteSet(Bound(graph))

GraphIsRecord ==
    graph = [roles |-> graph.roles, role_bindings |-> graph.role_bindings,
             services |-> graph.services, ingresses |-> graph.ingresses,
             network_policies |-> graph.network_policies]

Mirrors ==
    /\ status \in {"building", "invalid"} /\ GraphIsRecord
    /\ ReadIsValid /\ RolesMirror /\ ServicesMirror /\ ListsMirror
-----------------------------------------------------------------------------
(* What was read, and what of it is in force *)

LEMMA ReadTypes ==
    ASSUME ReadIsValid
    PROVE  /\ Len(read) \in Nat /\ DOMAIN read = 1..Len(read)
           /\ \A i \in DOMAIN read : read[i] \in Manifests
BY LenProperties, ElementOfSeq DEF ReadIsValid

\* A manifest that was said has been read and is valid.
LEMMA SaidIsValid ==
    ASSUME ReadIsValid, NEW kinds \in SUBSET Handled, NEW m \in Said(kinds)
    PROVE  m \in Manifests /\ m.kind \in kinds /\ Valid(m)
BY ReadTypes DEF Said, ReadIsValid

LEMMA InForceIsSaid ==
    ASSUME NEW kinds
    PROVE  InForce(kinds) \subseteq Said(kinds)
BY DEF InForce, Said

\* Of one object, one manifest is in force.
LEMMA InForceIsOne ==
    ASSUME ReadIsValid, NEW kinds, NEW a \in InForce(kinds), NEW b \in InForce(kinds),
           SameObject(a, b)
    PROVE  a = b
<1>1. PICK i \in DOMAIN read :
         a = read[i] /\ ~\E later \in DOMAIN read : later > i /\ SameObject(read[later], read[i])
  BY DEF InForce
<1>2. PICK j \in DOMAIN read :
         b = read[j] /\ ~\E later \in DOMAIN read : later > j /\ SameObject(read[later], read[j])
  BY DEF InForce
<1>3. ~(i < j) /\ ~(j < i)
  BY <1>1, <1>2, ReadTypes DEF SameObject
<1>4. i \in Nat /\ j \in Nat
  BY ReadTypes
<1> QED
  BY <1>1, <1>2, <1>3, <1>4

\* One more manifest was read.
Reads(m) == read' = Append(read, m)

LEMMA ReadGrows ==
    ASSUME ReadIsValid, NEW m \in Manifests, Reads(m)
    PROVE  /\ read' \in Seq(Manifests) /\ Len(read') = Len(read) + 1
           /\ DOMAIN read' = 1..(Len(read) + 1)
           /\ \A i \in DOMAIN read : read'[i] = read[i]
           /\ read'[Len(read) + 1] = m
<1>1. read \in Seq(Manifests)
  BY DEF ReadIsValid
<1>2. /\ Append(read, m) \in Seq(Manifests) /\ Len(Append(read, m)) = Len(read) + 1
      /\ \A i \in 1..Len(read) : Append(read, m)[i] = read[i]
      /\ Append(read, m)[Len(read) + 1] = m
  BY <1>1, AppendProperties
<1>3. DOMAIN Append(read, m) = 1..(Len(read) + 1)
  BY <1>2, LenProperties
<1> QED
  BY <1>2, <1>3, ReadTypes DEF Reads

LEMMA SaidGrows ==
    ASSUME ReadIsValid, NEW m \in Manifests, Reads(m), NEW kinds
    PROVE  Said(kinds)' = Said(kinds) \cup (IF m.kind \in kinds THEN {m} ELSE {})
<1> DEFINE n == Len(read)
<1>1. n \in Nat /\ DOMAIN read = 1..n /\ DOMAIN read' = 1..(n + 1)
  BY ReadTypes, ReadGrows
<1>2. (\A i \in 1..n : read'[i] = read[i]) /\ read'[n + 1] = m
  BY <1>1, ReadGrows
<1>3. 1..(n + 1) = 1..n \cup {n + 1}
  BY <1>1
<1> HIDE DEF n
<1> QED
  BY <1>1, <1>2, <1>3 DEF Said

\* It takes the place of the manifest of its object.
LEMMA InForceChanges ==
    ASSUME ReadIsValid, NEW m \in Manifests, Reads(m), NEW kinds
    PROVE  InForce(kinds)' = {x \in InForce(kinds) : ~SameObject(m, x)}
                             \cup (IF m.kind \in kinds THEN {m} ELSE {})
<1> DEFINE n == Len(read)
           Last(i) == ~\E later \in DOMAIN read : later > i /\ SameObject(read[later], read[i])
           LastNow(i) == ~\E later \in DOMAIN read' : later > i /\ SameObject(read'[later], read'[i])
<1>1. n \in Nat /\ DOMAIN read = 1..n /\ DOMAIN read' = 1..(n + 1)
  BY ReadTypes, ReadGrows
<1>2. (\A i \in 1..n : read'[i] = read[i]) /\ read'[n + 1] = m
  BY <1>1, ReadGrows
<1>3. 1..(n + 1) = 1..n \cup {n + 1} /\ \A i \in 1..n : i < n + 1 /\ ~(n + 1 < i)
  BY <1>1
<1>4. InForce(kinds) = {read[i] : i \in {j \in 1..n : read[j].kind \in kinds /\ Last(j)}}
  BY <1>1 DEF InForce
<1>5. InForce(kinds)' = {read'[i] : i \in {j \in 1..(n + 1) : read'[j].kind \in kinds /\ LastNow(j)}}
  BY <1>1 DEF InForce, SameObject
<1>6. LastNow(n + 1)
  BY <1>1
<1>7. \A i \in 1..n : LastNow(i) <=> Last(i) /\ ~SameObject(m, read[i])
  BY <1>1, <1>2, <1>3
<1> HIDE DEF n, Last, LastNow
<1> QED
  BY <1>2, <1>3, <1>4, <1>5, <1>6, <1>7

\* Nothing changes for the kinds it is not of.
LEMMA OtherKinds ==
    ASSUME ReadIsValid, NEW m \in Manifests, Reads(m), NEW kinds, m.kind \notin kinds
    PROVE  Said(kinds)' = Said(kinds) /\ InForce(kinds)' = InForce(kinds)
<1>1. \A x \in InForce(kinds) : ~SameObject(m, x)
  BY DEF InForce, SameObject
<1> QED
  BY <1>1, SaidGrows, InForceChanges

\* Objects are told apart by their keys.
LEMMA RolesByKey ==
    ASSUME NEW a, NEW b, a.kind \in RoleKinds, b.kind \in RoleKinds
    PROVE  SameObject(a, b) <=> RoleKey(a) = RoleKey(b)
BY DEF SameObject, RoleKey, Scope, RoleKinds, ClusterKinds

LEMMA ServicesByKey ==
    ASSUME NEW a, NEW b, a.kind = "Service", b.kind = "Service"
    PROVE  SameObject(a, b) <=> ServiceKey(a) = ServiceKey(b)
BY DEF SameObject, ServiceKey, ClusterKinds
-----------------------------------------------------------------------------
(* What build_graph does with a manifest *)

LEMMA RolesStay ==
    ASSUME ReadIsValid, RolesMirror, NEW m \in Manifests, Reads(m), m.kind \notin RoleKinds,
           graph'.roles = graph.roles
    PROVE  RolesMirror'
<1>1. InForce(RoleKinds)' = InForce(RoleKinds)
  BY OtherKinds
<1> QED
  BY <1>1 DEF RolesMirror, RoleKey, Scope

LEMMA ServicesStay ==
    ASSUME ReadIsValid, ServicesMirror, NEW m \in Manifests, Reads(m), m.kind # "Service",
           graph'.services = graph.services
    PROVE  ServicesMirror'
<1>1. InForce({"Service"})' = InForce({"Service"}) /\ Said({"Service"})' = Said({"Service"})
  BY OtherKinds
<1> QED
  BY <1>1 DEF ServicesMirror, ServiceKey

LEMMA ListsStay ==
    ASSUME ReadIsValid, ListsMirror, NEW m \in Manifests, Reads(m),
           m.kind \notin BindingKinds \cup {"Ingress", "NetworkPolicy"},
           graph'.role_bindings = graph.role_bindings, graph'.ingresses = graph.ingresses,
           graph'.network_policies = graph.network_policies
    PROVE  ListsMirror'
<1>1. /\ Said(BindingKinds)' = Said(BindingKinds)
      /\ Said({"Ingress"})' = Said({"Ingress"})
      /\ Said({"NetworkPolicy"})' = Said({"NetworkPolicy"})
  BY OtherKinds
<1>2. Bound(graph)' = Bound(graph)
  BY DEF Bound
<1> QED
  BY <1>1, <1>2 DEF ListsMirror, Binding, Policy, Scope

\* A manifest that is handled is valid, and is the next one read.
LEMMA HandleReads ==
    ASSUME Mirrors, NEW m \in Manifests, NEW handled, Handle(m, handled)
    PROVE  /\ Reads(m) /\ Valid(m) /\ graph' = handled /\ status' = status
           /\ ReadIsValid'
<1>1. Reads(m) /\ Valid(m)
  BY DEF Handle, Reads
<1>2. ReadIsValid'
  BY <1>1, ReadGrows DEF Mirrors, ReadIsValid, Valid
<1> QED
  BY <1>1, <1>2 DEF Handle

LEMMA AddRoleMirrors ==
    ASSUME Mirrors, NEW m \in Manifests, AddRole(m)
    PROVE  Mirrors'
<1> DEFINE key == RoleKey(m)
           roles == Put(graph.roles, key, m.rules)
<1>1. m.kind \in RoleKinds /\ Handle(m, [graph EXCEPT !.roles = roles])
  BY DEF AddRole, RoleKey
<1>2. /\ Reads(m) /\ Valid(m) /\ graph' = [graph EXCEPT !.roles = roles]
      /\ status' = status /\ ReadIsValid' /\ ReadIsValid
  BY <1>1, HandleReads DEF Mirrors
<1> HIDE DEF roles
<1>3. /\ GraphIsRecord' /\ graph'.roles = roles
      /\ graph'.role_bindings = graph.role_bindings /\ graph'.services = graph.services
      /\ graph'.ingresses = graph.ingresses /\ graph'.network_policies = graph.network_policies
  BY <1>2 DEF Mirrors, GraphIsRecord
<1>4. m.kind \notin BindingKinds \cup {"Service", "Ingress", "NetworkPolicy"}
  BY <1>1 DEF RoleKinds, BindingKinds
<1>5. ServicesMirror' /\ ListsMirror'
  BY <1>2, <1>3, <1>4, ServicesStay, ListsStay DEF Mirrors
<1>6. InForce(RoleKinds)' = {x \in InForce(RoleKinds) : ~SameObject(m, x)} \cup {m}
  BY <1>1, <1>2, InForceChanges
<1>7. \A x \in InForce(RoleKinds) : SameObject(m, x) <=> RoleKey(x) = key
  <2>1. \A x \in InForce(RoleKinds) : x.kind \in RoleKinds
    BY DEF InForce
  <2> QED
    BY <1>1, <2>1, RolesByKey
<1>8. /\ DOMAIN roles = DOMAIN graph.roles \cup {key} /\ roles[key] = m.rules
      /\ \A k \in DOMAIN graph.roles : k # key => roles[k] = graph.roles[k]
  BY DEF roles, Put
<1>9. RolesMirror
  BY DEF Mirrors
<1>10. \A k \in DOMAIN roles : \E x \in InForce(RoleKinds)' : RoleKey(x) = k
  BY <1>6, <1>7, <1>8, <1>9 DEF RolesMirror
<1>11. \A x \in InForce(RoleKinds)' : RoleKey(x) \in DOMAIN roles /\ roles[RoleKey(x)] = x.rules
  <2> HIDE DEF key
  <2>1. m \in InForce(RoleKinds)' /\ RoleKey(m) = key
    BY <1>6 DEF key
  <2>2. \A x \in InForce(RoleKinds)' : x # m =>
           x \in InForce(RoleKinds) /\ RoleKey(x) # key
    BY <1>6, <1>7
  <2> QED
    BY <1>8, <1>9, <2>1, <2>2 DEF RolesMirror
<1>12. RolesMirror'
  BY <1>3, <1>10, <1>11 DEF RolesMirror, RoleKey, Scope
<1> QED
  BY <1>2, <1>3, <1>5, <1>12 DEF Mirrors

LEMMA AddServiceMirrors ==
    ASSUME Mirrors, NEW m \in Manifests, AddService(m)
    PROVE  Mirrors'
<1> DEFINE key == ServiceKey(m)
           services == Put(graph.services, key, m.type)
<1>1. m.kind = "Service" /\ Handle(m, [graph EXCEPT !.services = services])
  BY DEF AddService, ServiceKey
<1>2. /\ Reads(m) /\ Valid(m) /\ graph' = [graph EXCEPT !.services = services]
      /\ status' = status /\ ReadIsValid' /\ ReadIsValid
  BY <1>1, HandleReads DEF Mirrors
<1> HIDE DEF services
<1>3. /\ GraphIsRecord' /\ graph'.services = services
      /\ graph'.role_bindings = graph.role_bindings /\ graph'.roles = graph.roles
      /\ graph'.ingresses = graph.ingresses /\ graph'.network_policies = graph.network_policies
  BY <1>2 DEF Mirrors, GraphIsRecord
<1>4. m.kind \notin RoleKinds \cup BindingKinds \cup {"Ingress", "NetworkPolicy"}
  BY <1>1 DEF RoleKinds, BindingKinds
<1>5. RolesMirror' /\ ListsMirror'
  BY <1>2, <1>3, <1>4, RolesStay, ListsStay DEF Mirrors
<1>6. /\ InForce({"Service"})' = {x \in InForce({"Service"}) : ~SameObject(m, x)} \cup {m}
      /\ Said({"Service"})' = Said({"Service"}) \cup {m}
  BY <1>1, <1>2, InForceChanges, SaidGrows
<1>7. \A x \in InForce({"Service"}) : SameObject(m, x) <=> ServiceKey(x) = key
  <2>1. \A x \in InForce({"Service"}) : x.kind = "Service"
    BY DEF InForce
  <2> QED
    BY <1>1, <2>1, ServicesByKey
<1>8. /\ DOMAIN services = DOMAIN graph.services \cup {key} /\ services[key] = m.type
      /\ \A k \in DOMAIN graph.services : k # key => services[k] = graph.services[k]
  BY DEF services, Put
<1>9. ServicesMirror
  BY DEF Mirrors
<1>10. \A k \in DOMAIN services : \E x \in InForce({"Service"})' : ServiceKey(x) = k
  BY <1>6, <1>7, <1>8, <1>9 DEF ServicesMirror
<1>11. \A x \in InForce({"Service"})' :
          ServiceKey(x) \in DOMAIN services /\ services[ServiceKey(x)] = x.type
  <2> HIDE DEF key
  <2>1. m \in InForce({"Service"})' /\ ServiceKey(m) = key
    BY <1>6 DEF key
  <2>2. \A x \in InForce({"Service"})' : x # m =>
           x \in InForce({"Service"}) /\ ServiceKey(x) # key
    BY <1>6, <1>7
  <2> QED
    BY <1>8, <1>9, <2>1, <2>2 DEF ServicesMirror
<1>12. \A x \in Said({"Service"})' : ServiceKey(x) \in DOMAIN services
  BY <1>6, <1>8, <1>9 DEF ServicesMirror
<1>13. IsFiniteSet(DOMAIN services)
  BY <1>8, <1>9, FS_AddElement DEF ServicesMirror
<1>14. ServicesMirror'
  BY <1>3, <1>10, <1>11, <1>12, <1>13 DEF ServicesMirror, ServiceKey
<1> QED
  BY <1>2, <1>3, <1>5, <1>14 DEF Mirrors

LEMMA AddRoleBindingMirrors ==
    ASSUME Mirrors, NEW m \in Manifests, AddRoleBinding(m)
    PROVE  Mirrors'
<1> DEFINE bindings == graph.role_bindings \cup {Binding(m)}
<1>1. m.kind \in BindingKinds /\ Handle(m, [graph EXCEPT !.role_bindings = bindings])
  BY DEF AddRoleBinding, Binding
<1>2. /\ Reads(m) /\ Valid(m) /\ graph' = [graph EXCEPT !.role_bindings = bindings]
      /\ status' = status /\ ReadIsValid' /\ ReadIsValid /\ ListsMirror
  BY <1>1, HandleReads DEF Mirrors
<1> HIDE DEF bindings
<1>3. /\ GraphIsRecord' /\ graph'.role_bindings = bindings
      /\ graph'.services = graph.services /\ graph'.roles = graph.roles
      /\ graph'.ingresses = graph.ingresses /\ graph'.network_policies = graph.network_policies
  BY <1>2 DEF Mirrors, GraphIsRecord
<1>4. m.kind \notin RoleKinds \cup {"Service", "Ingress", "NetworkPolicy"}
  BY <1>1 DEF RoleKinds, BindingKinds
<1>5. RolesMirror' /\ ServicesMirror'
  BY <1>2, <1>3, <1>4, RolesStay, ServicesStay DEF Mirrors
<1>6. Said(BindingKinds)' = Said(BindingKinds) \cup {m}
  BY <1>1, <1>2, SaidGrows
<1>7. Said({"Ingress"})' = Said({"Ingress"}) /\ Said({"NetworkPolicy"})' = Said({"NetworkPolicy"})
  BY <1>2, <1>4, OtherKinds
<1>8. Bound(graph)' = Bound(graph) \cup m.subjects
  <2>1. Bound(graph)' = UNION {rb.subjects : rb \in graph.role_bindings \cup {Binding(m)}}
    BY <1>3 DEF Bound, bindings
  <2>2. Binding(m).subjects = m.subjects
    BY DEF Binding
  <2>3. \A S, e : UNION {rb.subjects : rb \in S \cup {e}} = (UNION {rb.subjects : rb \in S}) \cup e.subjects
    OBVIOUS
  <2> QED
    BY <2>1, <2>2, <2>3 DEF Bound
<1>9. IsFiniteSet(Bound(graph)')
  <2>1. IsFiniteSet(m.subjects)
    BY <1>1, ManifestsAssumption DEF OfKind
  <2> QED
    BY <1>2, <1>8, <2>1, FS_Union DEF ListsMirror
<1>10. \A rb : rb \in bindings <=> \E x \in Said(BindingKinds)' : rb = Binding(x)
  BY <1>2, <1>6 DEF bindings, ListsMirror
<1>11. ListsMirror'
  BY <1>2, <1>3, <1>7, <1>9, <1>10 DEF ListsMirror, Binding, Policy, Scope
<1> QED
  BY <1>2, <1>3, <1>5, <1>11 DEF Mirrors

LEMMA AddIngressMirrors ==
    ASSUME Mirrors, NEW m \in Manifests, AddIngress(m)
    PROVE  Mirrors'
<1> DEFINE ingresses == graph.ingresses \cup ({m.namespace} \X m.backends)
<1>1. m.kind = "Ingress" /\ Handle(m, [graph EXCEPT !.ingresses = ingresses])
  BY DEF AddIngress
<1>2. /\ Reads(m) /\ Valid(m) /\ graph' = [graph EXCEPT !.ingresses = ingresses]
      /\ status' = status /\ ReadIsValid' /\ ReadIsValid /\ ListsMirror
  BY <1>1, HandleReads DEF Mirrors
<1> HIDE DEF ingresses
<1>3. /\ GraphIsRecord' /\ graph'.role_bindings = graph.role_bindings
      /\ graph'.services = graph.services /\ graph'.roles = graph.roles
      /\ graph'.ingresses = ingresses /\ graph'.network_policies = graph.network_policies
  BY <1>2 DEF Mirrors, GraphIsRecord
<1>4. m.kind \notin RoleKinds \cup BindingKinds \cup {"Service", "NetworkPolicy"}
  BY <1>1 DEF RoleKinds, BindingKinds
<1>5. RolesMirror' /\ ServicesMirror'
  BY <1>2, <1>3, <1>4, RolesStay, ServicesStay DEF Mirrors
<1>6. Said({"Ingress"})' = Said({"Ingress"}) \cup {m}
  BY <1>1, <1>2, SaidGrows
<1>7. Said(BindingKinds)' = Said(BindingKinds) /\ Said({"NetworkPolicy"})' = Said({"NetworkPolicy"})
  BY <1>2, <1>4, OtherKinds
<1>8. Bound(graph)' = Bound(graph)
  BY <1>3 DEF Bound
<1>9. \A key : key \in ingresses <=>
                  \E x \in Said({"Ingress"})' : key \in {x.namespace} \X x.backends
  BY <1>2, <1>6 DEF ingresses, ListsMirror
<1>10. ListsMirror'
  BY <1>2, <1>3, <1>7, <1>8, <1>9 DEF ListsMirror, Binding, Policy, Scope
<1> QED
  BY <1>2, <1>3, <1>5, <1>10 DEF Mirrors

LEMMA AddNetworkPolicyMirrors ==
    ASSUME Mirrors, NEW m \in Manifests, AddNetworkPolicy(m)
    PROVE  Mirrors'
<1> DEFINE policies == graph.network_policies \cup {Policy(m)}
<1>1. m.kind = "NetworkPolicy" /\ Handle(m, [graph EXCEPT !.network_policies = policies])
  BY DEF AddNetworkPolicy, Policy
<1>2. /\ Reads(m) /\ Valid(m) /\ graph' = [graph EXCEPT !.network_policies = policies]
      /\ status' = status /\ ReadIsValid' /\ ReadIsValid /\ ListsMirror
  BY <1>1, HandleReads DEF Mirrors
<1> HIDE DEF policies
<1>3. /\ GraphIsRecord' /\ graph'.role_bindings = graph.role_bindings
      /\ graph'.services = graph.services /\ graph'.roles = graph.roles
      /\ graph'.ingresses = graph.ingresses /\ graph'.network_policies = policies
  BY <1>2 DEF Mirrors, GraphIsRecord
<1>4. m.kind \notin RoleKinds \cup BindingKinds \cup {"Service", "Ingress"}
  BY <1>1 DEF RoleKinds, BindingKinds
<1>5. RolesMirror' /\ ServicesMirror'
  BY <1>2, <1>3, <1>4, RolesStay, ServicesStay DEF Mirrors
<1>6. Said({"NetworkPolicy"})' = Said({"NetworkPolicy"}) \cup {m}
  BY <1>1, <1>2, SaidGrows
<1>7. Said(BindingKinds)' = Said(BindingKinds) /\ Said({"Ingress"})' = Said({"Ingress"})
  BY <1>2, <1>4, OtherKinds
<1>8. Bound(graph)' = Bound(graph)
  BY <1>3 DEF Bound
<1>9. \A np : np \in policies <=> \E x \in Said({"NetworkPolicy"})' : np = Policy(x)
  BY <1>2, <1>6 DEF policies, ListsMirror
<1>10. ListsMirror'
  BY <1>2, <1>3, <1>7, <1>8, <1>9 DEF ListsMirror, Binding, Policy, Scope
<1> QED
  BY <1>2, <1>3, <1>5, <1>10 DEF Mirrors

LEMMA SkipMirrors ==
    ASSUME Mirrors, NEW m \in Manifests, Skip(m)
    PROVE  Mirrors'
<1>1. Reads(m) /\ graph' = graph /\ status' = status /\ m.kind \notin Handled /\ ReadIsValid
  BY DEF Skip, Reads, Mirrors
<1>2. ReadIsValid'
  BY <1>1, ReadGrows DEF ReadIsValid, Valid
<1>3. RolesMirror' /\ ServicesMirror' /\ ListsMirror'
  BY <1>1, RolesStay, ServicesStay, ListsStay DEF Mirrors, Handled
<1> QED
  BY <1>1, <1>2, <1>3 DEF Mirrors, GraphIsRecord

\* No manifest was read.
LEMMA NothingReadMirrors ==
    ASSUME Mirrors, UNCHANGED <<graph, read>>, status' \in {"building", "invalid"}
    PROVE  Mirrors'
<1>1. \A kinds : InForce(kinds)' = InForce(kinds) /\ Said(kinds)' = Said(kinds)
  BY DEF InForce, Said, SameObject
<1>2. RolesMirror' /\ ServicesMirror'
  BY <1>1 DEF Mirrors, RolesMirror, ServicesMirror, RoleKey, ServiceKey, Scope
<1>3. ListsMirror'
  BY <1>1 DEF Mirrors, ListsMirror, Binding, Policy, Scope, Bound
<1> QED
  BY <1>2, <1>3 DEF Mirrors, GraphIsRecord, ReadIsValid, Valid

LEMMA MirrorsStep ==
    ASSUME Mirrors, [Next]_vars
    PROVE  Mirrors'
<1>1. CASE UNCHANGED vars
  BY <1>1, NothingReadMirrors DEF vars, Mirrors
<1>2. ASSUME NEW m \in Manifests, Raise(m) PROVE Mirrors'
  BY <1>2, NothingReadMirrors DEF Raise
<1> QED
  BY <1>1, <1>2, AddRoleMirrors, AddRoleBindingMirrors, AddServiceMirrors, AddIngressMirrors,
     AddNetworkPolicyMirrors, SkipMirrors DEF Next

LEMMA MirrorsHolds == Spec => []Mirrors
<1>1. Init => Mirrors
  <2> SUFFICES ASSUME Init PROVE Mirrors
    OBVIOUS
  <2>1. read = <<>> /\ read \in Seq(Manifests) /\ DOMAIN read = {}
    BY EmptySeq DEF Init
  <2>2. \A kinds : InForce(kinds) = {} /\ Said(kinds) = {}
    BY <2>1 DEF InForce, Said
  <2>3. /\ status = "building" /\ GraphIsRecord
        /\ DOMAIN graph.roles = {} /\ DOMAIN graph.services = {}
        /\ graph.role_bindings = {} /\ graph.ingresses = {} /\ graph.network_policies = {}
    BY DEF Init, GraphIsRecord
  <2>4. Bound(graph) = {}
    BY <2>3 DEF Bound
  <2> QED
    BY <2>1, <2>2, <2>3, <2>4, FS_EmptySet
    DEF Mirrors, ReadIsValid, RolesMirror, ServicesMirror, ListsMirror
<1> QED
  BY <1>1, MirrorsStep, PTL DEF Spec

\* The graph is of the manifests: every name, rule and subject in it is one of
\* theirs.
THEOREM GraphTypeCorrect == Spec => []TypeOK
<1>1. ASSUME Mirrors PROVE TypeOK
  <2> USE <1>1 DEF Mirrors
  <2>1. \A m \in Manifests : m.name \in Names /\ m.namespace \in Namespaces
    BY DEF Names, Namespaces
  <2>2. ASSUME NEW key \in DOMAIN graph.roles
        PROVE  key \in RoleKeys /\ graph.roles[key] \subseteq Rules
    <3>1. PICK m \in InForce(RoleKinds) : RoleKey(m) = key
      BY DEF RolesMirror
    <3>2. m \in Manifests /\ m.kind \in RoleKinds /\ Valid(m)
      BY InForceIsSaid, SaidIsValid DEF Handled
    <3>3. m.rules \subseteq Rules
      BY <3>2 DEF Rules, OfKind
    <3> QED
      BY <2>1, <3>1, <3>2, <3>3
      DEF RolesMirror, RoleKey, RoleKeys, Scope, Valid, RoleKinds, ClusterKinds
  <2>3. ASSUME NEW rb \in graph.role_bindings PROVE rb \in Bindings
    <3>1. PICK m \in Said(BindingKinds) : rb = Binding(m)
      BY DEF ListsMirror
    <3>2. m \in Manifests /\ m.kind \in BindingKinds /\ Valid(m)
      BY <3>1, SaidIsValid DEF Handled
    <3>3. /\ m.role_ref \in {x.role_ref : x \in OfKind(BindingKinds)}
          /\ m.subjects \subseteq Subjects
      BY <3>2 DEF OfKind, Subjects
    <3> QED
      BY <2>1, <3>1, <3>2, <3>3
      DEF Binding, Bindings, Scope, Valid, BindingKinds, ClusterKinds
  <2>4. ASSUME NEW key \in DOMAIN graph.services
        PROVE  /\ key \in (Namespaces \ {None}) \X Names
               /\ graph.services[key] \in {m.type : m \in OfKind({"Service"})}
    <3>1. PICK m \in InForce({"Service"}) : ServiceKey(m) = key
      BY DEF ServicesMirror
    <3>2. m \in Manifests /\ m.kind = "Service" /\ Valid(m)
      BY InForceIsSaid, SaidIsValid DEF Handled
    <3> QED
      BY <2>1, <3>1, <3>2 DEF ServicesMirror, ServiceKey, Valid, OfKind, ClusterKinds
  <2>5. ASSUME NEW key \in graph.ingresses PROVE key \in (Namespaces \ {None}) \X Names
    <3>1. PICK m \in Said({"Ingress"}) : key \in {m.namespace} \X m.backends
      BY DEF ListsMirror
    <3>2. m \in Manifests /\ m.kind = "Ingress" /\ Valid(m)
      BY <3>1, SaidIsValid DEF Handled
    <3>3. m.backends \subseteq Names
      BY <3>2 DEF Names, OfKind
    <3> QED
      BY <2>1, <3>1, <3>2, <3>3 DEF Valid, ClusterKinds
  <2>6. ASSUME NEW np \in graph.network_policies
        PROVE  np \in [namespace : Namespaces \ {None}, name : Names, is_default_deny : BOOLEAN]
    <3>1. PICK m \in Said({"NetworkPolicy"}) : np = Policy(m)
      BY DEF ListsMirror
    <3>2. m \in Manifests /\ m.kind = "NetworkPolicy" /\ Valid(m)
      BY <3>1, SaidIsValid DEF Handled
    <3> QED
      BY <2>1, <3>1, <3>2 DEF Policy, Valid, ClusterKinds
  <2> QED
    BY <2>2, <2>3, <2>4, <2>5, <2>6 DEF TypeOK, ReadIsValid
<1> QED
  BY <1>1, MirrorsHolds, PTL
-----------------------------------------------------------------------------
(* escalation.py *)

\* effective_rules finds what the manifests grant, no more and no less.
LEMMA EffectiveIsHeld ==
    ASSUME Mirrors, NEW s, NEW rule
    PROVE  rule \in EffectiveRules(graph, s) <=> Holds(s, rule)
<1> USE DEF Mirrors
<1> DEFINE RefKey(rb) == <<rb.role_ref.kind, rb.role_ref.name,
                           IF rb.role_ref.kind = "Role" THEN rb.namespace ELSE None>>
<1>1. rule \in EffectiveRules(graph, s) <=>
         \E key \in DOMAIN graph.roles : \E rb \in graph.role_bindings :
            s \in rb.subjects /\ key = RefKey(rb) /\ rule \in graph.roles[key]
  BY DEF EffectiveRules
<1>2. ASSUME NEW b \in Said(BindingKinds), NEW m \in InForce(RoleKinds)
      PROVE  RoleKey(m) = RefKey(Binding(b)) <=> Grants(b, m)
  <2>1. b.kind \in BindingKinds
    BY SaidIsValid DEF Handled
  <2>2. m.kind \in RoleKinds /\ Valid(m)
    BY InForceIsSaid, SaidIsValid DEF Handled
  <2>3. CASE m.kind = "Role"
    <3>1. Scope(m) = m.namespace /\ m.namespace # None
      BY <2>2, <2>3 DEF Scope, Valid, ClusterKinds
    <3> QED
      BY <2>1, <2>3, <3>1 DEF RoleKey, Binding, Grants, Scope, BindingKinds, ClusterKinds
  <2>4. CASE m.kind = "ClusterRole"
    BY <2>4 DEF RoleKey, Binding, Grants, Scope, ClusterKinds
  <2> QED
    BY <2>2, <2>3, <2>4 DEF RoleKinds
<1>3. ASSUME NEW key \in DOMAIN graph.roles, NEW rb \in graph.role_bindings,
             s \in rb.subjects, key = RefKey(rb), rule \in graph.roles[key]
      PROVE  Holds(s, rule)
  <2>1. PICK b \in Said(BindingKinds) : rb = Binding(b)
    BY DEF ListsMirror
  <2>2. PICK m \in InForce(RoleKinds) : RoleKey(m) = key
    BY DEF RolesMirror
  <2>3. rule \in m.rules
    BY <1>3, <2>2 DEF RolesMirror
  <2>4. Grants(b, m) /\ s \in b.subjects
    BY <1>2, <1>3, <2>1, <2>2 DEF Binding
  <2> QED
    BY <2>3, <2>4 DEF Holds
<1>4. ASSUME Holds(s, rule)
      PROVE  \E key \in DOMAIN graph.roles : \E rb \in graph.role_bindings :
                s \in rb.subjects /\ key = RefKey(rb) /\ rule \in graph.roles[key]
  <2>1. PICK b \in Said(BindingKinds), m \in InForce(RoleKinds) :
           s \in b.subjects /\ Grants(b, m) /\ rule \in m.rules
    BY <1>4 DEF Holds
  <2>2. Binding(b) \in graph.role_bindings /\ s \in Binding(b).subjects
    BY <2>1 DEF ListsMirror, Binding
  <2>3. RoleKey(m) \in DOMAIN graph.roles /\ graph.roles[RoleKey(m)] = m.rules
    BY DEF RolesMirror
  <2>4. RoleKey(m) = RefKey(Binding(b))
    BY <1>2, <2>1
  <2> QED
    BY <2>1, <2>2, <2>3, <2>4
<1> HIDE DEF RefKey
<1> QED
  BY <1>1, <1>3, <1>4

\* The search for a pattern is the question what the rule allows.
LEMMA MatchingWildcard ==
    ASSUME NEW rule
    PROVE  RuleMatches(rule, Wildcard) <=> Total(rule)
BY DEF RuleMatches, Wildcard, Total

LEMMA MatchingPattern ==
    ASSUME NEW rule, NEW p \in Patterns, p # Wildcard
    PROVE  RuleMatches(rule, p) <=> Can(rule, p)
<1>1. /\ "*" \in p.verbs /\ \E verb \in p.verbs : verb # "*"
      /\ \E resource : resource \in p.resources
  BY DEF Patterns
<1> QED
  BY <1>1 DEF RuleMatches, Can, Allows

\* Who is bound by the graph is a subject of a manifest.
LEMMA BoundAreSubjects ==
    ASSUME Mirrors
    PROVE  Bound(graph) \subseteq Subjects
<1> SUFFICES ASSUME NEW rb \in graph.role_bindings PROVE rb.subjects \subseteq Subjects
  BY DEF Bound
<1>1. PICK m \in Said(BindingKinds) : rb = Binding(m)
  BY DEF Mirrors, ListsMirror
<1>2. m \in Manifests /\ m.kind \in BindingKinds
  BY SaidIsValid DEF Mirrors, Handled
<1> QED
  BY <1>1, <1>2 DEF Binding, Subjects, OfKind

\* A subject is reported for a rule exactly if the manifests give it the rule
\* and the rule is dangerous.
THEOREM EscalationsAreExact == Spec => []EscalationsExact
<1>1. ASSUME Mirrors PROVE EscalationsExact
  <2> DEFINE Graph(t) == /\ t[2] \in EffectiveRules(graph, t[1])
                         /\ RuleMatches(t[2], t[3])
                         /\ t[3] = Wildcard \/ ~RuleMatches(t[2], Wildcard)
             Manifest(t) == /\ Holds(t[1], t[2])
                            /\ IF Total(t[2]) THEN t[3] = Wildcard
                                              ELSE t[3] # Wildcard /\ Can(t[2], t[3])
             Found == {t \in Bound(graph) \X Rules \X Patterns : Graph(t)}
             Due == {t \in Subjects \X Rules \X Patterns : Manifest(t)}
  <2>1. ASSUME NEW s, NEW rule, NEW p \in Patterns
        PROVE  Graph(<<s, rule, p>>) <=> Manifest(<<s, rule, p>>)
    BY <1>1, <2>1, EffectiveIsHeld, MatchingWildcard, MatchingPattern
  <2>2. ASSUME NEW s, NEW rule, NEW p, Graph(<<s, rule, p>>)
        PROVE  s \in Bound(graph) /\ (p = Wildcard <=> Total(rule))
    <3>1. s \in Bound(graph)
      BY <2>2 DEF EffectiveRules, Bound
    <3>2. p = Wildcard <=> Total(rule)
      BY <2>2, MatchingWildcard
    <3> QED
      BY <3>1, <3>2
  <2>3. Bound(graph) \subseteq Subjects
    BY <1>1, BoundAreSubjects
  <2> HIDE DEF Graph, Manifest
  <2>4. Found = Due
    BY <2>1, <2>2, <2>3
  <2>5. \A t \in Found : (t[3] = Wildcard <=> Total(t[2]))
    BY <2>2
  <2>6. \A t \in Found : Finding(t[1], t[2], t[3], IF t[3] = Wildcard THEN "critical" ELSE "high")
                         = Finding(t[1], t[2], t[3], IF Total(t[2]) THEN "critical" ELSE "high")
    BY <2>5
  <2>7. Escalations(graph) =
           {Finding(t[1], t[2], t[3], IF t[3] = Wildcard THEN "critical" ELSE "high") : t \in Found}
    BY DEF Escalations, Graph
  <2>8. EscalationsExact <=>
           Escalations(graph) =
             {Finding(t[1], t[2], t[3], IF Total(t[2]) THEN "critical" ELSE "high") : t \in Due}
    BY DEF EscalationsExact, Manifest
  <2> HIDE DEF Found, Due
  <2> QED
    BY <2>4, <2>6, <2>7, <2>8
<1> QED
  BY <1>1, MirrorsHolds, PTL
-----------------------------------------------------------------------------
(* blast_radius.py *)

\* What the length of a list stands for: there are finitely many services and
\* subjects to affect.
LEMMA AffectedIsFinite ==
    ASSUME NEW g, IsFiniteSet(DOMAIN g.services), IsFiniteSet(Bound(g)),
           NEW namespace, NEW name, NEW s
    PROVE  /\ IsFiniteSet(AffectedServices(g, namespace, name))
           /\ IsFiniteSet(AffectedSubjects(g, s))
<1>1. AffectedServices(g, namespace, name) \in SUBSET DOMAIN g.services
  BY DEF AffectedServices
<1> DEFINE label == [t \in Bound(g) |-> Label(t)]
           Labels == {Label(t) : t \in Bound(g)}
<1>2. label \in Surjection(Bound(g), Labels)
  BY DEF Surjection
<1>3. IsFiniteSet(Labels)
  <2> HIDE DEF label, Labels
  <2> QED
    BY <1>2, FS_Surjection
<1>4. AffectedSubjects(g, s) \in SUBSET Labels
  BY DEF AffectedSubjects, Bound
<1> HIDE DEF label, Labels
<1> QED
  BY <1>1, <1>3, <1>4, FS_Subset

\* Nobody who shares a role with the subject is left out.
LEMMA SharingIsAffected ==
    ASSUME Mirrors, NEW s, NEW t, s # t, SharesRole(s, t)
    PROVE  Label(t) \in AffectedSubjects(graph, s)
<1>1. PICK b \in Said(BindingKinds), c \in Said(BindingKinds) :
         s \in b.subjects /\ t \in c.subjects /\ b.role_ref = c.role_ref
  BY DEF SharesRole
<1>2. Binding(b) \in graph.role_bindings /\ Binding(c) \in graph.role_bindings
  BY DEF Mirrors, ListsMirror
<1>3. /\ s \in Binding(b).subjects /\ t \in Binding(c).subjects \ {s}
      /\ Binding(b).role_ref = Binding(c).role_ref
  BY <1>1 DEF Binding
<1> QED
  BY <1>2, <1>3 DEF AffectedSubjects

THEOREM NobodyIsForgotten == Spec => []NobodyForgotten
<1>1. Mirrors => NobodyForgotten
  BY SharingIsAffected DEF NobodyForgotten
<1> QED
  BY <1>1, MirrorsHolds, PTL

\* GO means that nothing is counted.
LEMMA GoIsNothing ==
    ASSUME Mirrors, NEW namespace, NEW name, NEW s,
           Recommendation(graph, namespace, name, s) = "GO"
    PROVE  /\ AffectedServices(graph, namespace, name) = {}
           /\ AffectedSubjects(graph, s) = {}
<1> DEFINE services == AffectedServices(graph, namespace, name)
           subjects == AffectedSubjects(graph, s)
<1>1. IsFiniteSet(services) /\ IsFiniteSet(subjects)
  BY AffectedIsFinite DEF Mirrors, ServicesMirror, ListsMirror
<1>2. Cardinality(services) \in Nat /\ Cardinality(subjects) \in Nat
  BY <1>1, FS_CardinalityType
<1>3. Cardinality(services) + Cardinality(subjects) = 0
  BY DEF Recommendation
<1> HIDE DEF services, subjects
<1>4. services = {} /\ subjects = {}
  BY <1>1, <1>2, <1>3, FS_EmptySet
<1> QED
  BY <1>4 DEF services, subjects

\* GO is said only where neither a subject nor a service is within reach.
THEOREM GoIsSafeAlways == Spec => []GoIsSafe
<1>1. ASSUME Mirrors, NEW s \in Subjects, NEW target \in DOMAIN graph.services,
             Recommendation(graph, target[1], target[2], s) = "GO"
      PROVE  /\ ~\E t \in Subjects : s # t /\ SharesRole(s, t)
             /\ \/ ~\E m \in Said({"Service"}) : m.namespace = target[1] /\ m.name # target[2]
                \/ \E m \in Said({"NetworkPolicy"}) :
                      m.namespace = target[1] /\ ~(m.policy_types \subseteq m.allows)
  <2>1. /\ AffectedServices(graph, target[1], target[2]) = {}
        /\ AffectedSubjects(graph, s) = {}
    BY <1>1, GoIsNothing
  <2>2. ~\E t \in Subjects : s # t /\ SharesRole(s, t)
    BY <1>1, <2>1, SharingIsAffected
  <2>3. CASE NamespaceHasDefaultDeny(graph, target[1])
    <3>1. PICK np \in graph.network_policies : np.namespace = target[1] /\ np.is_default_deny
      BY <2>3 DEF NamespaceHasDefaultDeny
    <3>2. PICK m \in Said({"NetworkPolicy"}) : np = Policy(m)
      BY <1>1 DEF Mirrors, ListsMirror
    <3>3. m.namespace = target[1] /\ \E way \in m.policy_types : way \notin m.allows
      BY <3>1, <3>2 DEF Policy
    <3> QED
      BY <2>2, <3>3
  <2>4. CASE ~NamespaceHasDefaultDeny(graph, target[1])
    <3>1. ASSUME NEW m \in Said({"Service"}), m.namespace = target[1], m.name # target[2]
          PROVE  FALSE
      <4>1. ServiceKey(m) \in DOMAIN graph.services
        BY <1>1 DEF Mirrors, ServicesMirror
      <4>2. ServiceKey(m) \in AffectedServices(graph, target[1], target[2])
        BY <2>4, <3>1, <4>1 DEF AffectedServices, ServiceKey
      <4> QED
        BY <2>1, <4>2
    <3> QED
      BY <2>2, <3>1
  <2> QED
    BY <2>3, <2>4
<1>2. Mirrors => GoIsSafe
  BY <1>1 DEF GoIsSafe
<1> QED
  BY <1>2, MirrorsHolds, PTL
-----------------------------------------------------------------------------
(* exposure.py *)

\* Each service is reported once, as what its last manifest and the Ingresses
\* of its namespace make it.
THEOREM ExposuresAreExact == Spec => []ExposureExact
<1> DEFINE Services == InForce({"Service"})
           Found(key) == [service |-> key, exposure_type |-> ExposureType(graph, key),
                          severity |-> IF /\ ExposureType(graph, key) # "internal"
                                          /\ key \notin Allowlist
                                         THEN "high" ELSE "low"]
           keyOf == [m \in Services |-> ServiceKey(m)]
           found == [key \in DOMAIN graph.services |-> Found(key)]
           Routed(m) == \E i \in Said({"Ingress"}) :
                           i.namespace = m.namespace /\ m.name \in i.backends
           Outside(m) == Routed(m) \/ m.type \in ExternalTypes
<1>1. DiscoverExposure(graph) = {Found(key) : key \in DOMAIN graph.services}
  BY DEF DiscoverExposure
<1>2. ASSUME Mirrors
      PROVE  Cardinality(DiscoverExposure(graph)) = Cardinality(Services)
  <2>1. IsFiniteSet(DOMAIN graph.services)
    BY <1>2 DEF Mirrors, ServicesMirror
  <2>2. found \in Bijection(DOMAIN graph.services, DiscoverExposure(graph))
    BY <1>1 DEF Bijection, Injection, IsInjective, Surjection
  <2>3. Cardinality(DiscoverExposure(graph)) = Cardinality(DOMAIN graph.services)
    BY <2>1, <2>2, FS_Bijection DEF ExistsBijection
  <2>4. \A m \in Services : m.kind = "Service"
    BY DEF InForce
  <2>5. \A a, b \in Services : ServiceKey(a) = ServiceKey(b) => a = b
    BY <1>2, <2>4, ServicesByKey, InForceIsOne DEF Mirrors
  <2>6. /\ \A m \in Services : ServiceKey(m) \in DOMAIN graph.services
        /\ \A key \in DOMAIN graph.services : \E m \in Services : ServiceKey(m) = key
    BY <1>2 DEF Mirrors, ServicesMirror
  <2>7. keyOf \in Bijection(Services, DOMAIN graph.services)
    <3> HIDE DEF Services
    <3> QED
      BY <2>5, <2>6 DEF Bijection, Injection, IsInjective, Surjection
  <2>8. ExistsBijection(DOMAIN graph.services, Services)
    <3>1. ExistsBijection(Services, DOMAIN graph.services)
      BY <2>7 DEF ExistsBijection
    <3> HIDE DEF Services
    <3> QED
      BY <3>1, Fun_ExistsBijSymmetric
  <2>9. Cardinality(Services) = Cardinality(DOMAIN graph.services)
    BY <2>1, <2>8, FS_Bijection
  <2> QED
    BY <2>3, <2>9
<1>3. ASSUME Mirrors, NEW m \in Services
      PROVE  \E f \in {g \in DiscoverExposure(graph) : g.service = <<m.namespace, m.name>>} :
                /\ (f.exposure_type = "internal") = ~Outside(m)
                /\ (f.exposure_type = "ingress") = Routed(m)
                /\ (f.severity = "high") = (Outside(m) /\ <<m.namespace, m.name>> \notin Allowlist)
  <2> DEFINE key == ServiceKey(m)
             f == Found(key)
  <2>1. key \in DOMAIN graph.services /\ graph.services[key] = m.type
    BY <1>3 DEF Mirrors, ServicesMirror
  <2>2. key \in graph.ingresses <=> Routed(m)
    BY <1>3 DEF Mirrors, ListsMirror, ServiceKey
  <2>3. ExposureType(graph, key) = IF Routed(m) THEN "ingress"
                                   ELSE IF m.type \in ExternalTypes THEN Lower(m.type)
                                   ELSE "internal"
    BY <2>1, <2>2 DEF ExposureType
  <2>4. Lower(m.type) \notin {"internal", "ingress"}
    BY DEF Lower
  <2>5. f \in DiscoverExposure(graph) /\ f.service = <<m.namespace, m.name>>
    BY <1>1, <2>1 DEF ServiceKey
  <2>6. /\ (f.exposure_type = "internal") = ~Outside(m)
        /\ (f.exposure_type = "ingress") = Routed(m)
    <3> DEFINE type == ExposureType(graph, key)
    <3>1. f.exposure_type = type
      OBVIOUS
    <3> HIDE DEF type
    <3>2. CASE Routed(m)
      <4>1. type = "ingress"
        BY <2>3, <3>2 DEF type
      <4> QED
        BY <3>1, <3>2, <4>1
    <3>3. CASE ~Routed(m) /\ m.type \in ExternalTypes
      <4>1. type \notin {"internal", "ingress"}
        BY <2>3, <2>4, <3>3 DEF type
      <4> QED
        BY <3>1, <3>3, <4>1
    <3>4. CASE ~Routed(m) /\ m.type \notin ExternalTypes
      <4>1. type = "internal"
        BY <2>3, <3>4 DEF type
      <4> QED
        BY <3>1, <3>4, <4>1
    <3> QED
      BY <3>2, <3>3, <3>4
  <2>7. (f.severity = "high") = (Outside(m) /\ <<m.namespace, m.name>> \notin Allowlist)
    BY <2>6 DEF ServiceKey
  <2> HIDE DEF f, Outside
  <2> QED
    BY <2>5, <2>6, <2>7
<1>4. Mirrors => ExposureExact
  BY <1>2, <1>3 DEF ExposureExact
<1> QED
  BY <1>4, MirrorsHolds, PTL
-----------------------------------------------------------------------------
(* One manifest more *)

\* A graph that binds as much and has the rules of each role finds as much.
LEMMA EscalationsGrow ==
    ASSUME NEW g, NEW h, g.role_bindings \subseteq h.role_bindings,
           DOMAIN g.roles \subseteq DOMAIN h.roles,
           \A key \in DOMAIN g.roles : h.roles[key] = g.roles[key]
    PROVE  Escalations(g) \subseteq Escalations(h)
<1>1. Bound(g) \subseteq Bound(h)
  BY DEF Bound
<1>2. \A s : EffectiveRules(g, s) \subseteq EffectiveRules(h, s)
  BY DEF EffectiveRules
<1> HIDE DEF Bound, EffectiveRules
<1> QED
  BY <1>1, <1>2 DEF Escalations

\* Only a role that is redefined loses rules.
LEMMA RolesOnlyGrow ==
    ASSUME Mirrors, NEW m \in Manifests, AddRole(m),
           ~\E i \in DOMAIN read : SameObject(read[i], m)
    PROVE  /\ DOMAIN graph.roles \subseteq DOMAIN graph'.roles
           /\ \A key \in DOMAIN graph.roles : graph'.roles[key] = graph.roles[key]
           /\ graph'.role_bindings = graph.role_bindings
<1>1. m.kind \in RoleKinds /\ graph' = [graph EXCEPT !.roles = Put(@, RoleKey(m), m.rules)]
  BY DEF AddRole, Handle, RoleKey
<1>2. /\ graph'.roles = Put(graph.roles, RoleKey(m), m.rules)
      /\ graph'.role_bindings = graph.role_bindings
  BY <1>1 DEF Mirrors, GraphIsRecord
<1>3. RoleKey(m) \notin DOMAIN graph.roles
  <2> SUFFICES ASSUME RoleKey(m) \in DOMAIN graph.roles PROVE FALSE
    OBVIOUS
  <2>1. PICK x \in InForce(RoleKinds) : RoleKey(x) = RoleKey(m)
    BY DEF Mirrors, RolesMirror
  <2>2. x.kind \in RoleKinds /\ \E i \in DOMAIN read : x = read[i]
    BY DEF InForce
  <2> QED
    BY <1>1, <2>1, <2>2, RolesByKey
<1> QED
  BY <1>2, <1>3 DEF Put

\* More services and subjects affected make no recommendation milder.
LEMMA RecommendationRises ==
    ASSUME NEW g, NEW h, NEW namespace, NEW name, NEW s,
           AffectedServices(g, namespace, name) \subseteq AffectedServices(h, namespace, name),
           AffectedSubjects(g, s) \subseteq AffectedSubjects(h, s),
           IsFiniteSet(AffectedServices(h, namespace, name)),
           IsFiniteSet(AffectedSubjects(h, s))
    PROVE  LET Rank == [GO |-> 0, NARROW |-> 1, STOP |-> 2]
           IN  Rank[Recommendation(g, namespace, name, s)]
                 <= Rank[Recommendation(h, namespace, name, s)]
<1> DEFINE a == AffectedServices(g, namespace, name)  b == AffectedServices(h, namespace, name)
           c == AffectedSubjects(g, s)                d == AffectedSubjects(h, s)
           before == Cardinality(a) + Cardinality(c)
           after == Cardinality(b) + Cardinality(d)
           Rank == [GO |-> 0, NARROW |-> 1, STOP |-> 2]
           Advice(n) == IF n = 0 THEN "GO" ELSE IF n <= 2 THEN "NARROW" ELSE "STOP"
<1>1. a \in SUBSET b /\ c \in SUBSET d /\ IsFiniteSet(b) /\ IsFiniteSet(d)
  OBVIOUS
<1>2. /\ Recommendation(g, namespace, name, s) = Advice(before)
      /\ Recommendation(h, namespace, name, s) = Advice(after)
  BY DEF Recommendation
<1> HIDE DEF a, b, c, d
<1>3. /\ IsFiniteSet(a) /\ IsFiniteSet(c)
      /\ Cardinality(a) <= Cardinality(b) /\ Cardinality(c) <= Cardinality(d)
  BY <1>1, FS_Subset
<1>4. /\ Cardinality(a) \in Nat /\ Cardinality(b) \in Nat
      /\ Cardinality(c) \in Nat /\ Cardinality(d) \in Nat
  BY <1>1, <1>3, FS_CardinalityType
<1>5. before \in Nat /\ after \in Nat /\ before <= after
  BY <1>3, <1>4
<1> HIDE DEF before, after
<1>6. \A n \in Nat : Rank[Advice(n)] = IF n = 0 THEN 0 ELSE IF n <= 2 THEN 1 ELSE 2
  OBVIOUS
<1> HIDE DEF Rank, Advice
<1>7. Rank[Advice(before)] <= Rank[Advice(after)]
  BY <1>5, <1>6
<1> QED
  BY <1>2, <1>7 DEF Rank

\* Nothing that was found is hidden by a manifest read later.
THEOREM MoreHidesNothing == Spec => MoreNeverHides
<1> DEFINE Rank == [GO |-> 0, NARROW |-> 1, STOP |-> 2]
<1>1. ASSUME Mirrors, Mirrors', NEW m \in Manifests, Reads(m),
             AddRole(m) \/ AddRoleBinding(m) \/ AddService(m) \/ AddIngress(m)
                \/ AddNetworkPolicy(m) \/ Skip(m)
      PROVE  /\ (m.kind \in RoleKinds /\ \E i \in DOMAIN read : SameObject(read[i], m))
                \/ Escalations(graph) \subseteq Escalations(graph')
             /\ m.kind = "NetworkPolicy" \/
                \A s \in Subjects, target \in DOMAIN graph.services :
                   Rank[Recommendation(graph, target[1], target[2], s)]
                     <= Rank[Recommendation(graph', target[1], target[2], s)]
  <2>0. GraphIsRecord
    BY <1>1 DEF Mirrors
  <2>1. /\ graph.role_bindings \subseteq graph'.role_bindings
        /\ DOMAIN graph.services \subseteq DOMAIN graph'.services
        /\ m.kind # "NetworkPolicy" => graph'.network_policies = graph.network_policies
        /\ m.kind \notin RoleKinds => graph'.roles = graph.roles
    BY <1>1, <2>0 DEF GraphIsRecord, AddRole, AddRoleBinding, AddService, AddIngress,
       AddNetworkPolicy, Skip, Handle, Put
  <2>2. ASSUME m.kind \notin RoleKinds PROVE Escalations(graph) \subseteq Escalations(graph')
    BY <2>1, <2>2, EscalationsGrow
  <2>3. ASSUME m.kind \in RoleKinds, ~\E i \in DOMAIN read : SameObject(read[i], m)
        PROVE  Escalations(graph) \subseteq Escalations(graph')
    <3>1. AddRole(m)
      BY <1>1, <2>3 DEF AddRoleBinding, AddService, AddIngress, AddNetworkPolicy, Skip,
         RoleKinds, BindingKinds, Handled
    <3> QED
      BY <1>1, <2>3, <3>1, RolesOnlyGrow, EscalationsGrow
  <2>4. ASSUME m.kind # "NetworkPolicy", NEW s \in Subjects, NEW target \in DOMAIN graph.services
        PROVE  Rank[Recommendation(graph, target[1], target[2], s)]
                 <= Rank[Recommendation(graph', target[1], target[2], s)]
    <3>1. AffectedServices(graph, target[1], target[2])
             \subseteq AffectedServices(graph', target[1], target[2])
      BY <2>1, <2>4 DEF AffectedServices, NamespaceHasDefaultDeny
    <3>2. AffectedSubjects(graph, s) \subseteq AffectedSubjects(graph', s)
      BY <2>1 DEF AffectedSubjects
    <3>3. /\ IsFiniteSet(AffectedServices(graph', target[1], target[2]))
          /\ IsFiniteSet(AffectedSubjects(graph', s))
      <4>1. IsFiniteSet(DOMAIN graph'.services) /\ IsFiniteSet(Bound(graph'))
        BY <1>1 DEF Mirrors, ServicesMirror, ListsMirror, Bound
      <4> QED
        BY <4>1, AffectedIsFinite
    <3> QED
      BY <3>1, <3>2, <3>3, RecommendationRises
  <2> QED
    BY <2>2, <2>3, <2>4
<1>2. ASSUME Mirrors, Mirrors', [Next]_vars, read' # read
      PROVE  LET m == read'[Len(read')]
             IN /\ (m.kind \in RoleKinds /\ \E i \in DOMAIN read : SameObject(read[i], m))
                   \/ Escalations(graph) \subseteq Escalations(graph)'
                /\ m.kind = "NetworkPolicy" \/
                   \A s \in Subjects, target \in DOMAIN graph.services :
                      Rank[Recommendation(graph, target[1], target[2], s)]
                        <= Rank[Recommendation(graph', target[1], target[2], s)]
  <2>1. PICK m \in Manifests :
           AddRole(m) \/ AddRoleBinding(m) \/ AddService(m) \/ AddIngress(m)
              \/ AddNetworkPolicy(m) \/ Skip(m)
    BY <1>2 DEF Next, Raise, vars
  <2>2. Reads(m)
    BY <2>1 DEF AddRole, AddRoleBinding, AddService, AddIngress, AddNetworkPolicy, Skip,
       Handle, Reads
  <2>3. read'[Len(read')] = m
    <3>1. ReadIsValid
      BY <1>2 DEF Mirrors
    <3> QED
      BY <2>2, <3>1, ReadGrows
  <2>4. Escalations(graph)' = Escalations(graph')
    BY DEF Escalations, Bound, EffectiveRules
  <2> HIDE DEF Rank
  <2> QED
    BY <1>1, <1>2, <2>1, <2>2, <2>3, <2>4
<1>3. ASSUME Mirrors, Mirrors', [Next]_vars PROVE
         [read' # read =>
            LET m == read'[Len(read')]
                Rising == [GO |-> 0, NARROW |-> 1, STOP |-> 2]
            IN /\ (m.kind \in RoleKinds /\ \E i \in DOMAIN read :
                      SameObject(read[i], m))
                  \/ Escalations(graph) \subseteq Escalations(graph)'
               /\ m.kind = "NetworkPolicy" \/
                  \A s \in Subjects, target \in DOMAIN graph.services :
                     Rising[Recommendation(graph, target[1], target[2], s)]
                       <= Rising[Recommendation(graph', target[1], target[2], s)]]_vars
  BY <1>2, <1>3 DEF Rank
<1> QED
  BY <1>3, MirrorsHolds, PTL DEF Spec, MoreNeverHides
==============================================================================
