---------------------------- MODULE MCClusterGraph ----------------------------
(* Two namespaces that use the same names for a role, a binding and a       *)
(* service; a user and a group of one name; objects that are redefined;     *)
(* a cluster role and a cluster binding whose metadata name a namespace.    *)
EXTENDS ClusterGraph

CONSTANT none

Obj(kind, name, namespace) == [kind |-> kind, name |-> name, namespace |-> namespace]
Rule(verbs, resources) == [verbs |-> verbs, resources |-> resources]

web   == Obj("ServiceAccount", "web", "app")
job   == Obj("ServiceAccount", "job", "ops")
alice == Obj("User", "alice", none)
team  == Obj("Group", "alice", none)

Role(kind, name, namespace, rules) ==
    [kind |-> kind, name |-> name, namespace |-> namespace, rules |-> rules]
Binding(kind, name, namespace, role_ref, subjects) ==
    [kind |-> kind, name |-> name, namespace |-> namespace,
     role_ref |-> role_ref, subjects |-> subjects]
Ref(kind, name) == [kind |-> kind, name |-> name]
Service(name, namespace, type) ==
    [kind |-> "Service", name |-> name, namespace |-> namespace, type |-> type]
Policy(name, namespace, types, allows) ==
    [kind |-> "NetworkPolicy", name |-> name, namespace |-> namespace,
     policy_types |-> types, allows |-> allows]

MCManifests == {
    Role("Role", "reader", "app", {Rule({"get", "list"}, {"secrets"})}),
    Role("Role", "reader", "app", {Rule({"get"}, {"configmaps"}), Rule({"*"}, {"pods/exec"})}),
    Role("Role", "reader", "ops", {Rule({"bind"}, {"*"})}),
    Role("ClusterRole", "reader", "app", {Rule({"*"}, {"*"})}),
    Role("Role", "reader", none, {}),
    Binding("RoleBinding", "b", "app", Ref("Role", "reader"), {web, alice}),
    Binding("RoleBinding", "b", "ops", Ref("Role", "reader"), {job}),
    Binding("RoleBinding", "c", "app", Ref("Role", "reader"), {team}),
    Binding("RoleBinding", "d", "ops", Ref("ClusterRole", "reader"), {job, team}),
    Binding("ClusterRoleBinding", "b", "app", Ref("Role", "reader"), {job}),
    Binding("ClusterRoleBinding", "e", none, Ref("ClusterRole", "reader"), {web}),
    Binding("RoleBinding", "f", "app", none, {web}),
    Service("web", "app", "ClusterIP"), Service("web", "app", "NodePort"),
    Service("db", "app", "ClusterIP"), Service("web", "ops", "LoadBalancer"),
    Service("db", "ops", "ClusterIP"),
    [kind |-> "Ingress", name |-> "in", namespace |-> "app", backends |-> {"web", "db"}],
    Policy("deny", "app", {"Ingress", "Egress"}, {"Egress"}),
    Policy("allow", "ops", {"Ingress"}, {"Ingress"}),
    Obj("Pod", "web", "app")}

MCAllowlist == {<<"app", "web">>, <<"ops", "db">>}
==============================================================================
