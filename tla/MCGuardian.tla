----------------------------- MODULE MCGuardian -----------------------------
(* Clusters of a few objects for Guardian: one scenario per group of checks. *)
EXTENDS Guardian

\* The order of the names of lists that overflow, the digits, the letter case.
MCRank(name) == CASE name = "s1" -> 1 [] name = "s2" -> 2 [] name = "s3" -> 3
                  [] name = "s4" -> 4 [] name = "s5" -> 5
                  [] name = "ingress" -> 1 [] name = "inner" -> 2 [] OTHER -> 0
MCStem(name) == IF name \in {"node-1", "node-2"} THEN "node-#" ELSE name
MCLower(name) == IF name = "A" THEN "a" ELSE name

\* The names a scenario gives its objects matter only within it.
c1 == Container("c")
hardened == [c1 EXCEPT !.cpu = 100, !.mem = 128, !.memLimit = 128,
    !.readiness = TRUE, !.liveness = TRUE, !.nonRoot = "true",
    !.readOnlyRoot = TRUE, !.seccomp = TRUE]
good == [PodSpec({hardened}) EXCEPT !.spread = TRUE, !.automount = FALSE]

Meta(kind, ns, name) == [kind |-> kind, ns |-> ns, name |-> name]
With(o, fields) ==
    [f \in DOMAIN o \cup DOMAIN fields |->
        IF f \in DOMAIN fields THEN fields[f] ELSE o[f]]

Pod(ns, name, labels, spec) ==
    With(Meta("Pod", ns, name),
         [labels |-> labels, spec |-> spec, phase |-> "Running",
          statuses |-> {}, node |-> "", deleting |-> FALSE])
Workload(kind, ns, name, replicas, labels, spec) ==
    With(Meta(kind, ns, name),
         [replicas |-> replicas, labels |-> labels, selects |-> TRUE,
          selector |-> labels, spec |-> spec, apis |-> {"apps/v1"}])
NamespaceOf(name, enforced, team) ==
    With(Meta("Namespace", "", name), [pssEnforced |-> enforced, team |-> team])
Secret(ns, name, type, left) ==
    With(Meta("Secret", ns, name), [type |-> type, leaf |-> TRUE, left |-> left])
Ingress(ns, name, tls, backends) ==
    With(Meta("Ingress", ns, name),
         [tls |-> tls, backends |-> backends, apis |-> {"networking.k8s.io/v1"}])
Gateway(ns, name, refs) == With(Meta("Gateway", ns, name), [refs |-> refs])
Ref(kind, ns, name) == Meta(kind, ns, name)
None == [type |-> "none", value |-> 0]
Whole(v) == [type |-> "int", value |-> v]
PDB(ns, name, labels, min, max) ==
    With(Meta("PDB", ns, name),
         [selects |-> TRUE, selector |-> labels, minAvailable |-> min,
          maxUnavailable |-> max, apis |-> {"policy/v1"}])
HPA(ns, name, target) ==
    With(Meta("HPA", ns, name), [target |-> target, apis |-> {"autoscaling/v2"}])
Service(ns, name, labels) ==
    With(Meta("Service", ns, name), [selector |-> labels, labels |-> labels])
Usage(ns, name, cpu, mem) == With(Meta("Usage", ns, name), [cpu |-> cpu, mem |-> mem])
Status(name, waiting, oom, restarts) ==
    [name |-> name, waiting |-> waiting, oomKilled |-> oom, restarts |-> restarts]
Node(name, ready, version, minor, cp) ==
    With(Meta("Node", "", name),
         [ready |-> ready, pressure |-> IF ready THEN {} ELSE {"DiskPressure"},
          unschedulable |-> ~ready, version |-> version, minor |-> minor,
          zone |-> "z", controlPlane |-> cp, tainted |-> FALSE,
          cpu |-> 100, mem |-> 1000])

MCPermanent == {NamespaceOf("a", TRUE, "blue"), NamespaceOf("b", FALSE, ""),
                NamespaceOf("default", FALSE, "blue"),
                NamespaceOf("kube-system", FALSE, "")}

-----------------------------------------------------------------------------
references ==
    {With(Meta("ConfigMap", "a", "cm"), <<>>), Secret("a", "s1", "Opaque", 99),
     Pod("a", "p", {"app"}, [good EXCEPT !.initEnv = {<<"ConfigMap", "cm">>},
        !.volumes = {[type |-> "csi", refs |-> {<<"Secret", "s1">>}]}]),
     Workload("CronJob", "a", "cj", 1, {"job"},
        [PodSpec({[c1 EXCEPT !.env = {<<"Secret", "s1">>}, !.tag = "latest"]})
            EXCEPT !.volumes = {[type |-> "projected", refs |-> {<<"ConfigMap", "cm">>}]}]),
     With(Meta("ServiceAccount", "a", "default"),
          [automount |-> FALSE, secrets |-> {"s1"}]),
     With(Meta("PVC", "a", "data"), [bound |-> FALSE])}

routes ==
    {Ingress("default", "ingress", {"s1"}, {"svc"}), Secret("default", "s1", "tls", 20),
     Gateway("default", "inner", {Ref("", "", "s1"), Ref("Secret", "b", "s2")}),
     Service("default", "svc", {"app"}),
     With(Meta("HTTPRoute", "default", "route"), [refs |-> {Ref("Service", "", "svc")}]),
     Pod("default", "p", {"app"}, PodSpec({c1}))}

certificates ==
    {Secret("a", "s1", "tls", 8), Secret("a", "s1", "tls", 6),
     Secret("a", "s1", "tls", 1), Secret("a", "s1", "tls", -1),
     Ingress("a", "ingress", {"s1"}, {}),
     With(Meta("Certificate", "a", "s1"), [ready |-> FALSE, reason |-> "Issuing"])}

budgets ==
    {Workload("Deployment", "a", "web", 1, {"app"}, PodSpec({c1})),
     Workload("Deployment", "a", "web", 2, {"app"}, PodSpec({c1})),
     Workload("StatefulSet", "a", "db", 3, {"app", "db"}, good),
     PDB("a", "pdb", {"app"}, Whole(3), None), PDB("a", "pdb", {"db"}, Whole(2), None),
     PDB("a", "zero", {"app"}, None, Whole(0)), HPA("a", "hpa", <<"Deployment", "web">>)}

weak == [PodSpec({[c1 EXCEPT !.privileged = TRUE, !.caps = {"NET_RAW"},
                             !.env = {<<"Secret", "s1">>}]})
            EXCEPT !.hostNamespaces = TRUE]
rooted == [good EXCEPT !.containers = {[hardened EXCEPT !.nonRoot = "unset"]},
                       !.user = "root"]
unfiltered == [good EXCEPT !.containers = {[hardened EXCEPT !.seccomp = FALSE]}]

hardening ==
    {Pod("a", "p1", {"app"}, weak), Pod("a", "p2", {"app"}, rooted),
     Pod("b", "p3", {"app"}, unfiltered), NamespaceOf("a", FALSE, "blue"),
     With(Meta("NetworkPolicy", "b", "deny"), [apis |-> {"networking.k8s.io/v1"}]),
     With(Meta("ClusterRole", "", "wild"), [system |-> FALSE, wildcard |-> TRUE])}

grant(sa) == With(Meta("ClusterRoleBinding", "", sa),
    [role |-> "cluster-admin", subjects |-> {[name |-> sa, kubeNamespace |-> FALSE]}])
administrators == {grant(sa) : sa \in {"s1", "s2", "s3", "s4", "s5"}}

constraint(name, match, excluded, violations) ==
    With(Meta("Constraint", "", name), [crd |-> "crd", match |-> match,
         excluded |-> excluded, violations |-> violations])
policies ==
    {With(Meta("CRD", "", "crd"), [gatekeeper |-> TRUE, served |-> TRUE]),
     constraint("k1", {"b"}, {}, 2), constraint("k2", {}, {"a"}, 0),
     With(Meta("PolicyReport", "a", "r"), [fail |-> 2]),
     Meta("ClusterPolicy", "", "cp"), Pod("a", "p", {}, good)}

nodes ==
    {Node("node-1", TRUE, "v1.24", 24, TRUE), Node("node-1", FALSE, "v1.24", 24, TRUE),
     Node("node-2", FALSE, "v1.20", 20, FALSE),
     With(Meta("Version", "", "v"), [minor |-> 24]),
     With(Pod("a", "p", {}, good), [node |-> "node-1"]),
     [Workload("Deployment", "a", "web", 1, {"app"}, good)
        EXCEPT !.apis = {"apps/v1beta1"}]}

imageOf(word) == [good EXCEPT !.containers = {[hardened EXCEPT !.words = {word}]}]
stack ==
    {Pod("kube-system", "prom", {}, imageOf("prometheus")),
     Pod("b", "redis", {"app"}, imageOf("redis")), Service("b", "svc", {"app"}),
     With(Meta("ServiceMonitor", "a", "m"),
        [any |-> FALSE, matchNames |-> {"b"}, matchLabels |-> {"app"}]),
     With(Meta("Application", "a", "app"), [health |-> "Degraded", sync |-> "OutOfSync"]),
     With(Meta("Kustomization", "a", "app"), [ready |-> TRUE])}

sized(cpu, mem) == PodSpec({[c1 EXCEPT !.cpu = cpu, !.mem = mem]})
sizes ==
    {Workload("Deployment", "a", "web", 2, {"app"}, sized(0, 0)),
     Workload("Deployment", "a", "web", 2, {"app"}, sized(2000, 512)),
     Workload("DaemonSet", "a", "agent", 0, {"app"}, sized(2000, 512)),
     Pod("a", "p1", {"app"}, sized(2000, 512)), Pod("a", "p2", {"app"}, good),
     Usage("a", "p1", 905, 80), Usage("a", "p2", 955, 0)}

crashing(name, n, phase) ==
    With(Pod("a", name, {"app"}, PodSpec({c1})),
         [statuses |-> {Status(i, "CrashLoopBackOff", TRUE, 9 + n) : i \in 1..n},
          phase |-> phase])
crashes == {crashing("p1", 1, "Running"), crashing("p1", 2, "Pending"),
            crashing("p2", 1, "Pending"), crashing("p3", 0, "Succeeded"),
            NamespaceOf("a", TRUE, ""), NamespaceOf("a", TRUE, "red")}

MCScenarios == {references, routes, certificates, budgets, hardening,
    administrators, policies, nodes, stack, sizes, crashes}
-----------------------------------------------------------------------------
byDefault ==
    [includeSystem |-> FALSE, only |-> {}, labelled |-> TRUE,
     teamOf |-> [ns \in {"a", "b", "default", "kube-system"} |->
                    IF ns = "b" THEN "red" ELSE ""],
     prometheus |-> [configured |-> TRUE, answers |-> {"cpu", "mem"}],
     rightsizingReport |-> FALSE, cost |-> [cpu |-> 0, gib |-> 0]]

MCOptions ==
    {byDefault,
     [byDefault EXCEPT !.only = {"a"}, !.rightsizingReport = TRUE, !.cost.cpu = 30,
                       !.teamOf["a"] = "red", !.prometheus.answers = {"cpu"}]}

\* BOUND: the cluster does not change while a list is denied or a scan has failed,
\* which records nothing.
QuietWhileDenied == changes > 0 => answered = Kinds /\ ~failed
=============================================================================
