-------------------------------- MODULE Kube --------------------------------
(***************************************************************************)
(* The objects of a cluster, and the snapshot of them that every check     *)
(* reads (kube/snapshot.go).                                               *)
(*                                                                         *)
(* A cluster is a set of objects, each a record with its kind, namespace   *)
(* ("" when it has none) and name.  Of an object only the fields a check   *)
(* reads are kept.  What a pod spec refers to is <<kind, name>> pairs of   *)
(* ConfigMaps, Secrets and PVCs, kept apart by the place it refers from.   *)
(***************************************************************************)
EXTENDS Integers, Sequences, FiniteSets, FiniteSetsExt

CONSTANT Lower(_)   \* a name in lower case, for strings.EqualFold

\* A container: what it requests (0 for unset; CPU in thousandths of a core,
\* memory in MiB), its image (words: the component names it contains), its
\* probes, its security context and what its environment reads.  "unset" is a
\* nil pointer.
Container(name) ==
    [name |-> name, cpu |-> 0, mem |-> 0, memLimit |-> 0,
     words |-> {}, digest |-> FALSE, tag |-> "v1", readiness |-> FALSE, startup |-> FALSE,
     liveness |-> FALSE, privileged |-> FALSE, nonRoot |-> "unset",
     user |-> "unset", caps |-> {}, readOnlyRoot |-> FALSE,
     seccomp |-> FALSE, env |-> {}]

\* A pod spec.  A volume is [type, refs], refs being what it refers to; initEnv is
\* the environment of the init containers.
PodSpec(containers) ==
    [containers |-> containers, initEnv |-> {}, volumes |-> {},
     pullSecrets |-> {}, hostNamespaces |-> FALSE, nonRoot |-> "unset",
     user |-> "unset", seccomp |-> FALSE, automount |-> TRUE,
     serviceAccount |-> "default", spread |-> FALSE]

\* What the API server has validated of the objects it lists, as far as a check
\* relies on it.
IsContainer(c) ==
    DOMAIN c = DOMAIN Container("") /\ {c.cpu, c.mem, c.memLimit} \subseteq Nat

\* The volumes whose driver is given a Secret of the pod's namespace (csi's
\* nodePublishSecretRef, azureFile's secretName, a secretRef of the others).
driverVolumes ==
    {"azureFile", "cephfs", "csi", "flexVolume", "iscsi", "rbd", "scaleIO", "storageos"}

\* The volumes that refer to an object of the pod's namespace.
volumeTypes ==
    driverVolumes \cup {"configMap", "persistentVolumeClaim", "projected", "secret"}

IsPodSpec(spec) ==
    /\ DOMAIN spec = DOMAIN PodSpec({})
    /\ \A v \in spec.volumes : v.type \in volumeTypes
    /\ IsFiniteSet(spec.containers)
    /\ \A c \in spec.containers :
          IsContainer(c) /\ \A d \in spec.containers : c.name = d.name => c = d

\* A budget gives one of its two fields.
IsBudget(b) ==
    LET fields == {b.minAvailable, b.maxUnavailable}
    IN \E given \in fields, other \in fields :
          /\ fields = {given, other}
          /\ given.type \in {"int", "percent"} /\ given.value \in Nat
          /\ other.type = "none"

podKinds == {"Pod", "Deployment", "StatefulSet", "DaemonSet", "Job", "CronJob"}

unscoped == {"Namespace", "Node", "ClusterRole", "ClusterRoleBinding", "ClusterPolicy",
             "CRD", "Constraint", "Version"}

IsRecord(o) == o = [field \in DOMAIN o |-> o[field]]

\* A count of replicas that is left out (a nil pointer), which only a manifest has:
\* the API server makes it 1.
NoReplicas == -1

IsObject(o) ==
    /\ IsRecord(o)
    /\ {"kind", "ns", "name"} \subseteq DOMAIN o
    /\ o.ns = "" <=> o.kind \in unscoped
    /\ "spec" \in DOMAIN o <=> o.kind \in podKinds
    /\ o.kind \in podKinds => "labels" \in DOMAIN o /\ IsPodSpec(o.spec)
    /\ o.kind = "Pod" => IsFiniteSet(o.statuses)
    /\ o.kind \in {"Deployment", "StatefulSet", "DaemonSet"} =>
          {"selects", "selector", "apis"} \subseteq DOMAIN o
    /\ o.kind \in {"Deployment", "StatefulSet"} =>
          "replicas" \in DOMAIN o /\ o.replicas \in Nat \cup {NoReplicas}
    /\ "bound" \in DOMAIN o <=> o.kind = "PVC"
    /\ o.kind = "PDB" => IsBudget(o)
    /\ o.kind = "Secret" => {"type", "leaf", "left"} \subseteq DOMAIN o /\ o.left \in Int
    /\ o.kind = "Ingress" => IsFiniteSet(o.tls) /\ IsFiniteSet(o.backends)
    /\ o.kind \in {"Gateway", "HTTPRoute"} => IsFiniteSet(o.refs)
    /\ o.kind = "ClusterRoleBinding" => IsFiniteSet(o.subjects)
    /\ o.kind = "PolicyReport" => o.fail \in Nat
    /\ o.kind = "Constraint" => o.violations \in Nat
    /\ o.kind = "Usage" => {o.cpu, o.mem} \subseteq Nat

All(s, kind) == {o \in s.objects : o.kind = kind}

In(s, kind, ns) == {o \in s.objects : o.kind = kind /\ o.ns = ns}

names(objects) == {o.name : o \in objects}

\* The containers of what carries a pod spec, and what they request in all.
containersOf(objects) ==
    UNION {{[of |-> o, c |-> c] : c \in o.spec.containers} : o \in objects}

cpuOf(objects) == SumFunction([x \in containersOf(objects) |-> x.c.cpu])

memOf(objects) == SumFunction([x \in containersOf(objects) |-> x.c.mem])

\* A label selector with its labels: an empty one selects everything, a nil
\* one (selects = FALSE) nothing.
Selects(o, labels) == o.selects /\ o.selector \subseteq labels

\* forEachWorkloadPodSpec: what carries a pod template, Jobs excepted.
workloads(s, ns) ==
    UNION {In(s, kind, ns) :
            kind \in {"Deployment", "StatefulSet", "DaemonSet", "CronJob"}}
-----------------------------------------------------------------------------
SystemNamespaces ==
    {"kube-system", "kube-public", "kube-node-lease", "local-path-storage"}

filterNamespaces(all, only) ==
    IF only = {} THEN all
    ELSE {ns \in all : \E o \in only : Lower(ns.name) = Lower(o)}

\* The namespaces the per-namespace checks cover.
AppNamespaces(s, includeSystem, only) ==
    {ns \in names(All(s, "Namespace")) :
        IF only # {} THEN ns \in only
        ELSE includeSystem \/ ns \notin SystemNamespaces}

\* The minor version the API server tells, 0 when it does not.
clusterMinor(s) == Max({0} \cup {o.minor : o \in All(s, "Version")})

Core == {"Namespace", "Pod", "Deployment"}

\* The kinds Collect lists; "Version" is the version of the API server.
listedKinds == Core \cup
    {"Node", "StatefulSet", "DaemonSet", "Job", "CronJob", "HPA", "PDB", "Service",
     "Ingress", "NetworkPolicy", "ConfigMap", "Secret", "PVC", "ServiceAccount",
     "ClusterRole", "ClusterRoleBinding", "ServiceMonitor", "PrometheusRule",
     "Application", "Kustomization", "HelmRelease", "Certificate", "Gateway",
     "HTTPRoute", "PolicyReport", "Policy", "ClusterPolicy", "CRD", "Constraint",
     "Version"}

\* Constraints are listed kind by kind, for the CRDs of Gatekeeper's group that
\* have a served version.
gatekeeperConstraints(objects, answered) ==
    LET kinds == {o \in objects : o.kind = "CRD" /\ o.gatekeeper}
    IN IF ~({"CRD", "Constraint"} \subseteq answered) THEN {}
       ELSE {o \in objects : /\ o.kind = "Constraint"
                             /\ \E crd \in kinds : crd.served /\ crd.name = o.crd}

\* Collect may be taken when the lists of the core kinds are answered, and an
\* optional list that is not answered reads as empty.  answered holds the
\* kinds the API server lists for the caller: of a custom resource, the kinds
\* whose CRD is installed and that RBAC lets the caller read.
CanCollect(answered) == Core \subseteq answered

\* A variant with a plausible bug: an empty list taken for one that was answered.
assumedSecretAccess(answered) == TRUE

hasSecretAccess(answered) == "Secret" \in answered

\* What `cluster add` lets the hub read on a remote cluster, by API group.  Pod
\* monitors, which no check reads, are left out; the version needs no rule.
ruleGroups ==
    [core |-> {"Namespace", "Node", "Pod", "Service", "ConfigMap", "Secret", "PVC",
               "ServiceAccount"},
     apps |-> {"Deployment", "StatefulSet", "DaemonSet"},
     batch |-> {"Job", "CronJob"},
     autoscaling |-> {"HPA"},
     policy |-> {"PDB"},
     networking |-> {"Ingress", "NetworkPolicy"},
     rbac |-> {"ClusterRole", "ClusterRoleBinding"},
     monitoring |-> {"ServiceMonitor", "PrometheusRule"},
     argoproj |-> {"Application"},
     fluxcd |-> {"Kustomization", "HelmRelease"},
     certManager |-> {"Certificate"},
     gateway |-> {"Gateway", "HTTPRoute"},
     apiextensions |-> {"CRD"},
     wgpolicy |-> {"PolicyReport"},
     kyverno |-> {"Policy", "ClusterPolicy"},
     gatekeeper |-> {"Constraint"}]

\* A variant with a plausible bug: the rules of a version that read no gateways.
rulesWithoutGateways ==
    UNION {ruleGroups[group] : group \in DOMAIN ruleGroups \ {"gateway"}}

readOnlyRules == UNION {ruleGroups[group] : group \in DOMAIN ruleGroups}

\* Of a Secret's data only the certificate of a TLS Secret is kept.
stripped(o) ==
    IF o.kind = "Secret" THEN [o EXCEPT !.leaf = @ /\ o.type = "tls"] ELSE o

Collect(objects, answered, only) ==
    LET listed == {stripped(o) : o \in
            {o \in objects : /\ o.kind \in answered
                             /\ o.kind \notin {"Namespace", "CRD", "Constraint"}}}
        namespaces == {o \in objects : o.kind = "Namespace"}
    IN [objects |-> listed \cup filterNamespaces(namespaces, only)
                      \cup gatekeeperConstraints(objects, answered),
        HasSecretAccess |-> hasSecretAccess(answered),
        HasServiceMonitorCRD |-> "ServiceMonitor" \in answered,
        HasArgoCD |-> "Application" \in answered,
        HasFlux |-> {"Kustomization", "HelmRelease"} \cap answered # {},
        HasCertManager |-> "Certificate" \in answered,
        HasGatewayAPI |-> {"Gateway", "HTTPRoute"} \cap answered # {},
        HasKyverno |->
            {"PolicyReport", "Policy", "ClusterPolicy"} \cap answered # {},
        HasGatekeeper |->
            /\ "CRD" \in answered
            /\ \E o \in objects : o.kind = "CRD" /\ o.gatekeeper]
=============================================================================
