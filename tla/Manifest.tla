------------------------------ MODULE Manifest ------------------------------
(***************************************************************************)
(* A snapshot made of manifests instead of a cluster (manifest/load.go).   *)
(*                                                                         *)
(* A document is an object as Kube has it, whose namespace may be left out *)
(* (""), or [kind |-> "List", items |-> documents], or one of another kind *)
(* than the checks know, which is skipped.                                 *)
(***************************************************************************)
EXTENDS Kube

clusterScoped == {"Namespace", "ClusterRole", "ClusterRoleBinding"}

knownKinds == {"Namespace", "Pod", "Deployment", "StatefulSet", "DaemonSet",
    "Job", "CronJob", "HPA", "PDB", "Service", "Ingress", "NetworkPolicy",
    "ConfigMap", "Secret", "PVC", "ServiceAccount", "ClusterRole",
    "ClusterRoleBinding", "Gateway", "HTTPRoute"}

\* The documents, and what the Lists among them hold.
opened(documents) ==
    documents \cup UNION {d.items : d \in {d \in documents : d.kind = "List"}}

\* add: the objects of the documents, those in Lists included.  BOUND: a List is
\* in a List at most, and in no further one.
add(documents) ==
    {d \in opened(opened(documents)) : d.kind \in knownKinds}

placed(o) ==
    IF o.ns = "" /\ o.kind \notin clusterScoped THEN [o EXCEPT !.ns = "default"] ELSE o

\* The Pod a workload's template stands for: it has no status.
templatePod(w) ==
    [kind |-> "Pod", ns |-> w.ns, name |-> w.name \o "-template",
     labels |-> w.labels, spec |-> w.spec, phase |-> "", statuses |-> {},
     node |-> "", deleting |-> FALSE]

\* A variant with a plausible bug: CronJobs nest their template, and are missed.
synthesizePodsWithoutCronJobs(objects) ==
    {templatePod(w) : w \in {w \in objects :
        w.kind \in {"Deployment", "StatefulSet", "DaemonSet", "Job"}}}

synthesizePods(objects) ==
    {templatePod(w) : w \in {w \in objects :
        w.kind \in {"Deployment", "StatefulSet", "DaemonSet", "Job", "CronJob"}}}

\* The namespaces to analyze: those declared, and those objects are placed in.
loadedNamespaces(objects) ==
    names({o \in objects : o.kind = "Namespace"})
      \cup {o.ns : o \in {o \in objects : o.kind \notin clusterScoped}}

\* Whether Secrets can be read is never said of manifests.
Load(documents) ==
    LET objects == {placed(o) : o \in add(documents)}
    IN [snapshot |->
          [objects |-> objects \cup synthesizePods(objects),
           HasSecretAccess |-> FALSE, HasServiceMonitorCRD |-> FALSE,
           HasArgoCD |-> FALSE, HasFlux |-> FALSE, HasCertManager |-> FALSE,
           HasGatewayAPI |->
               \E o \in objects : o.kind \in {"Gateway", "HTTPRoute"},
           HasKyverno |-> FALSE, HasGatekeeper |-> FALSE],
        namespaces |-> loadedNamespaces(objects)]
=============================================================================
