--------------------------- MODULE PlatformChecks ---------------------------
(***************************************************************************)
(* The sections about the cluster rather than its workloads: nodes, TLS    *)
(* certificates, deprecated API versions, monitoring and GitOps            *)
(* (checks/nodes.go, certificates.go, deprecations.go, monitoring.go and   *)
(* gitops.go).                                                             *)
(***************************************************************************)
EXTENDS SecurityChecks

nodeConditionFindings(nodes) ==
    Listed(Critical, "nodes NotReady", names({n \in nodes : ~n.ready}), 4)
      \cup
    (UNION {Listed(Warning, "nodes under " \o condition,
                   names({n \in nodes : condition \in n.pressure}), 4) :
               condition \in {"MemoryPressure", "DiskPressure", "PIDPressure"}})
      \cup
    Listed(Warning, "nodes cordoned", names({n \in nodes : n.unschedulable}), 4)

\* How many minor versions a kubelet may trail the control plane.
kubeletSkewLimit == 2

\* A minor version of 0 is one that could not be read.
nodeVersionFindings(nodes, minor) ==
    LET behind == {n \in nodes : /\ minor > 0 /\ n.minor > 0
                                 /\ minor - n.minor > kubeletSkewLimit}
        versions == {n.version : n \in nodes}
    IN Listed(Warning, "kubelets behind the control plane",
              {n.name \o " (" \o n.version \o ")" : n \in behind}, 4)
         \cup
       (IF Cardinality(versions) > 1
        THEN {Named(Info, "Mixed kubelet versions", 0, versions, 4)} ELSE {})

nodeTopologyFindings(nodes) ==
    LET zones == {n.zone : n \in nodes}
        untainted == {n \in nodes : n.controlPlane /\ ~n.tainted}
    IN (IF Cardinality(nodes) >= 2 /\ Cardinality(zones) = 1 /\ "" \notin zones
        THEN {Named(Info, "All nodes are in a single zone", 0, zones, 1)} ELSE {})
         \cup
       (IF \E n \in nodes : ~n.controlPlane
        THEN Listed(Info, "control-plane nodes without a taint", names(untainted), 4)
        ELSE {})

\* capacityThreshold is 90%: a node is full above it, for either resource.
nodeCapacityFindings(nodes, pods) ==
    LET on(n) == {p \in pods : p.node = n.name
                               /\ p.phase \notin {"Succeeded", "Failed"}}
        full(requested, allocatable) ==
            allocatable > 0 /\ 10 * requested > 9 * allocatable
        reasons(n) ==
            (IF full(cpuOf(on(n)), n.cpu) THEN " cpu" ELSE "") \o
            (IF full(memOf(on(n)), n.mem) THEN " memory" ELSE "")
    IN Listed(Warning, "nodes near allocatable limits",
              {n.name \o reasons(n) : n \in {n \in nodes : reasons(n) # ""}}, 4)

Nodes(s) ==
    LET nodes == All(s, "Node")
    IN UNION {nodeConditionFindings(nodes),
              nodeVersionFindings(nodes, clusterMinor(s)),
              nodeTopologyFindings(nodes),
              nodeCapacityFindings(nodes, All(s, "Pod"))}
-----------------------------------------------------------------------------
\* A variant with a plausible bug: the days since the expiry are negative.
expiryFindingSigned(secret) ==
    IF secret.left > 0 THEN {}
    ELSE {Finding(Critical, "expired", secret.left, {}, 0, <<"secret">>, {})}

\* What is left of a certificate's life, in days: "expires" is one text for
\* two severities.
expiryFinding(secret) ==
    LET key == <<"secret", secret.ns, secret.name>>
    IN CASE secret.left <= 0 -> {About(Critical, "expired", key)}
         [] secret.left > 0 /\ secret.left < 7 ->
              {Finding(Critical, "expires", secret.left, {}, 0, key, {})}
         [] secret.left >= 7 /\ secret.left < 30 ->
              {Finding(Warning, "expires", secret.left, {}, 0, key, {})}
         [] secret.left >= 30 -> {}

tlsNames(o) ==
    (IF o.kind = "Ingress" THEN o.tls ELSE gatewayTLSSecretNames(o)) \ {""}

\* The first to refer to a TLS Secret, an Ingress before any Gateway.
firstReference(users) ==
    LET ingresses == {o \in users : o.kind = "Ingress"}
        candidates == IF ingresses # {} THEN ingresses ELSE users
    IN CHOOSE o \in candidates : \A u \in candidates : Rank(o.name) <= Rank(u.name)

missingTLSFinding(o, secretName) ==
    Finding(Warning, o.kind \o " references missing TLS secret", 0,
            {o.ns \o "/" \o o.name, secretName}, 0, <<o.kind, o.name>>, {})

\* Every TLS Secret that is referred to is reported once at most.
tlsFindings(s, covered) ==
    LET users == {o \in All(s, "Ingress") \cup All(s, "Gateway") : o.ns \in covered}
        keys == UNION {{<<o.ns, n>> : n \in tlsNames(o)} : o \in users}
        of(key) == {o \in In(s, "Secret", key[1]) : o.name = key[2]}
        usersOf(key) == {o \in users : o.ns = key[1] /\ key[2] \in tlsNames(o)}
        about(key) ==
            CASE of(key) = {} /\ s.HasSecretAccess ->
                    {missingTLSFinding(firstReference(usersOf(key)), key[2])}
              [] of(key) = {} /\ ~s.HasSecretAccess -> {}
              [] of(key) # {} ->
                    UNION {expiryFinding(o) : o \in {o \in of(key) : o.leaf}}
    IN UNION {about(key) : key \in keys}

\* reason: why a cert-manager Certificate is not Ready, if it tells.
Certificates(s, covered) ==
    tlsFindings(s, covered) \cup
    {Finding(Warning, "Certificate is not Ready", 0,
             {o.ns \o "/" \o o.name} \cup ({o.reason} \ {""}), 0,
             <<"certificate", o.name>>, {}) :
        o \in {o \in All(s, "Certificate") : o.ns \in covered /\ ~o.ready}}
-----------------------------------------------------------------------------
\* The minor versions an API was deprecated and removed in, for the kinds it had.
deprecation(api, kinds, deprecatedIn, removedIn) ==
    {[api |-> api, kind |-> k, deprecatedIn |-> deprecatedIn,
      removedIn |-> removedIn] : k \in kinds}

deprecatedAPIs == UNION
   {deprecation("extensions/v1beta1", {"Deployment", "DaemonSet", "NetworkPolicy"}, 9, 16),
    deprecation("apps/v1beta1", {"Deployment", "StatefulSet"}, 9, 16),
    deprecation("apps/v1beta2", {"Deployment", "StatefulSet", "DaemonSet"}, 9, 16),
    deprecation("extensions/v1beta1", {"Ingress"}, 14, 22),
    deprecation("networking.k8s.io/v1beta1", {"Ingress"}, 19, 22),
    deprecation("batch/v2alpha1", {"CronJob"}, 8, 21),
    deprecation("batch/v1beta1", {"CronJob"}, 21, 25),
    deprecation("policy/v1beta1", {"PDB"}, 21, 25),
    deprecation("autoscaling/v2beta1", {"HPA"}, 22, 25),
    deprecation("autoscaling/v2beta2", {"HPA"}, 23, 26)}

\* On a cluster whose version is not known (0) everything is a warning.
removalStatus(d, minor) ==
    CASE minor > 0 /\ d.removedIn <= minor -> "removed since"
      [] minor > 0 /\ d.removedIn = minor + 1 -> "removed in"
      [] minor = 0 \/ d.removedIn > minor + 1 -> "deprecated since"

Deprecations(s, covered) ==
    LET minor == clusterMinor(s)
        writtenWith(d) == {o \in All(s, d.kind) : o.ns \in covered /\ d.api \in o.apis}
        severity(d) == IF removalStatus(d, minor) = "deprecated since"
                       THEN Warning ELSE Critical
    IN UNION {Listed(severity(d),
                     d.kind \o " written with " \o d.api \o " " \o removalStatus(d, minor),
                     {o.ns \o "/" \o o.name : o \in writtenWith(d)}, 4) :
                 d \in {d \in deprecatedAPIs : minor = 0 \/ d.deprecatedIn <= minor}}
-----------------------------------------------------------------------------
hasPodWithImage(s, word) ==
    \E p \in All(s, "Pod") : \E c \in p.spec.containers : word \in c.words

\* A ServiceMonitor without labels to match is taken to match everything.
serviceMonitorMatches(m, svc) ==
    /\ m.ns = svc.ns \/ m.any \/ svc.ns \in m.matchNames
    /\ m.matchLabels \subseteq svc.labels

unscrapedServices(s, covered) ==
    {o \in All(s, "Service") :
        /\ o.ns \in covered
        /\ o.name # "kubernetes"
        /\ o.selector # {}
        /\ ~\E m \in All(s, "ServiceMonitor") : serviceMonitorMatches(m, o)}

statefulComponents == {"redis", "postgres", "mysql", "mariadb", "mongo",
    "kafka", "rabbitmq", "elasticsearch", "memcached"}

componentsWithoutAlerts(s, covered) ==
    LET running == UNION {UNION {c.words : c \in p.spec.containers} :
                            p \in {p \in All(s, "Pod") : p.ns \in covered}}
    IN (statefulComponents \cap running)
         \ UNION {r.words : r \in All(s, "PrometheusRule")}

Monitoring(s, covered) ==
    LET missing == componentsWithoutAlerts(s, covered)
    IN IF ~hasPodWithImage(s, "prometheus")
       THEN {Plain(Warning, "No Prometheus installation detected")}
       ELSE UNION
        {IF hasPodWithImage(s, "alertmanager") THEN {}
         ELSE {Plain(Warning, "Prometheus found but no Alertmanager detected")},
         IF s.HasServiceMonitorCRD
         THEN Listed(Info, "Services not scraped by Prometheus",
                     {o.ns \o "/" \o o.name : o \in unscrapedServices(s, covered)}, 4)
         ELSE {Plain(Info, "ServiceMonitor CRD not installed")},
         IF missing = {} THEN {}
         ELSE {Finding(Warning, "Missing alerts", 0, missing, 0, <<>>, {})}}
-----------------------------------------------------------------------------
argoFindings(apps) ==
    LET degraded == {a \in apps : a.health \notin {"", "Healthy"}}
        outOfSync == {a \in apps : a.sync = "OutOfSync"}
    IN Listed(Warning, "unhealthy Argo CD Applications",
              {a.ns \o "/" \o a.name \o " (" \o a.health \o ")" : a \in degraded}, 4)
         \cup
       Listed(Warning, "Argo CD Applications OutOfSync",
              {a.ns \o "/" \o a.name : a \in outOfSync}, 4)
         \cup
       (IF degraded \cup outOfSync = {}
        THEN {Plain(Ok, "All Argo CD Applications are Healthy")} ELSE {})

fluxFindings(resources) ==
    LET notReady == {r \in resources : ~r.ready}
    IN IF notReady = {} THEN {Plain(Ok, "All Flux resources are Ready")}
       ELSE Listed(Warning, "Flux resources not Ready",
                   {r.kind \o " " \o r.ns \o "/" \o r.name : r \in notReady}, 4)

GitOps(s) ==
    IF ~s.HasArgoCD /\ ~s.HasFlux THEN {Plain(Info, "No GitOps tooling detected")}
    ELSE (IF s.HasArgoCD THEN argoFindings(All(s, "Application")) ELSE {})
           \cup
         (IF s.HasFlux
          THEN fluxFindings(All(s, "Kustomization") \cup All(s, "HelmRelease"))
          ELSE {})
=============================================================================
