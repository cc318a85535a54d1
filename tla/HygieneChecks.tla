---------------------------- MODULE HygieneChecks ---------------------------
(***************************************************************************)
(* What nothing in a namespace refers to, and what refers to nothing       *)
(* (checks/unused.go and checks/gateway.go).                               *)
(***************************************************************************)
EXTENDS WorkloadChecks

\* The names a Gateway's certificateRefs and an HTTPRoute's backendRefs hold in
\* their own namespace.  A ref is [kind, ns, name], "" for a field left out.
localRefs(o, kind) ==
    {ref.name : ref \in {ref \in o.refs : /\ ref.kind \in {"", kind}
                                          /\ ref.ns \in {"", o.ns}
                                          /\ ref.name # ""}}

gatewayTLSSecretNames(gw) == localRefs(gw, "Secret")

httpRouteServiceBackends(route) == localRefs(route, "Service")

\* What the volumes of a pod spec refer to, of the four types that are looked into.
volumeRefs(spec) ==
    UNION {v.refs : v \in {v \in spec.volumes : v.type \in
              {"configMap", "secret", "persistentVolumeClaim", "projected"}}}

\* A variant with a plausible bug: the init containers forgotten.
specRefsNoInit(spec) ==
    volumeRefs(spec) \cup (UNION {c.env : c \in spec.containers})
      \cup {<<"Secret", n>> : n \in spec.pullSecrets}

\* What a pod spec is seen to refer to.
specRefs(spec) ==
    volumeRefs(spec) \cup spec.initEnv \cup (UNION {c.env : c \in spec.containers})
      \cup {<<"Secret", n>> : n \in spec.pullSecrets}

referencesIn(s, ns) ==
    (UNION {specRefs(o.spec) :
              o \in In(s, "Pod", ns) \cup workloads(s, ns) \cup In(s, "Job", ns)})
      \cup {<<"Secret", n>> : n \in
              UNION ({o.secrets : o \in In(s, "ServiceAccount", ns)}
                \cup {o.tls : o \in In(s, "Ingress", ns)}
                \cup {gatewayTLSSecretNames(o) : o \in In(s, "Gateway", ns)})}

isGeneratedSecret(secret) ==
    secret.type \in {"service-account-token", "helm.sh/release", "bootstrap"}

anyPodMatches(s, ns, selector) ==
    \E p \in In(s, "Pod", ns) : p.phase # "Succeeded" /\ selector \subseteq p.labels

unusedConfigMaps(s, ns) ==
    {o \in In(s, "ConfigMap", ns) :
        /\ o.name # "kube-root-ca.crt"
        /\ <<"ConfigMap", o.name>> \notin referencesIn(s, ns)}

unusedSecrets(s, ns) ==
    {o \in In(s, "Secret", ns) :
        /\ ~isGeneratedSecret(o)
        /\ <<"Secret", o.name>> \notin referencesIn(s, ns)}

\* "from -> to" for every reference of a route to a Service that is missing; no
\* two paths of a route name the same one (the code counts paths).
dangling(s, ns, backendsOf) ==
    UNION {{name \o " -> " \o b : b \in backendsOf[name] \ names(In(s, "Service", ns))}
             : name \in DOMAIN backendsOf}

unusedFindings(s, ns) ==
    LET pvcs == In(s, "PVC", ns)
        unmounted == {o \in pvcs : <<"PVC", o.name>> \notin referencesIn(s, ns)}
        lonely == {o \in In(s, "Service", ns) :
                     /\ o.selector # {}
                     /\ ~anyPodMatches(s, ns, o.selector)}
        targets == {<<w.kind, w.name>> : w \in workloads(s, ns)}
        noTarget == {o \in In(s, "HPA", ns) :
                       /\ o.target[1] \in {"Deployment", "StatefulSet"}
                       /\ o.target \notin targets}
        emptyPDB == {o \in In(s, "PDB", ns) :
                       /\ o.selects
                       /\ ~anyPodMatches(s, ns, o.selector)}
    IN UNION
        {Listed(Info, "unused ConfigMap", names(unusedConfigMaps(s, ns)), 4),
         Listed(Info, "unused Secret", names(unusedSecrets(s, ns)), 4),
         Listed(Info, "PVC not mounted", names(unmounted), 4),
         Listed(Info, "unbound PVC", names({o \in pvcs : ~o.bound}), 4),
         Listed(Info, "Service with no matching Pods", names(lonely), 4),
         Listed(Info, "Ingress path routing to a missing Service",
                dangling(s, ns, [name \in names(In(s, "Ingress", ns)) |->
                    UNION {o.backends : o \in {o \in In(s, "Ingress", ns) : o.name = name}}]),
                4),
         Listed(Info, "HTTPRoute backend routing to a missing Service",
                dangling(s, ns, [name \in names(In(s, "HTTPRoute", ns)) |->
                    UNION {httpRouteServiceBackends(o) :
                        o \in {o \in In(s, "HTTPRoute", ns) : o.name = name}}]),
                4),
         Listed(Info, "HPA targeting a missing workload", names(noTarget), 4),
         Listed(Info, "PodDisruptionBudget selecting no Pods", names(emptyPDB), 4)}
-----------------------------------------------------------------------------
\* Namespaces: the seven per-namespace checks.
namespaceFindings(s, ns) ==
    UNION {resourceFindings(s, ns), healthFindings(s, ns), imageFindings(s, ns),
           probeFindings(s, ns), availabilityFindings(s, ns),
           disruptionFindings(s, ns), unusedFindings(s, ns)}

Namespaces(s, covered) ==
    {[name |-> ns, team |-> "", findings |-> namespaceFindings(s, ns)]
        : ns \in covered}
=============================================================================
