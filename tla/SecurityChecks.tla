--------------------------- MODULE SecurityChecks ---------------------------
(***************************************************************************)
(* The cluster-wide security checks, the compliance summary over them, and *)
(* the state of the policy engines (checks/security.go,                    *)
(* checks/compliance.go and checks/policy.go).                             *)
(***************************************************************************)
EXTENDS HygieneChecks

\* The Pod Security Standards controls: <<profile, control>>.
ctrlPrivileged     == <<"baseline", "privileged">>
ctrlHostNamespaces == <<"baseline", "host-namespaces">>
ctrlCapabilities   == <<"baseline", "capabilities">>
ctrlRunAsNonRoot   == <<"restricted", "run-as-nonroot">>
ctrlSeccomp        == <<"restricted", "seccomp">>

pssControls == {ctrlPrivileged, ctrlHostNamespaces, ctrlCapabilities,
                ctrlRunAsNonRoot, ctrlSeccomp}

failingControls(findings) ==
    UNION {f.controls : f \in {f \in findings : f.severity >= Warning}}

\* A variant with a plausible bug: tagged with the controls that fail alone.
complianceSummaryOfFailed(findings) ==
    LET failed == pssControls \cap failingControls(findings)
    IN Finding(IF failed = {} THEN Ok ELSE Info, "Pod Security Standards", 0,
               {c[2] : c \in failed}, 0, <<>>, failed)

\* The summary carries every control, so that it survives --framework.
complianceSummary(findings) ==
    LET failed == pssControls \cap failingControls(findings)
    IN Finding(IF failed = {} THEN Ok ELSE Info, "Pod Security Standards", 0,
               {c[2] : c \in failed}, 0, <<>>, pssControls)
-----------------------------------------------------------------------------
\* Container settings first, then those of the pod; without any, the image
\* decides, which is taken for root.
runsAsRoot(spec, c) ==
    CASE c.nonRoot = "true" -> FALSE
      [] c.nonRoot # "true" /\ c.user # "unset" -> c.user = "root"
      [] c.nonRoot # "true" /\ c.user = "unset" ->
            spec.nonRoot # "true" /\ spec.user \in {"unset", "root"}

dangerousCapabilities == {"SYS_ADMIN", "NET_ADMIN", "SYS_PTRACE", "SYS_MODULE",
                          "DAC_READ_SEARCH", "NET_RAW", "BPF"}

usesSecretEnv(c) == \E ref \in c.env : ref[1] = "Secret"

analyzedPods(s, covered) ==
    {p \in All(s, "Pod") : p.ns \in covered /\ p.phase # "Succeeded"}

namespaceHasPods(s, ns) == In(s, "Pod", ns) # {}

podSecurityFindings(s, covered) ==
    LET pods == analyzedPods(s, covered)
        all == containersOf(pods)
    IN UNION
        {Tagged(Warning, "containers running as root",
            Cardinality({x \in all : runsAsRoot(x.of.spec, x.c)}), {ctrlRunAsNonRoot}),
         Tagged(Critical, "privileged containers",
            Cardinality({x \in all : x.c.privileged}), {ctrlPrivileged}),
         Tagged(Warning, "containers with dangerous capabilities",
            Cardinality({x \in all : x.c.caps \cap dangerousCapabilities # {}}),
            {ctrlCapabilities}),
         Tagged(Warning, "Pods using host network/PID/IPC",
            Cardinality({p \in pods : p.spec.hostNamespaces}),
            {ctrlHostNamespaces})}

networkPolicyFindings(s, covered) ==
    Listed(Warning, "namespaces without NetworkPolicies",
           {ns \in covered : In(s, "NetworkPolicy", ns) = {} /\ namespaceHasPods(s, ns)},
           4)

pssLabelFindings(s, covered) ==
    Listed(Warning, "namespaces without Pod Security Standards enforcement",
           {o.name : o \in {o \in All(s, "Namespace") :
                              o.name \in covered /\ ~o.pssEnforced}}, 4)

hardeningFindings(s, covered) ==
    LET pods == analyzedPods(s, covered)
        noAutomountSA == {<<o.ns, o.name>> : o \in
            {o \in All(s, "ServiceAccount") : ~o.automount}}
    IN UNION
        {Tagged(Warning, "Pods without a seccomp profile",
            Cardinality({p \in pods : /\ ~p.spec.seccomp
                                      /\ \E c \in p.spec.containers : ~c.seccomp}),
            {ctrlSeccomp}),
         Counted(Info, "containers without readOnlyRootFilesystem",
            Cardinality({x \in containersOf(pods) : ~x.c.readOnlyRoot})),
         Counted(Info, "Pods automounting ServiceAccount tokens",
            Cardinality({p \in pods :
                /\ p.spec.automount
                /\ <<p.ns, p.spec.serviceAccount>> \notin noAutomountSA})),
         Counted(Info, "containers receiving Secrets via environment",
            Cardinality({x \in containersOf(pods) : usesSecretEnv(x.c)}))}

\* A ServiceAccount that two bindings grant the role to is counted twice.
rbacFindings(s) ==
    LET wildcard == {r \in All(s, "ClusterRole") :
            /\ r.wildcard
            /\ ~r.system
            /\ r.name \notin {"cluster-admin", "admin", "edit", "view"}}
        admin == {b \in All(s, "ClusterRoleBinding") :
                    b.role = "cluster-admin" \/ b.role \in names(wildcard)}
        grants == UNION {{<<b.name, sub>> : sub \in
                     {sub \in b.subjects : ~sub.kubeNamespace}} : b \in admin}
    IN Listed(Warning, "ClusterRoles with wildcard rules", names(wildcard), 3)
         \cup
       (IF grants = {} THEN {}
        ELSE {Named(Critical, "ServiceAccounts bound to cluster-admin",
                    Cardinality(grants), {g[2].name : g \in grants}, 3)})

Security(s, covered) ==
    LET found == UNION
        {podSecurityFindings(s, covered), networkPolicyFindings(s, covered),
         hardeningFindings(s, covered), pssLabelFindings(s, covered),
         rbacFindings(s)}
    IN found \cup {complianceSummary(found)}
-----------------------------------------------------------------------------
kyvernoFindings(s, covered) ==
    LET failing == {r \in All(s, "PolicyReport") : r.ns \in covered /\ r.fail > 0}
        total == SumFunction([r \in failing |-> r.fail])
        where == {r.ns : r \in failing}
        policies == Cardinality(All(s, "Policy") \cup All(s, "ClusterPolicy"))
    IN CASE total > 0 ->
              {Named(Warning, IF Cardinality(where) = 1
                              THEN "Kyverno policy violations across a namespace"
                              ELSE "Kyverno policy violations across namespaces",
                     total, where, 4)}
         [] total = 0 /\ policies = 0 ->
              {Plain(Info, "Kyverno is installed but no policies are defined")}
         [] total = 0 /\ policies > 0 ->
              Counted(Ok, "Kyverno policies, no violations", policies)

gatekeeperFindings(s) ==
    LET constraints == All(s, "Constraint")
        violated == {c \in constraints : c.violations > 0}
        total == SumFunction([c \in violated |-> c.violations])
    IN CASE total > 0 ->
              {Named(Warning, "Gatekeeper constraint violations", total,
                     names(violated), 3)}
         [] total = 0 /\ constraints = {} ->
              {Plain(Info, "Gatekeeper is installed but no constraints are defined")}
         [] total = 0 /\ constraints # {} ->
              Counted(Ok, "Gatekeeper constraints report no violations",
                      Cardinality(constraints))

\* A constraint covers the namespaces it lists or, without a list, all but
\* those it excludes.
covers(c, ns) ==
    IF c.match # {} THEN ns \in c.match ELSE ns \notin c.excluded

policyCoverageFindings(s, covered) ==
    LET guarded(ns) ==
            \/ In(s, "PolicyReport", ns) \cup In(s, "Policy", ns) # {}
            \/ \E c \in All(s, "Constraint") : covers(c, ns)
    IN IF All(s, "ClusterPolicy") # {} THEN {}
       ELSE Listed(Warning, "namespaces not covered by any admission policy",
                   {ns \in covered : ~guarded(ns) /\ namespaceHasPods(s, ns)}, 4)

Policy(s, covered) ==
    IF ~s.HasKyverno /\ ~s.HasGatekeeper THEN {}
    ELSE UNION {IF s.HasKyverno THEN kyvernoFindings(s, covered) ELSE {},
                IF s.HasGatekeeper THEN gatekeeperFindings(s) ELSE {},
                policyCoverageFindings(s, covered)}
=============================================================================
