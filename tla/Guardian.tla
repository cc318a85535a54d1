------------------------------ MODULE Guardian ------------------------------
(***************************************************************************)
(* One cluster watched over time: its objects change, the lists RBAC       *)
(* grants change, every scan collects a snapshot, analyzes it, compares    *)
(* the report with the one before and posts what is new (analyzer.Run      *)
(* behind Server.report, and the sinks of package notify).                 *)
(*                                                                         *)
(* The analysis itself is a function of the snapshot: the state machine is *)
(* what drives it through pairs of snapshots.                              *)
(***************************************************************************)
EXTENDS Analyzer

CONSTANTS
    Scenarios,   \* sets of objects a cluster may hold some of
    Permanent,   \* objects every cluster holds
    Options,     \* the options a hub can be started with
    OwningTeams, \* the teams with a webhook of their own
    MinSeverity, \* --notify-min-severity
    Kinds,       \* what the API server can list
    Deniable,    \* core kinds whose list may be denied
    MaxChanges   \* BOUND: changes of the cluster between two recorded runs

identity(o) == <<o.kind, o.ns, o.name>>

inNamespace(o, world) ==
    o.ns # "" => \E p \in world : p.kind = "Namespace" /\ p.name = o.ns

\* A cluster's objects are what the API server admits, each of a kind it serves.
ASSUME ObjectsAssumption ==
    /\ \A world \in Scenarios \cup {Permanent} :
          /\ IsFiniteSet(world)
          /\ \A o \in world :
                /\ IsObject(o)
                /\ o.kind \in Kinds \cup {"Usage"}
                /\ o.kind \in {"Deployment", "StatefulSet"} => o.replicas # NoReplicas
                /\ Rank(o.name) \in Nat
    /\ \A o, p \in Permanent : identity(o) = identity(p) => o = p
    /\ \A o \in Permanent : inNamespace(o, Permanent)

ASSUME KindsAssumption ==
    Deniable \subseteq Core /\ Core \subseteq Kinds /\ Kinds \subseteq listedKinds

\* Teams and severities are those the flags accept; "" is no team's name.
ASSUME OptionsAssumption ==
    /\ \A o \in Options : /\ {"only", "includeSystem", "cost"} \subseteq DOMAIN o
                          /\ o.cost.cpu \in Nat /\ o.cost.gib \in Nat
    /\ MinSeverity \in Info..Critical
    /\ "" \notin OwningTeams

ASSUME BoundAssumption == MaxChanges \in Nat

VARIABLES
    scenario,   \* what the cluster is made of: never changes
    opts,       \* the hub's options: never change
    objects,    \* the cluster
    answered,   \* the kinds the API server lists for the hub
    failed,     \* the last scan failed
    changes,    \* BOUND: changes since the last recorded run
    window,     \* the reports of the last two runs
    inbox       \* what the last recorded run posted to each webhook

vars == <<scenario, opts, objects, answered, failed, changes, window, inbox>>

Nobody == [global |-> {}, teams |-> [team \in OwningTeams |-> {}]]

\* Prometheus' samples: they are not listed from the API server.
usage == {o \in objects : o.kind = "Usage"}

snapshot == Collect(objects, answered, opts.only)

Init ==
    /\ scenario \in Scenarios
    /\ opts \in Options
    /\ objects = Permanent
    /\ answered = Kinds
    /\ failed = FALSE
    /\ changes = 0
    /\ window = <<>>
    /\ inbox = Nobody

\* An object is created in a namespace there is, or replaced by another version.
Put(o) ==
    /\ o \notin objects
    /\ inNamespace(o, objects)
    /\ objects' = {p \in objects : identity(p) # identity(o)} \cup {o}

\* A namespace goes after what it holds.
Delete(o) ==
    /\ o \in objects
    /\ o.kind = "Namespace" => \A p \in objects : p.ns # o.name
    /\ objects' = objects \ {o}

Change ==
    /\ changes < MaxChanges
    /\ changes' = changes + 1
    /\ \E o \in scenario : Put(o) \/ Delete(o)
    /\ UNCHANGED <<scenario, opts, answered, failed, window, inbox>>

\* RBAC of the hub's account is edited.
Deny(kind) ==
    /\ answered' = IF kind \in answered THEN answered \ {kind}
                                        ELSE answered \cup {kind}
    /\ UNCHANGED <<scenario, opts, objects, failed, changes, window, inbox>>

\* What each webhook is posted for a run: nothing for the first, which has
\* nothing to be compared with.
deliveries(runs) ==
    LET new == IF Len(runs) < 2 THEN {} ELSE Diff(runs[1], runs[2]).new
    IN [global |-> posted(new, MinSeverity),
        teams |-> [team \in OwningTeams |->
                     posted(routed(new, team), MinSeverity)]]

Scan ==
    /\ CanCollect(answered)
    /\ \E r \in {Analyze(snapshot, usage, opts)} :
          window' = Append(IF Len(window) < 2 THEN window ELSE Tail(window), r)
    /\ inbox' = deliveries(window')
    /\ failed' = FALSE
    /\ changes' = 0
    /\ UNCHANGED <<scenario, opts, objects, answered>>

\* A core list is denied: nothing is recorded and nothing is posted.
ScanFails ==
    /\ ~CanCollect(answered)
    /\ failed' = TRUE
    /\ UNCHANGED <<scenario, opts, objects, answered, changes, window, inbox>>

Next == Change \/ (\E kind \in Deniable : Deny(kind)) \/ Scan \/ ScanFails

Spec == Init /\ [][Next]_vars
-----------------------------------------------------------------------------
(***************************************************************************)
(* Properties.  They are about the last run, and looked at right after it. *)
(***************************************************************************)
Ids == {"security", "policy", "nodes", "monitoring", "certificates",
        "deprecations", "gitops", "optimization", "rightsizing", ""}

IsReport(r) ==
    /\ DOMAIN r.sections \subseteq Ids
    /\ \A l \in located(r) :
          /\ DOMAIN l.finding = DOMAIN Plain(Ok, "")
          /\ l.finding.severity \in Ok..Critical
          /\ l.finding.n \in Nat
          /\ l.finding.controls \subseteq pssControls
    /\ r.summary \in [Ok..Critical -> Nat]

\* Every part of the state has its type.
TypeOK ==
    /\ scenario \in Scenarios
    /\ opts \in Options
    /\ objects \subseteq Permanent \cup scenario
    /\ answered \subseteq Kinds
    /\ failed \in BOOLEAN
    /\ changes \in 0..MaxChanges
    /\ Len(window) <= 2
    /\ \A i \in DOMAIN window : IsReport(window[i])
    /\ DOMAIN inbox.teams = OwningTeams

JustScanned == ~failed /\ changes = 0 /\ window # <<>> /\ CanCollect(answered)

report == window[Len(window)]

\* A finding whose count alone changed, and stayed a plural, is not new (the
\* comment of report.findingKey: count changes are not "new + resolved").
CountsStaySilent ==
    JustScanned /\ Len(window) = 2 =>
        \A l \in Diff(window[1], report).new, old \in located(window[1]) :
            ~ /\ old.at = l.at
              /\ old.finding.severity # Ok
              /\ [old.finding EXCEPT !.n = 2, !.severity = 0] =
                 [l.finding EXCEPT !.n = 2, !.severity = 0]
              /\ old.finding.n >= 2 /\ l.finding.n >= 2

\* A hub that may not list Secrets or Nodes reports no finding that one that may
\* would not report (Collect's comment: such failures degrade gracefully).
DeniedListsOnlyHide ==
    JustScanned =>
        \A kind \in {"Secret", "Node"} :
            LET fewer == Collect(objects, answered \ {kind}, opts.only)
            IN findingKeys(Analyze(fewer, usage, opts)) \subseteq findingKeys(report)

\* A hub that reads a remote cluster with the rules `cluster add` grants reports
\* what one that may read all reports (provision.go: "get/list on everything
\* Collect reads"), whatever the cluster has installed: no check falls silent for
\* want of a rule.
GrantedRulesSuffice ==
    JustScanned /\ Kinds \subseteq answered =>
        LET granted == Collect(objects, Kinds \cap (readOnlyRules \cup {"Version"}),
                               opts.only)
        IN Analyze(granted, usage, opts) = report

reportedUnused ==
    UNION {unusedConfigMaps(snapshot, ns) \cup unusedSecrets(snapshot, ns) :
              ns \in AppNamespaces(snapshot, opts.includeSystem, opts.only)}

\* What the volumes of o of the given types refer to.
mounted(o, types) == UNION {v.refs : v \in {v \in o.spec.volumes : v.type \in types}}

\* Does everything exist that the kubelet needs to start o: what any volume, the
\* environment of any container and the credentials of its images refer to?
canStart(o, world) ==
    LET needed == mounted(o, volumeTypes) \cup o.spec.initEnv
                    \cup (UNION {c.env : c \in o.spec.containers})
                    \cup {<<"Secret", n>> : n \in o.spec.pullSecrets}
    IN \A ref \in needed :
          \E p \in world : <<p.kind, p.name>> = ref /\ p.ns = o.ns

\* Deleting every ConfigMap and Secret that a run with all its lists reports
\* unused keeps every pod and template startable, unless it took the Secret that
\* a volume's driver is given (referencesIn does not look into these volumes), and
\* the next run finds nothing new: what is unused, no other check misses.
CleanupBreaksNothing ==
    JustScanned /\ Kinds \subseteq answered =>
        \A removed \in {{o \in objects : \E p \in reportedUnused :
                                            identity(o) = identity(p)}} :
           /\ \A o \in {o \in objects : "spec" \in DOMAIN o} :
                canStart(o, objects) =>
                    \/ canStart(o, objects \ removed)
                    \/ \E p \in removed :
                          p.ns = o.ns /\ <<p.kind, p.name>> \in mounted(o, driverVolumes)
           /\ findingKeys(Analyze(Collect(objects \ removed, answered, opts.only),
                                  usage, opts))
                \subseteq findingKeys(report)

\* How many pods of the Deployments and StatefulSets ws, which budget b selects, it
\* lets be evicted while all their replicas are healthy (policy/v1: one of the two
\* fields is given).
disruptionsAllowed(b, ws) ==
    IF b.minAvailable.type = "int"
    THEN Max({0, SumFunction([w \in ws |-> w.replicas]) - b.minAvailable.value})
    ELSE b.maxUnavailable.value

\* A budget in whole numbers is reported whenever it keeps a workload of several
\* replicas from being drained, whatever else it selects; and of a budget that
\* selects a single template, such a workload's, it is reported only then.  (Of one
\* that selects more, each is compared with minAvailable by itself: false alarms.)
BlockingPDBsAreExact ==
    JustScanned =>
        \A b \in All(snapshot, "PDB"), ns \in report.namespaces :
            LET selected == {w \in workloads(snapshot, b.ns) : Selects(b, w.labels)}
                scaled == {w \in selected : w.kind \in {"Deployment", "StatefulSet"}}
                reported == \E f \in ns.findings : f.object = <<"pdb", b.name>>
            IN (/\ ns.name = b.ns
                /\ "int" \in {b.minAvailable.type, b.maxUnavailable.type})
               => \A w \in {w \in scaled : w.replicas > 1} :
                    /\ disruptionsAllowed(b, scaled) = 0 => reported
                    /\ reported /\ selected = {w} => disruptionsAllowed(b, scaled) = 0

\* A team's webhook gets exactly what is new, severe enough, and in a namespace
\* that is the team's at the time of the run; the global one gets every team's.
TeamsHearOfTheirOwn ==
    JustScanned /\ Len(window) = 2 =>
        \A team \in OwningTeams :
            LET owned == {ns \in names(All(snapshot, "Namespace")) :
                            teamOfNamespace(snapshot, ns, opts) = team}
                due == {l \in located(report) :
                          /\ \E ns \in owned : l.at = <<"namespace", ns>>
                          /\ l.finding.severity >= MinSeverity
                          /\ findingKey(l.at, l.finding)
                               \notin findingKeys(window[1])}
            IN inbox.teams[team] = due /\ due \subseteq inbox.global

\* With --framework the summary names the controls that the findings next to it
\* fail, and no other: it is computed over the whole section, and kept.
ComplianceSummaryIsConsistent ==
    JustScanned =>
        LET kept == FilterControls(report, {"baseline", "restricted"}).sections.security
            summaries == {f \in kept : f.message = "Pod Security Standards"}
        IN \E f \in summaries :
              /\ summaries = {f}
              /\ f.shown = {c[2] : c \in failingControls(kept \ {f})}

Flags == [framework : {{}, {"baseline", "restricted"}}, team : {""} \cup OwningTeams,
          failBelow : {0, 90}, failOn : {"none", "warning", "critical"}]

\* The exit code is 0 exactly when the printed report passes the gate, counted
\* anew from what is printed; and a filter never fails a report that passes.
GateSeesWhatIsPrinted ==
    JustScanned => \A flags \in Flags :
        LET printed == finishReport(report, flags)
            number(sev) == Cardinality({l \in located(printed) : l.finding.severity = sev})
            deducted == 15 * number(Critical) + 4 * number(Warning) + number(Info)
            passes == /\ flags.failOn = "warning" => number(Warning) + number(Critical) = 0
                      /\ flags.failOn = "critical" => number(Critical) = 0
                      /\ flags.failBelow = 0 \/ deducted <= 100 - flags.failBelow
            unfiltered == [flags EXCEPT !.framework = {}, !.team = ""]
        IN /\ exitCode(report, flags) = 0 <=> passes
           /\ exitCode(report, unfiltered) = 0 => exitCode(report, flags) = 0

\* The workload whose owner sets the recommended values in its manifest.  (The
\* command in the hint is a JSON merge patch, which the API server refuses: it
\* replaces the list of containers by one without an image.)
resized(w, r) ==
    [w EXCEPT !.spec.containers =
        {[c EXCEPT !.cpu = r.cpu, !.mem = r.mem, !.memLimit = r.memLimit] : c \in @}]

\* Adopting the recommended values ends a recommendation: the workload gets no
\* other, its requests cover the usage, and its limit is not below its request
\* where memory was sampled.
RightsizingIsStable ==
    JustScanned =>
        \A w \in UNION {All(snapshot, k) : k \in {"Deployment", "StatefulSet", "DaemonSet"}} :
            \A r \in recommend(snapshot, usage, w) :
                (Cardinality(r.containers) = 1) =>
                    /\ recommend(snapshot, usage, resized(w, r)) = {}
                    /\ \A u \in usage :
                         (\E p \in In(snapshot, "Pod", w.ns) :
                             /\ p.name = u.name /\ p.ns = u.ns
                             /\ p.phase = "Running"
                             /\ w.selector \subseteq p.labels)
                         => u.cpu <= r.cpu /\ u.mem <= r.mem
                    /\ r.memLimit > 0 => r.memLimit >= r.mem

written == {o \in objects : o.kind \in knownKinds /\ o.kind # "Pod"}

\* What a manifest may be silent about because the API server fills it in: replicas
\* where they are 1, and the certificate of a Secret, which its stringData has.
omissible ==
    {o \in written : \/ o.kind \in {"Deployment", "StatefulSet"} /\ o.replicas = 1
                     \/ o.kind = "Secret" /\ o.leaf}

\* What the manifest of an object says: it has no status.
declared(o, omitted) ==
    [field \in DOMAIN o |->
        CASE field = "bound" -> FALSE
          [] field = "replicas" /\ o \in omitted -> NoReplicas
          [] field = "leaf" /\ o \in omitted -> FALSE
          [] OTHER -> o[field]]

\* A manifest does not name the default namespace.
document(o) == IF o.ns = "default" THEN [o EXCEPT !.ns = ""] ELSE o

\* The manifests of the cluster, the Services in a List.
manifests(omitted) ==
    LET documents == {document(declared(o, omitted)) : o \in written}
    IN {o \in documents : o.kind # "Service"}
         \cup {[kind |-> "List",
                items |-> {o \in documents : o.kind = "Service"}]}

\* The same manifests applied, every workload with a healthy pod.
deployed ==
    written \cup {[templatePod(w) EXCEPT !.phase = "Running"] :
            w \in {w \in written : w.kind \in
                {"Deployment", "StatefulSet", "DaemonSet", "Job", "CronJob"}}}

missingTLS == {k \o " references missing TLS secret" : k \in {"Ingress", "Gateway"}}

\* Is what located finding l reports among what the manifests leave out?
isFilledIn(l, omitted) ==
    \E o \in omitted :
        \/ /\ o.kind = "Deployment" /\ l.at = <<"namespace", o.ns>>
           /\ l.finding.message = "single-replica Deployments"
        \/ /\ o.kind = "Secret" /\ l.at = <<"section", "certificates">>
           /\ l.finding.object = <<"secret", o.ns, o.name>>

\* Does m report what l does, and show the names that l shows, or as many as it may?
foretold(l, m) ==
    /\ m.at = l.at
    /\ m.finding.message = l.finding.message
    /\ m.finding.object = l.finding.object
    /\ l.finding.shown \subseteq m.finding.shown \/ m.finding.more > 0

\* Lint reports, before the deployment, what an analysis of the deployed and
\* healthy cluster, of a version that is not known, reports in the sections they
\* share, whatever the manifests leave out.  To the live analysis are left: the TLS
\* Secrets an Ingress or Gateway misses, Deployments of a single replica whose
\* manifests do not say so, and certificates in stringData (load.go fills nothing
\* in).
LintPredictsLive ==
    JustScanned =>
        \A all \in {[opts EXCEPT !.only = {}, !.includeSystem = TRUE]},
           omitted \in SUBSET omissible :
        \A lint \in {located(Lint(manifests(omitted), all))},
           l \in located(Analyze(Collect(deployed, Kinds \ {"Version"}, {}), {}, all)) :
            \/ l.finding.severity = Ok
            \/ l.at[1] = "section" /\ l.at[2] \notin
                 {"security", "certificates", "deprecations"}
            \/ l.finding.message \in missingTLS
            \/ isFilledIn(l, omitted)
            \/ \E m \in lint : foretold(l, m)
=============================================================================
