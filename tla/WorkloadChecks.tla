--------------------------- MODULE WorkloadChecks ---------------------------
(***************************************************************************)
(* The per-namespace checks of workloads: requests, health, images,        *)
(* probes, replicas and disruption budgets (checks/workloads.go and        *)
(* checks/disruption.go).  Each check is a function of the snapshot.       *)
(***************************************************************************)
EXTENDS Kube, Report

resourceFindings(s, ns) ==
    LET pods == {p \in In(s, "Pod", ns) : p.phase # "Succeeded"}
        without == {p \in pods : \E c \in p.spec.containers : c.cpu = 0 \/ c.mem = 0}
        unlimited == {p \in pods : \E c \in p.spec.containers : c.memLimit = 0}
    IN Counted(Warning, "missing resource requests", Cardinality(without))
         \cup
       Counted(Info, "missing memory limits", Cardinality(unlimited))

waitingReasons == {"CrashLoopBackOff", "ImagePullBackOff", "ErrImagePull",
    "CreateContainerConfigError", "CreateContainerError", "InvalidImageName"}

\* The statuses of a pod's containers carry a name each, so that two
\* containers in the same state are two.
healthFindings(s, ns) ==
    LET pods == In(s, "Pod", ns)
        statuses == UNION {{<<p, c>> : c \in p.statuses} : p \in pods}
    IN (UNION {Counted(IF reason = "CrashLoopBackOff" THEN Critical ELSE Warning, reason,
                      Cardinality({st \in statuses : st[2].waiting = reason}))
                 : reason \in waitingReasons})
         \cup
       Counted(Warning, "stuck in Pending",
               Cardinality({p \in pods : p.phase = "Pending" /\ ~p.deleting}))
         \cup
       Counted(Warning, "recently OOMKilled",
               Cardinality({st \in statuses : st[2].oomKilled}))
         \cup
       Counted(Warning, "10+ restarts",
               Cardinality({st \in statuses : st[2].restarts >= 10}))

\* An image is what follows its repository: a digest, or a tag ("" for none).
isLatestImage(c) == ~c.digest /\ c.tag \in {"", "latest"}

imageFindings(s, ns) ==
    {About(Warning, "uses :latest tag", <<w.kind, w.name>>) :
        w \in {w \in workloads(s, ns) :
                 \E c \in w.spec.containers : isLatestImage(c)}}

\* CronJobs serve no traffic: no probe is expected of them.
probeFindings(s, ns) ==
    LET serving == containersOf({w \in workloads(s, ns) : w.kind # "CronJob"})
    IN Counted(Warning, "without readiness or startup probes",
               Cardinality({x \in serving : ~x.c.readiness /\ ~x.c.startup}))
         \cup
       Counted(Info, "without liveness probes",
               Cardinality({x \in serving : ~x.c.liveness}))

\* The names are left out only when the namespace has a single Deployment.
availabilityFindings(s, ns) ==
    LET deployments == In(s, "Deployment", ns)
        single == names({d \in deployments : d.replicas # NoReplicas /\ d.replicas = 1})
        noHPA == names({d \in deployments :
                     ~\E h \in In(s, "HPA", ns) :
                         h.target = <<"Deployment", d.name>>})
    IN Listed(Info, "single-replica Deployments", single, 4)
         \cup
       (IF noHPA = {} THEN {}
        ELSE IF Cardinality(deployments) > 1
        THEN {Named(Info, "Missing HorizontalPodAutoscaler for", 0, noHPA, 4)}
        ELSE {Plain(Info, "Missing HorizontalPodAutoscaler")})
-----------------------------------------------------------------------------
\* An IntOrString is [type, value], of type "none", "int" or "percent".
maxUnavailableIsZero(mu) == mu.type # "none" /\ mu.value = 0

\* A variant with a plausible bug: only a budget that asks for more replicas than
\* there are blocks.
minAvailableBlocksLate(ma, replicas) ==
    ma.type = "int" /\ ma.value > replicas

minAvailableBlocks(ma, replicas) ==
    \/ ma.type = "int" /\ ma.value >= replicas
    \/ ma.type = "percent" /\ ma.value = 100

multiReplica(s, ns) ==
    {w \in In(s, "Deployment", ns) \cup In(s, "StatefulSet", ns) :
        w.replicas # NoReplicas /\ w.replicas >= 2}

\* Does PodDisruptionBudget b allow no voluntary disruption?
blocking(b, ws) ==
    \/ maxUnavailableIsZero(b.maxUnavailable)
    \/ \E w \in ws : /\ Selects(b, w.labels)
                     /\ minAvailableBlocks(b.minAvailable, w.replicas)

disruptionFindings(s, ns) ==
    LET ws == multiReplica(s, ns)
        budgets == In(s, "PDB", ns)
        noPDB == {w \in ws : ~\E b \in budgets : Selects(b, w.labels)}
        noSpread == {w \in ws : ~w.spec.spread}
        listed(severity, message, lacking) ==
            IF lacking = {} THEN {}
            ELSE {Named(severity, message, Cardinality(lacking), names(lacking), 4)}
    IN IF ws = {} THEN {}
       ELSE {About(Warning, "allows zero voluntary disruptions", <<"pdb", b.name>>)
                : b \in {b \in budgets : blocking(b, ws)}}
              \cup listed(Warning, "without a PodDisruptionBudget", noPDB)
              \cup listed(Info, "without spreading constraints", noSpread)
=============================================================================
