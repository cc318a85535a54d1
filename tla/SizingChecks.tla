---------------------------- MODULE SizingChecks ----------------------------
(***************************************************************************)
(* Requests compared with the usage Prometheus observed: overprovisioning  *)
(* of the whole cluster and the values recommended for each workload       *)
(* (checks/optimization.go, checks/rightsizing.go, prom/client.go).        *)
(*                                                                         *)
(* CPU is in thousandths of a core and memory in MiB, so that the code's   *)
(* floating point becomes exact.  usage is the set of Prometheus' samples: *)
(* per pod, the 95th percentile of CPU and the maximum of memory, 0 where  *)
(* there is no sample.  The units numbers are printed in are left out.     *)
(***************************************************************************)
EXTENDS PlatformChecks

CeilDiv(a, b) == (a + b - 1) \div b

\* The part of requests above usage decides, in hundredths; a usage above the
\* requests is a finding of its own.
overprovisionFinding(resource, usage, requests) ==
    LET over == 100 * (requests - usage)
        severity == CASE over >= 60 * requests -> Warning
                      [] over >= 30 * requests /\ over < 60 * requests -> Info
                      [] over < 30 * requests -> Ok
    IN IF over < 0 THEN Plain(Warning, resource \o " usage exceeds requests")
       ELSE Plain(severity, "Estimated " \o resource \o " overprovisioning")

\* A query answers with the sum over the covered namespaces; without any sample
\* it is an error.  answers: the resources whose queries Prometheus answers.
Optimization(s, covered, usage, prometheus) ==
    LET running == {p \in All(s, "Pod") : p.ns \in covered /\ p.phase = "Running"}
        samples == {u \in usage : u.ns \in covered}
        answered == IF samples = {} THEN {} ELSE prometheus.answers
        cpu == cpuOf(running)
        mem == memOf(running)
    IN IF ~prometheus.configured THEN {Plain(Info, "Prometheus URL not configured")}
       ELSE IF cpu = 0 /\ mem = 0 THEN {Plain(Info, "No resource requests set")}
       ELSE IF answered = {} THEN {Plain(Info, "Could not query Prometheus")}
       ELSE (IF "cpu" \in answered /\ cpu > 0
             THEN {overprovisionFinding("CPU",
                      SumFunction([u \in samples |-> u.cpu]), cpu)} ELSE {})
              \cup
            (IF "mem" \in answered /\ mem > 0
             THEN {overprovisionFinding("Memory",
                      SumFunction([u \in samples |-> u.mem]), mem)} ELSE {})
-----------------------------------------------------------------------------
\* 10% above the 95th percentile and 0.01 cores at least, rounded up to 0.01
\* cores below one core and to 0.1 above.
roundCPU(p95) ==
    IF 11 * p95 < 10000 THEN Max({10, CeilDiv(11 * p95, 100) * 10})
    ELSE CeilDiv(11 * p95, 1000) * 100

\* A variant with a plausible bug: rounded down.
roundMemDown(mem, percent) == ((percent * mem) \div 3200) * 32

\* percent% of a usage of memory, rounded up to the next 32 MiB.
roundMem(mem, percent) == CeilDiv(percent * mem, 3200) * 32

suggestedMem(mem) == Max({32, roundMem(mem, 115)})

\* What is recommended for workload w: nothing ({}) when none of its pods has
\* a sample or its requests are reasonable.
recommend(s, usage, w) ==
    LET pods == {p \in In(s, "Pod", w.ns) : /\ p.phase = "Running"
                                            /\ w.selector \subseteq p.labels}
        samples == {u \in usage : \E p \in pods : u.ns = p.ns /\ u.name = p.name}
        p95 == Max({0} \cup {u.cpu : u \in samples})
        memMax == Max({0} \cup {u.mem : u \in samples})
        curCPU == cpuOf({w})
        curMem == memOf({w})
        sugCPU == roundCPU(p95)
        sugMem == suggestedMem(memMax)
        over == \/ 2 * curCPU > 3 * sugCPU /\ curCPU - sugCPU >= 50
                \/ 2 * curMem > 3 * sugMem /\ curMem - sugMem >= 64
        under == (curCPU > 0 /\ p95 > curCPU) \/ (curMem > 0 /\ memMax > curMem)
        unset == curCPU = 0 /\ curMem = 0
    IN IF ~w.selects \/ w.selector = {} \/ samples = {} \/ ~(over \/ under \/ unset)
       THEN {}
       ELSE {[workload |-> <<w.kind, w.ns, w.name>>,
              containers |-> {c.name : c \in w.spec.containers},
              pods |-> Cardinality(pods), cpu |-> sugCPU, mem |-> sugMem,
              memLimit |-> roundMem(memMax, 150),
              state |-> CASE unset -> "has no resource requests"
                          [] ~unset /\ under -> "is underprovisioned"
                          [] ~unset /\ ~under -> "is overprovisioned",
              spareCPU |-> Max({0, curCPU - sugCPU}),
              spareMem |-> Max({0, curMem - sugMem})]}

\* What sorts recommendations: savings a month in units of 1/1024000, then
\* wasted capacity, of which 4 GiB weigh as much as a core.
savings(r, cost) ==
    (1024 * r.spareCPU * cost.cpu + 1000 * r.spareMem * cost.gib) * r.pods
waste(r) == (4096 * r.spareCPU + 1000 * r.spareMem) * r.pods

worse(a, b, cost) ==
    \/ savings(a, cost) > savings(b, cost)
    \/ savings(a, cost) = savings(b, cost) /\ waste(a) > waste(b)

dollar == 1024000

\* The object and the text name the workload, but not its namespace.  The hint
\* is a command only when there is one container to patch.
recommendationFinding(r, cost) ==
    [Finding(Info, r.state, 0, IF savings(r, cost) >= dollar THEN {"saving"} ELSE {},
             0, <<r.workload[1], r.workload[3]>>, {})
        EXCEPT !.hint = IF Cardinality(r.containers) = 1 THEN {r} ELSE {}]

recommendations(s, covered, usage) ==
    UNION {recommend(s, usage, w) :
        w \in {w \in UNION {All(s, k) : k \in {"Deployment", "StatefulSet", "DaemonSet"}} :
                 w.ns \in covered}}

savingsFinding(recs, cost) ==
    LET total == SumFunction([r \in recs |-> savings(r, cost)])
    IN IF total >= dollar THEN {Plain(Info, "Estimated monthly savings")} ELSE {}

\* Can the usage be collected?  All six queries have to be answered.
usageAnswered(prometheus) == prometheus.answers = {"cpu", "mem"}

rightsize(s, covered, usage, cost) ==
    LET recs == recommendations(s, covered, usage)
    IN savingsFinding(recs, cost)
         \cup {recommendationFinding(r, cost) : r \in recs}
=============================================================================
