------------------------------- MODULE Fleet --------------------------------
(***************************************************************************)
(* fleet.Manager: the registry of clusters, the scans of every cluster and *)
(* the per-cluster state the hub serves.                                   *)
(*                                                                         *)
(* ScanAll runs in several goroutines at a time: Run's loop (Ticker), and  *)
(* one detached rescan per cluster created or deleted through the API.     *)
(* Each lists the registry without a lock, applies the list under m.mu,    *)
(* and scans every listed cluster in a goroutine of its own, at most       *)
(* SemWidth at a time, whose result it stores under m.mu.  The hub's pod   *)
(* may be killed at any time and is restarted by its Deployment.           *)
(***************************************************************************)
EXTENDS RunLog, FiniteSets, SequencesExt

CONSTANTS
    Local,      \* the hub's own cluster: listed first, with no Secret
    Remotes,    \* names a cluster can be registered under
    Servers,    \* API server URLs a registration can carry
    NoSecret,   \* no registration Secret holds this name
    Ticker,     \* the ScanAll calls of Run's loop
    Rescans,    \* BOUND: detached ScanAll calls that may run at one time
    SemWidth,   \* capacity of a ScanAll's semaphore, 3 in the code
    Persist     \* --history-dir is set

Clusters == Remotes \cup {Local}
ScanAlls == Rescans \cup {Ticker}
Server   == Servers \cup {"local"}

ASSUME FleetAssumption ==
    /\ Local \notin Remotes
    /\ Ticker \notin Rescans
    /\ NoSecret \notin Servers
    /\ SemWidth \in Nat \ {0}
    /\ Persist \in BOOLEAN
    /\ IsFiniteSet(Remotes)

VARIABLES
    world,      \* world[n]: the findings cluster n really has
    secrets,    \* secrets[n]: the server in n's registration Secret
    proc,       \* the hub's process: "up", "down" or "panicked"
    pc,         \* pc[p]: where ScanAll p stands
    listing,    \* listing[p]: the registry as p listed it
    sem,        \* sem[p]: slots of p's semaphore that are taken
    job,        \* job[p][n]: p's goroutine for cluster n
    states,     \* m.states
    order,      \* m.order
    history,    \* history[n]: the runs in n's store, or in its directory
    outbox,     \* postNotification goroutines in flight
    alerts,     \* AUXILIARY: alerts[n][f], times f was alerted since it appeared
    overlapped  \* AUXILIARY: two ScanAlls have been running at one time

environment == <<world, secrets>>
scanning    == <<pc, listing, sem, job>>
shared      == <<states, order, history>>
alerting    == <<outbox, alerts, overlapped>>
vars == <<environment, proc, scanning, shared, alerting>>

\* A *report.Report: nil, or the one report it points to.
NoReport == {}
Results  == {NoReport} \cup {{r} : r \in Reports}

Job == [at : {"none", "queued", "scanning", "returned"}, result : Results]

NoJob == [at |-> "none", result |-> NoReport]

\* Counters and times (scans, scanErrors, lastScan, lastDuration) are read
\* back by nothing in the program: scanned stands for scans > 0.
ClusterState == [server : Server, scanned : BOOLEAN, failed : BOOLEAN,
                 report : Results]

Listing == [Remotes -> Servers \cup {NoSecret}]

Alert == [cluster : Clusters, new : Reports]

TypeOK ==
    /\ world \in [Clusters -> Reports]
    /\ secrets \in Listing
    /\ proc \in {"up", "down", "panicked"}
    /\ pc \in [ScanAlls -> {"idle", "list", "refresh", "scan"}]
    /\ listing \in [ScanAlls -> Listing]
    /\ sem \in [ScanAlls -> Nat]
    /\ job \in [ScanAlls -> [Clusters -> Job]]
    /\ DOMAIN states \subseteq Clusters
    /\ states \in [DOMAIN states -> ClusterState]
    /\ order \in Seq(Clusters)
    /\ history \in [Clusters -> Logs]
    /\ outbox \subseteq Alert
    /\ alerts \in [Clusters -> [Findings -> 0..2]]
    /\ overlapped \in BOOLEAN
-----------------------------------------------------------------------------
EmptyRegistry == [n \in Remotes |-> NoSecret]

\* What a process holds right after it starts.
Started ==
    /\ proc' = "up"
    /\ pc' = [p \in ScanAlls |-> IF p = Ticker THEN "list" ELSE "idle"]

\* What survives the process: only the history directories.
Lost ==
    /\ pc' = [p \in ScanAlls |-> "idle"]
    /\ listing' = [p \in ScanAlls |-> EmptyRegistry]
    /\ sem' = [p \in ScanAlls |-> 0]
    /\ job' = [p \in ScanAlls |-> [n \in Clusters |-> NoJob]]
    /\ states' = <<>>
    /\ order' = <<>>
    /\ history' = IF Persist THEN history ELSE [n \in Clusters |-> <<>>]
    /\ outbox' = {}

Init ==
    /\ world \in [Clusters -> Reports]
    /\ secrets \in Listing
    /\ proc = "up"
    /\ pc = [p \in ScanAlls |-> IF p = Ticker THEN "list" ELSE "idle"]
    /\ listing = [p \in ScanAlls |-> EmptyRegistry]
    /\ sem = [p \in ScanAlls |-> 0]
    /\ job = [p \in ScanAlls |-> [n \in Clusters |-> NoJob]]
    /\ states = <<>>
    /\ order = <<>>
    /\ history = [n \in Clusters |-> <<>>]
    /\ outbox = {}
    /\ alerts = [n \in Clusters |-> [f \in Findings |-> 0]]
    /\ overlapped = FALSE
-----------------------------------------------------------------------------
(***************************************************************************)
(* The environment: workloads change, and registrations are edited behind  *)
(* the hub's back (kubectl, GitOps, `cluster add`).                        *)
(***************************************************************************)
FindingAppears(n, f) ==
    /\ f \notin world[n]
    /\ world' = [world EXCEPT ![n] = @ \cup {f}]
    /\ alerts' = [alerts EXCEPT ![n][f] = 0]
    /\ UNCHANGED <<secrets, proc, scanning, shared, outbox, overlapped>>

FindingResolved(n, f) ==
    /\ f \in world[n]
    /\ world' = [world EXCEPT ![n] = @ \ {f}]
    /\ UNCHANGED <<secrets, proc, scanning, shared, alerting>>

EditSecret(n, s) ==
    /\ secrets[n] # s
    /\ secrets' = [secrets EXCEPT ![n] = s]
    /\ UNCHANGED <<world, proc, scanning, shared, alerting>>

(***************************************************************************)
(* The API handlers that change the registry, each of which starts a       *)
(* detached ScanAll.                                                       *)
(***************************************************************************)
start(p) ==
    /\ pc[p] = "idle"
    /\ pc' = [pc EXCEPT ![p] = "list"]
    /\ overlapped' = (overlapped \/ \E q \in ScanAlls : pc[q] # "idle")
    /\ UNCHANGED <<listing, sem, job, outbox, alerts>>

\* POST /api/clusters: create the Secret, or overwrite the one of that name.
CreateCluster(n, s, q) ==
    /\ proc = "up"
    /\ secrets' = [secrets EXCEPT ![n] = s]
    /\ start(q)
    /\ UNCHANGED <<world, proc, shared>>

\* DELETE /api/clusters/{name}; a name without a Secret is answered 404.
DeleteCluster(n, q) ==
    /\ proc = "up"
    /\ secrets[n] # NoSecret
    /\ secrets' = [secrets EXCEPT ![n] = NoSecret]
    /\ start(q)
    /\ UNCHANGED <<world, proc, shared>>
-----------------------------------------------------------------------------
(***************************************************************************)
(* ScanAll.                                                                *)
(***************************************************************************)
\* Run's loop: the next tick is taken once the previous ScanAll returned.
Tick ==
    /\ proc = "up"
    /\ start(Ticker)
    /\ UNCHANGED <<environment, proc, shared>>

\* lister.Clusters, called without the lock.
List(p) ==
    /\ proc = "up"
    /\ pc[p] = "list"
    /\ pc' = [pc EXCEPT ![p] = "refresh"]
    /\ listing' = [listing EXCEPT ![p] = secrets]
    /\ UNCHANGED <<environment, proc, sem, job, shared, alerting>>

\* The Secrets cannot be listed: the lister returns the local cluster with
\* the error, which ScanAll logs before it goes on with what it got.
ListFails(p) ==
    /\ proc = "up"
    /\ pc[p] = "list"
    /\ pc' = [pc EXCEPT ![p] = "refresh"]
    /\ listing' = [listing EXCEPT ![p] = EmptyRegistry]
    /\ UNCHANGED <<environment, proc, sem, job, shared, alerting>>

ListedRemotes(p) == {n \in Remotes : listing[p][n] # NoSecret}

Listed(p) == ListedRemotes(p) \cup {Local}

ServerOf(p, n) == IF n = Local THEN "local" ELSE listing[p][n]

Fresh(s) == [server |-> s, scanned |-> FALSE, failed |-> FALSE,
             report |-> NoReport]

\* Two wrong variants of Tracked: unregistered clusters are not deleted; a
\* known cluster keeps the Cluster value it was first listed with.
TrackedForever(p) ==
    [n \in DOMAIN states \cup Listed(p) |->
        IF n \in DOMAIN states THEN states[n] ELSE Fresh(ServerOf(p, n))]

TrackedAsFirstListed(p) ==
    [n \in Listed(p) |->
        IF n \in DOMAIN states THEN states[n] ELSE Fresh(ServerOf(p, n))]

\* m.states once ScanAll p has applied its list.
Tracked(p) ==
    [n \in Listed(p) |->
        IF n \in DOMAIN states
        THEN [states[n] EXCEPT !.server = ServerOf(p, n)]
        ELSE Fresh(ServerOf(p, n))]

\* The locked section of ScanAll, and the start of the scan goroutines.  The
\* order of the remote clusters is the API server's.  A cluster not yet
\* known opens its history store, which reads its directory if it has one;
\* one that left the registry loses the runs that were in memory only.
Refresh(p) ==
    /\ proc = "up"
    /\ pc[p] = "refresh"
    /\ pc' = [pc EXCEPT ![p] = "scan"]
    /\ \E remotes \in SetToSeqs(ListedRemotes(p)) : order' = <<Local>> \o remotes
    /\ states' = Tracked(p)
    /\ history' = [n \in Clusters |->
                    IF Persist \/ n \in Listed(p) THEN history[n] ELSE <<>>]
    /\ job' = [job EXCEPT ![p] = [n \in Clusters |->
                    IF n \in Listed(p) THEN [NoJob EXCEPT !.at = "queued"]
                                       ELSE NoJob]]
    /\ listing' = [listing EXCEPT ![p] = EmptyRegistry]
    /\ UNCHANGED <<environment, proc, sem, alerting>>

\* Wrong: the slot is not given back.
FinishLeakingSlot(p, n) ==
    /\ job' = [job EXCEPT ![p][n] = NoJob]
    /\ sem' = sem

\* The deferred calls of a scan goroutine: its slot is free, it is done.
Finish(p, n) ==
    /\ job' = [job EXCEPT ![p][n] = NoJob]
    /\ sem' = [sem EXCEPT ![p] = @ - 1]

\* Wrong: one scan too many.
SlotFreeOffByOne(p) == sem[p] <= SemWidth

SlotFree(p) == sem[p] < SemWidth

\* A scan goroutine takes a slot of its ScanAll's semaphore.
Acquire(p, n) ==
    /\ proc = "up"
    /\ job[p][n].at = "queued"
    /\ SlotFree(p)
    /\ sem' = [sem EXCEPT ![p] = @ + 1]
    /\ job' = [job EXCEPT ![p][n].at = "scanning"]
    /\ UNCHANGED <<environment, proc, pc, listing, shared, alerting>>

\* m.scan returns a report of the cluster as it is now ...
ScanSucceeds(p, n) ==
    /\ proc = "up"
    /\ job[p][n].at = "scanning"
    /\ job' = [job EXCEPT ![p][n] = [at |-> "returned", result |-> {world[n]}]]
    /\ UNCHANGED <<environment, proc, pc, listing, sem, shared, alerting>>

\* ... or an error: the API server refuses, or the timeout expires.
ScanFails(p, n) ==
    /\ proc = "up"
    /\ job[p][n].at = "scanning"
    /\ job' = [job EXCEPT ![p][n] = [at |-> "returned", result |-> NoReport]]
    /\ UNCHANGED <<environment, proc, pc, listing, sem, shared, alerting>>

\* Wrong: the error takes the report away.
AfterErrorWithoutReport(st) ==
    [st EXCEPT !.scanned = TRUE, !.failed = TRUE, !.report = NoReport]

AfterError(st) == [st EXCEPT !.scanned = TRUE, !.failed = TRUE]

\* The locked end of a scan goroutine, for an error: the last report stays.
StoreError(p, n) ==
    /\ proc = "up"
    /\ job[p][n].at = "returned"
    /\ job[p][n].result = NoReport
    /\ n \in DOMAIN states
    /\ states' = [states EXCEPT ![n] = AfterError(@)]
    /\ Finish(p, n)
    /\ UNCHANGED <<environment, proc, pc, listing, order, history, alerting>>

\* The locked end of a scan goroutine, for a report.
StoreReport(p, n) ==
    /\ proc = "up"
    /\ job[p][n].at = "returned"
    /\ n \in DOMAIN states
    /\ \E r \in job[p][n].result :
        LET log == Push(history[n], r)
            new == NewFindings(log)
        IN
        /\ states' = [states EXCEPT ![n].scanned = TRUE, ![n].failed = FALSE,
                                    ![n].report = {r}]
        /\ history' = [history EXCEPT ![n] = log]
        /\ outbox' = IF new = {} THEN outbox
                     ELSE outbox \cup {[cluster |-> n, new |-> new]}
        /\ alerts' = [alerts EXCEPT ![n] = [f \in Findings |->
                        IF f \in new /\ @[f] < 2 THEN @[f] + 1 ELSE @[f]]]
    /\ Finish(p, n)
    /\ UNCHANGED <<environment, proc, pc, listing, order, overlapped>>

\* The locked end of a scan goroutine whose cluster another ScanAll has
\* dropped meanwhile: m.states[c.Name] is nil and is written through.
Panic(p, n) ==
    /\ proc = "up"
    /\ job[p][n].at = "returned"
    /\ n \notin DOMAIN states
    /\ proc' = "panicked"
    /\ Lost
    /\ UNCHANGED <<environment, alerts, overlapped>>

\* wg.Wait() has seen every goroutine end.
Return(p) ==
    /\ proc = "up"
    /\ pc[p] = "scan"
    /\ \A n \in Clusters : job[p][n] = NoJob
    /\ pc' = [pc EXCEPT ![p] = "idle"]
    /\ UNCHANGED <<environment, proc, listing, sem, job, shared, alerting>>

\* postNotification ends, whether the webhook took the message or not.
Notify(a) ==
    /\ proc = "up"
    /\ a \in outbox
    /\ outbox' = outbox \ {a}
    /\ UNCHANGED <<environment, proc, scanning, shared, alerts, overlapped>>

\* The pod is evicted or killed.
Kill ==
    /\ proc = "up"
    /\ proc' = "down"
    /\ Lost
    /\ UNCHANGED <<environment, alerts, overlapped>>

\* Kubernetes starts the container again; Run scans at once.
Restart ==
    /\ proc # "up"
    /\ Started
    /\ UNCHANGED <<environment, listing, sem, job, shared, alerting>>
-----------------------------------------------------------------------------
ScanStep(p, n) ==
    \/ Acquire(p, n)
    \/ ScanSucceeds(p, n)
    \/ ScanFails(p, n)
    \/ StoreError(p, n)
    \/ StoreReport(p, n)
    \/ Panic(p, n)

ScanAll(p) ==
    \/ List(p)
    \/ ListFails(p)
    \/ Refresh(p)
    \/ Return(p)
    \/ \E n \in Clusters : ScanStep(p, n)

Environment ==
    \/ \E n \in Clusters, f \in Findings :
          FindingAppears(n, f) \/ FindingResolved(n, f)
    \/ \E n \in Remotes, s \in Servers \cup {NoSecret} : EditSecret(n, s)
    \/ \E n \in Remotes, q \in Rescans :
          (\E s \in Servers : CreateCluster(n, s, q)) \/ DeleteCluster(n, q)

Next ==
    \/ Environment
    \/ Tick
    \/ \E p \in ScanAlls : ScanAll(p)
    \/ \E a \in outbox : Notify(a)
    \/ Kill
    \/ Restart

Spec == Init /\ [][Next]_vars

\* The Go scheduler runs every goroutine, a scan returns within m.timeout,
\* the ticker ticks, and the Deployment restarts a container that died.
Fairness ==
    /\ WF_vars(Tick)
    /\ WF_vars(Restart)
    /\ \A p \in ScanAlls :
          /\ WF_vars(List(p) \/ ListFails(p))
          /\ WF_vars(Refresh(p))
          /\ WF_vars(Return(p))
          /\ \A n \in Clusters : WF_vars(ScanStep(p, n))

FairSpec == Spec /\ Fairness
-----------------------------------------------------------------------------
\* What Statuses walks: m.order names every tracked cluster once, the local
\* one first, so the walk dereferences no missing state and lists no cluster
\* twice.  Overlapping ScanAlls each reset the order and prune the map.
OrderMatchesStates ==
    /\ Range(order) = DOMAIN states
    /\ IsInjective(order)
    /\ order # <<>> => order[1] = Local

\* The goroutines of one ScanAll that hold a slot of its semaphore.
Holding(p) == {n \in Clusters : job[p][n].at \in {"scanning", "returned"}}

\* "Bounded concurrency": a ScanAll's semaphore counts its scans at work,
\* which are SemWidth at most; every path out of a scan gives its slot back;
\* a ScanAll that returned has left no goroutine behind, and nor has a
\* process that died.
BoundedConcurrency ==
    \A p \in ScanAlls :
        /\ sem[p] = Cardinality(Holding(p))
        /\ sem[p] <= SemWidth
        /\ pc[p] # "scan" => \A n \in Clusters : job[p][n] = NoJob
        /\ proc # "up" => pc[p] = "idle"

\* /api/clusters/{name}/report and the history endpoint agree: the report
\* served is the newest run of the cluster's history, also when scans of two
\* ScanAlls are stored in either order, and after a cluster left and came
\* back with the history its directory kept.
ReportIsNewestRun ==
    \A n \in DOMAIN states :
        \A r \in states[n].report :
            history[n] # <<>> /\ r = Newest(history[n])

\* "failures surface as an error field on that cluster's status rather than
\* removing it from the list" (README): a cluster that stays in the fleet
\* keeps a report to show, whatever its later scans return.
ErrorKeepsReport ==
    [][\A n \in DOMAIN states :
          n \in DOMAIN states' /\ states[n].report # NoReport
              => states'[n].report # NoReport]_vars

\* "so one unreachable cluster never stalls the fleet": every ScanAll ends,
\* and Run's loop gets to its next tick.
ScanAllEnds == \A p \in ScanAlls : pc[p] # "idle" ~> pc[p] = "idle"

\* Once the registry, the API server and the pod are at rest, the fleet
\* becomes and stays what the registry says: the registered clusters, with
\* the servers they are registered under, and no others.
FleetConverges ==
    \A n \in Remotes, s \in Servers \cup {NoSecret} :
        /\ <>[](secrets[n] = s)
        /\ <>[](proc # "down")
        /\ <>[][\A p \in ScanAlls : ~ListFails(p)]_vars
        => <>[](IF s = NoSecret THEN n \notin DOMAIN states
                ELSE n \in DOMAIN states /\ states[n].server = s)

\* "repeats stay silent" (notify.go, README): a finding is alerted at most
\* once from the moment it appears in its cluster until it is resolved and
\* appears again.
RepeatsStaySilent == \A n \in Clusters, f \in Findings : alerts[n][f] <= 1

\* As long as no two ScanAlls overlap, repeats do stay silent, also across
\* failed scans and restarts of a hub that keeps its history.
SoloRepeatsStaySilent == ~overlapped => RepeatsStaySilent

\* Storing the result of a scan never writes through a missing state.
NoPanic == proc # "panicked"

\* A registered cluster that the fleet shows stays in it while it stays
\* registered and the hub stays up: ScanAll drops "clusters that are no
\* longer registered" (manager.go) and no others.
RegisteredClusterStays ==
    \A n \in Remotes :
        [](secrets[n] # NoSecret) /\ [](proc = "up")
            => [](n \in DOMAIN states => [](n \in DOMAIN states))
=============================================================================
