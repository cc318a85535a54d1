# Verification of cluster-guardian

TLA+ models of the hub (`cluster-guardian serve`), the TLC configurations that
check them and the theorems that TLAPS proves about them. Paths are relative to
the repository.

## 1. The system

cluster-guardian analyses Kubernetes clusters and serves the result. The CLI
(`analyze`, `lint`) runs one analysis and exits. The hub is a long-lived
process, and nearly everything that is hard to test lives there:

| Part | Source | State | Operations |
|---|---|---|---|
| Fleet manager | `internal/fleet/manager.go` | `m.states`, `m.order`, `m.opts` under `m.mu`; a semaphore and goroutines per `ScanAll` | `Run`, `ScanAll`, `SetTeamOf`; reads `Statuses`, `Report`, `History`, `Diff` |
| Cluster registry | `internal/fleet/fleet.go`, `provision.go` | labelled Secrets in the API server | `Clusters` (list), `ApplySecret`, `Provision` (CLI) |
| History store | `internal/history/history.go` | `entries`, `files`, `prev`, `last`; one JSON file per run | `New`, `Append`, `Entries`, `LastDiff` |
| Administration API | `internal/server/admin.go` | none of its own | POST/DELETE clusters with a detached rescan, GET/PUT teams, `refreshTeams` |
| Teams store | `internal/teams/store.go` | a ConfigMap | `Get`, `Put`, `MergeSecrets`, `Validate`, `NamespaceTeam` |
| Report cache | `internal/server/server.go` | `s.cached`, `s.opts`, counters under `s.mu` | `report` (held for a whole analysis), history reads |
| Scheduled delivery | `internal/server/reports.go`, `internal/deliver` | delivery counters | cron job, digest, three targets |
| Notifications | `internal/notify` | sinks, read at start | `Notify` after a run with new findings |
| Metrics, auth | `internal/server/metrics.go`, `internal/auth` | none | scrape; identity and role of a request |
| Analysis | `internal/analyzer`, `checks`, `kube`, `prom`, `manifest`, `report` | none across runs | snapshot, rules, score, diff, rendering |

How they interact:

- `Run`'s loop and every detached rescan call `ScanAll` **concurrently**. Each
  lists the Secrets without a lock, applies its list under `m.mu`, and starts a
  goroutine per cluster that scans without a lock and stores under `m.mu`.
- Storing a report appends it to the cluster's history, diffs it with the run
  before, and posts what is new from yet another goroutine.
- `PUT /api/teams` writes the ConfigMap, re-reads it and installs the mapping in
  the server (under `s.mu`) and then in the fleet (under `m.mu`).
- The process may die at any moment. What survives is the Secrets, the
  ConfigMap and the history directories.

What makes each part correct:

- *Fleet*: what is served is consistent (no missing state, no cluster twice,
  report and history agree); an error keeps the last report; scans are bounded
  and end; the fleet converges to the registry; an alert is sent once.
- *History*: index, diff pair and directory agree; a restart shows what was
  written, however the last process ended.
- *Ownership*: after a PUT the mapping in use is the stored one; no cached report
  carries an older one; webhooks that a client never saw survive its edit.
- *Delivery*: one failing target does not stop the others; a digest row is of
  one run.
- *Registration*: what `cluster add` stores works, however often it was
  interrupted; a name is listed once; a change of one cluster leaves the others
  alone.
- *Access*: a caller gets to a handler exactly when the flags give it the role.
- *Analysis*: two answers the program gives about one cluster agree: this run's
  and the last one's, with all permissions and with fewer, before and after its
  own advice was followed, printed whole and filtered, linted and live.

`PROJECT.json` lists every component with its status and, under `hazards`,
each place where the code could go wrong in a way a test would hardly reach.

## 2. Modules

```
RunLog ------- Fleet ------- MCFleet        (TLC)
   |  \           \--------- FleetProofs    (TLAPS)  <-- RunLogProofs
   |   \------ HistorySpec  (abstract)
   |               ^  implements
   \---------- History ----- MCHistory      (TLC)
                        \--- HistoryProofs  (TLAPS)
               Ownership --- MCOwnership    (TLC)
                        \--- OwnershipProofs (TLAPS)
               Delivery                     (TLC)
                        \--- DeliveryProofs (TLAPS)
Access ------- Registration --- MCRegistration     (TLC)
                           \--- RegistrationProofs  (TLAPS)
Score -- Report --\
         Kube -----+-- WorkloadChecks, HygieneChecks, SecurityChecks,
         Manifest -/   PlatformChecks, SizingChecks
                          \-- Analyzer --- Guardian --- MCGuardian      (TLC)
                                   \               \--- GuardianProofs (TLAPS)
                                    \-- AnalysisProofs ------/
```

- **RunLog**: what a history store promises, as operators on a sequence of
  reports: `Push` keeps the last `Limit`, `NewFindings` is the diff of the two
  newest. A report is the set of finding keys in it.
- **Fleet**: `fleet.Manager`, the handlers that start rescans, the API server's
  Secrets, the clusters' real findings, and the process itself. One action per
  atomic step: a call to the API server, a critical section of `m.mu`, taking a
  slot, the end of a scan. `pc[p]` and `listing[p]` are the locals of ScanAll
  `p`, `job[p][n]` its goroutine for cluster `n`, `sem[p]` its semaphore,
  `states`/`order` the fields of that name, `history[n]` the store of cluster
  `n`. Every store there is a RunLog log. `Panic` is what the code does when it
  writes through the missing entry of a dropped cluster.
- **HistorySpec**: the abstract log: the runs recorded last, in the order they
  were recorded. A restart may forget runs, never invents one, and shows what it
  recovers in the order the runs were generated.
- **History**: `history.Store` with its files. Writes may fail or be torn,
  removals may fail, and the process may die between or inside `Append` and
  `New`. Scans of a fleet overlap: `scan[p]` is a report that was generated and
  not recorded yet, so reports are recorded late, or two of them carry one
  millisecond. It implements HistorySpec, with the log being `entries` while a
  process is up and what the directory holds while none is.
- **Ownership**: `PUT /api/teams` step by step (a PUT is a process with its own
  `pc`), edits of the ConfigMap behind the hub's back, lost answers, conflicts,
  and `Server.report` with `s.mu` and the cached report. A hub starts, and starts
  again after a kill (`Restart`), with the mapping of its `--teams-file`, any
  mapping, whatever the ConfigMap stores (`loadTeams`, `analyzerOptions`).
- **Delivery**: scheduled reports of a fleet. A job is one goroutine started by
  cron, `pc[j]` where it stands, `rows[j]` the digest it is putting together from
  one read of the statuses and two more reads per cluster, `tried[j]` and
  `failed[j]` the course of `Deliver`. The fleet is reduced to what the digest
  reads: which clusters are there, the newest run of each history and the run
  whose report is shown, a run being a number. Histories are persisted.
- **Access**: roles, trusted proxies, the identity and role of a request
  (`auth.Identify`), what `serve` refuses to start with (`authConfig`,
  `enableAdmin`), the routes a hub has and the permission of each.
- **Registration**: how clusters get into the registry. `cluster add` is a
  process, one action per call it makes to the remote cluster and then to the
  hub; `POST /api/clusters` joins it at ApplySecret. Any call may fail, which
  leaves what the calls before it did. The token controller, revoked tokens,
  deleted namespaces and Secrets edited by hand are the environment. `Clusters`
  is `Registry.Clusters`.
- **Score**, **Report**: the report model: findings, counts, score and grade,
  filters by control and team, finding keys and Diff. A finding's message is what
  tells it apart from others, with its count, the names it shows and the object
  and controls it is about beside it.
- **Kube**: the snapshot: what `Collect` lists, with what it does when a list is
  refused; the namespaces that are analyzed; the rules that `cluster add` grants.
  A pod spec keeps its volumes by type, with what each refers to, those that the
  code does not look into included; a count of replicas may be nil (`NoReplicas`),
  as in a manifest.
- **WorkloadChecks**, **HygieneChecks**, **SecurityChecks**, **PlatformChecks**,
  **SizingChecks**: the checks of package `checks`, each a function from a
  snapshot (and a namespace) to findings. Lists that the code cuts off are cut off
  in the code's order.
- **Manifest**: what `lint` makes of manifests: Lists, default and implied
  namespaces, pods synthesized from templates.
- **Analyzer**: `Analyze` and `Lint` with the order of their passes, the
  ownership of namespaces, what is posted to whom, filters and exit code.
- **Guardian**: one cluster watched over time, which drives the analysis through
  pairs of snapshots: objects come, change and go, lists are denied and granted,
  scans record a report, compare it with the one before and post what is new. As
  the API server has it, an object is created in a namespace there is, and a
  namespace goes after what it holds. What the properties compare a run with is
  computed apart from the checks: what a pod needs to start (`canStart`), how many
  evictions a budget allows (`disruptionsAllowed`), a workload with other requests
  (`resized`), the manifests of the cluster without what the API server fills in
  (`manifests`) and the cluster they make (`deployed`).
- **MCFleet**, **MCHistory**, **MCOwnership**, **MCRegistration**, **MCGuardian**: instances and state constraints for TLC. MCGuardian holds a scenario for each group of checks.
- **RunLogProofs**, **FleetProofs**, **HistoryProofs**, **OwnershipProofs**,
  **DeliveryProofs**, **RegistrationProofs**, **AnalysisProofs** (the checks and
  reports), **GuardianProofs**: the proofs (section 5).

Definitions whose comment says *Wrong* or *a variant with a plausible bug* are
bugs the code does not have. Each stands before the definition it is a variant
of, and the properties are known to fail when it takes that definition's place.

Abstractions: finding keys, servers, teams, URLs are opaque values. Times and
counters that nothing in the program reads back are left out. Clusters' names
are distinct after `SanitizeName` in `Fleet`, and no remote is listed under the
hub's own name: the second is what `Registration` shows of the list
(`NamesAreListedOnce`), the first is an assumption. Log lines, JSON and HTTP status codes are left out. `Fleet` keeps a
history across a crash as it was: what files can lose is History's subject.

In the analysis a name is a value: its rank, its form with digits normalised and
in lower case are functions of it (`Rank`, `Stem`, `Lower`). Labels and selectors
are sets, resources whole numbers of millicores and MiB, a certificate the days
it has left, a version its minor. The state of Prometheus is the peak of each
pod's samples. Messages are equal when their texts are equal up to numbers.
`Registration` tells tokens apart by cluster, account and number, a role's rules
by whether they are the current ones, and takes the hub's namespace as given.

## 3. Runs

| Run | Instance | Shows |
|---|---|---|
| `fleet_overlap` | local + 1 remote, 1 server, loop + 1 rescan, 1 slot, 1 finding, limit 2, persisted | `OrderMatchesStates`, `BoundedConcurrency`, `ReportIsNewestRun`, `ErrorKeepsReport`; `SoloRepeatsStaySilent`: alerts are sent once until two ScanAlls overlap |
| `fleet_live` | as above, 2 servers, no findings, in memory | `ScanAllEnds`, `FleetConverges` |
| `fleet_panic` | loop + 1 rescan | **violation** of `NoPanic` |
| `fleet_repeats` | loop + 1 rescan, 1 finding | **violation** of `RepeatsStaySilent` |
| `fleet_list_failure` | loop alone | **violation** of `RegisteredClusterStays` |
| `history` | 2 overlapping scans, 1 finding, limit 2, 4 instants, 4 runs recorded | `DiffIsOfNewestRuns`, `RetainedRunsAreOnDisk`, `RestartIsLossless`, `ImplementsLog` (472 k states) |
| `ownership` | 1 team, 1 namespace, 1 URL, 2 PUTs, any teams file at each start | `CacheIsCurrent`, `SequentialPutsTakeEffect`, `SequentialPutsKeepWebhooks` (334 k states) |
| `ownership_mapping` | the same | **violation** of `MappingIsCurrent` |
| `ownership_webhook` | 2 URLs, webhooks always set | **violation** of `WebhooksAreKept` |
| `delivery` | 1 cluster, 2 jobs, 3 targets, 3 runs, 2 counted deliveries | `RowIsOfOneRun`, `RowsNeverGoBack`, `ErrorsAreMissedTargets`, `EveryTargetIsTried`, `OthersAreServed` |
| `registration` | 3 names of which 2 share a Secret, 1 remote, 2 `cluster add`, 1 POST, 2 tokens, 1 edit by hand; 6 callers, every combination of the flags | `NamesAreListedOnce`, `CredentialsWork`, `OnlyTheNamedChange`, `AccessFollowsTheFlags` (77 k states) |
| `analysis` | 11 scenarios, 4 namespaces, 2 sets of options, the list of pods denied or granted, 1 change between two runs | the ten properties below (66 k states) |

What `analysis` shows of a scan, each relating two answers of the program:

- `CountsStaySilent`: a count that changes does not make a finding new.
- `DeniedListsOnlyHide`: without Secrets or Nodes, no finding is invented.
- `GrantedRulesSuffice`: the rules `cluster add` grants are all a scan needs.
- `CleanupBreaksNothing`: deleting what is reported unused keeps every pod and
  template startable, unless it took a Secret that the driver of a volume is given
  (section 6), and makes nothing new.
- `BlockingPDBsAreExact`: a budget that admits no eviction from a workload of
  several replicas is reported, whatever else it selects; one over a single
  template only then.
- `TeamsHearOfTheirOwn`: a team is posted what is new in namespaces it owns now.
- `ComplianceSummaryIsConsistent`: the summary names the failing controls shown.
- `GateSeesWhatIsPrinted`: exit code and printed report agree; filters only relax.
- `RightsizingIsStable`: recommended values cover the usage, and a workload given
  them gets no other recommendation.
- `LintPredictsLive`: lint reports before what a live run reports after, whatever
  the manifests leave out. The exceptions are named: missing TLS Secrets, and what
  is read off replicas or a certificate that the manifests leave out.

### What the violations show

Each is a trace of the code as it is, against a sentence of its documentation
(quoted in `PROJECT.json`, `findings`):

1. **A rescan can end the hub** (`manager.go:172-173`). ScanAll 1 scans cluster
   `a`; `a` is deleted and the rescan drops it; scan 1 returns, `m.states["a"]`
   is nil and is written through.
2. **Repeats can be alerted** (`manager.go:182`). Two ScanAlls scan a cluster
   before and after a finding appears and store in the opposite order; the next
   scan finds it "new" again. One ScanAll at a time never does this
   (`SoloRepeatsStaySilent` in `fleet_overlap`).
3. **One failed list empties the fleet** (`manager.go:120-138`). The lister
   returns the local cluster with its error, and ScanAll prunes down to it.
4. **Concurrent PUTs can leave an old mapping in use** (`admin.go:224-237`).
5. **A redacted webhook can revert one just set** (`admin.go:182-194`): `Put`
   re-reads the ConfigMap for its resourceVersion, so there is no conflict.

### Bounds

- *Two ScanAlls* are the least at which lists, prunings and stored scans can
  overlap, and every pair of their critical sections is interleaved; a third
  adds no new pair. The proofs cover any number.
- *One remote* suffices for a name to be dropped, re-added, scanned twice and
  re-served; the local cluster is the second that competes for the slot.
  `SemWidth` is 3 in the code and 1 here, so that waiting for a slot happens
  with two clusters.
- *Two servers*, in `fleet_live`, are what a re-registration needs to be
  visible. The constraint `RemotesStayClean` lets findings change in the local
  cluster only: what is stored for a cluster depends on that cluster alone.
- *Limit 2* is the least the code allows and the first at which a full log is
  pruned while it is diffed. In `history`, *four instants and four runs* fill a
  store, prune it and restart it with files left over from before, with a run
  recorded late or twice in one millisecond on either side of the restart.
  `FindingsTellTwinsApart` gives a report a finding only where it tells two
  reports of one instant apart: the store never looks at them.
- *Two PUTs* with one team and one namespace make every order of read, update
  and installation. `missed` marks mappings the hub is never told of (an edit
  behind its back, a lost answer, a failed re-read, a start with another mapping
  in the teams file), which excuse an old mapping until the next PUT;
  `overlapped` separates what holds for requests that come one after the other.

- *One cluster* in `delivery`: rows of different clusters share nothing but the
  read of the statuses. *Three runs* let a run be stored after each of a row's
  reads, and a row show a first, a second and a third run; *two jobs* are the
  least that overlap, and *two counted deliveries* show a failed one next to a
  complete one, in either order.

- *Registration*: two `cluster add` of one cluster make every order of their
  calls (they are interchangeable, and no liveness is checked, so TLC may treat
  them as symmetric). `OneIsAdded` has them add a cluster of their own, and the
  POSTs the others, of which one has the same Secret; `TwoAtATime` lets two of
  the commands and requests overlap, which is what the properties relate: the
  theorems are about any number of them. Two tokens and one edit by hand let a token be revoked and issued again
  between two calls. Who may call the API does not depend on anything but the
  flags, which never change: `AccessFollowsTheFlags` is a state predicate, so TLC
  evaluates it in every initial state, that is for all the flags, and `OneHub`
  explores one of them.
- *Analysis*: a check reads few objects at a time, so a scenario holds the few
  that a group of checks relates, in versions on either side of every
  threshold; a cluster holds any of them: a Secret in a csi volume and none,
  one and several replicas under one budget, a DaemonSet with and without the
  recommended requests. `LintPredictsLive` tries every choice of what manifests may
  leave out. `MaxChanges` is 1 because a
  property looks at two runs, which one change tells apart; `QuietWhileDenied`
  leaves out changes behind a denied list, since a failed scan records nothing.

Deadlock is checked in every run. A `delivery` job that has used up the counted
deliveries waits before the counters, while the fleet goes on.

### Fairness

`Fleet!Fairness` is weak fairness of each step of each goroutine: the Go
scheduler runs what is runnable, every scan returns within `m.timeout`, the
ticker ticks, and the Deployment restarts a dead container. Nothing is assumed
of the environment, of a scan's success or of which goroutine gets the slot.
`ScanAllEnds` uses only this. `FleetConverges` adds, as premises of the
property, that the registration stops changing, listing stops failing and the
pod stops being killed. Panics need not be excluded: they stop once the list
does.

`Delivery!FairSpec` is weak fairness of a job's steps up to the mail: files are
written and webhooks answer within the client's 30 s. Nothing is assumed of the
mail server (`smtp.SendMail` has no timeout), of cron or of the scans.

## 4. What is checked by TLC only

Liveness (`ScanAllEnds`, `FleetConverges`, `OthersAreServed`) is model-checked on the
instances above and not proved: liveness under fairness is out of the prover's reach.
The runs that expect a violation are counterexamples on small instances. Every safety invariant
and action property of a passing run is stated by a theorem of section 5.

## 5. What is proved

`FleetProofs` proves, for all sets of remotes (finite), servers, findings and
rescans, any `SemWidth >= 1` and any `Limit >= 2` (`FleetAssumption`,
`LimitAssumption`):

| Theorem | Statement |
|---|---|
| `TypeCorrect` | `Spec => []TypeOK` |
| `ScansAreBounded` | `Spec => []BoundedConcurrency` |
| `StatusesAreComplete` | `Spec => []OrderMatchesStates` |
| `ReportAgreesWithHistory` | `Spec => []ReportIsNewestRun` |
| `ReportsAreKept` | `Spec => ErrorKeepsReport` |
| `RepeatsAreSilent` | `Spec => []SoloRepeatsStaySilent` |

The inductive invariant is the conjunction `IInv` of the first four properties,
each of which `fleet_overlap` checks. None is redundant: `sem[p] \in Nat` holds
after `Finish` only because the semaphore counts the goroutines that hold a slot
(`BoundedConcurrency`), and that count is only defined for well-typed jobs.
`BoundedConcurrency` is proved with one lemma for the three ways a goroutine
changes the count (take, keep, give back) and one for every other step.
`OrderMatchesStates` and `ReportIsNewestRun` look at shared state only, so
`SharedSteps` first reduces every step to: nothing, Refresh, the end of a scan,
or the loss of the process. `RunLogProofs` has the facts about `Push` and
`NewFindings` they rest on.

`RepeatsAreSilent` needs more: that a finding was alerted once says nothing of why
the next scan will not alert it again. `Silence` adds the reason. While no two
ScanAlls have overlapped, at most one is under way (`Alone`). A finding alerted since
it appeared is then in the newest run of its cluster's history (or the history is
empty, and its first run alerts nothing) for as long as the cluster has it, or a scan
has brought it back; and a report that a scan has brought back does not miss it while
the cluster has it (`AlertedIsKnown`). `Alone` is what excludes a stored report older
than the newest run, the counterexample of `fleet_repeats`. The invariant holds with
a history directory and without one.

`HistoryProofs` proves, for any `Limit >= 2`, any findings and any number of
scans and instants (`LimitAssumption`, `HistoryAssumption`):

| Theorem | Statement |
|---|---|
| `TypeCorrect` | `Spec => []TypeOK` |
| `DiffIsRight` | `Spec => []DiffIsOfNewestRuns` |
| `RetainedRunsAreThere` | `Spec => []RetainedRunsAreOnDisk` |
| `RestartLosesNothing` | `Spec => []RestartIsLossless` |
| `LogIsImplemented` | `Spec => ImplementsLog` |

`RestartIsLossless` compares the index with what `New` would find, and says nothing
of how they came to agree. The inductive invariant `Inv` does, file by file and
entry by entry: files hold recorded runs under their names (`FilesAreRecorded`);
an entry in a file is there, was recorded late, or was written over by a later one
of its millisecond (`EntriesAreWhole`); and a file without an entry is older than
the entries recorded in their turn, and only a full log has one
(`LeftoversAreOld`), so a restart does not prefer it. That is kept because `push`
removes the file of the very entry it drops (`PushInv`) and `New` those of the
oldest runs (`OpenInv`). `FoundRuns` and `FoundExists` say what `New` reads from a
directory: every readable run once, oldest first; `NewestAreKept` is the counting
argument that the newest `Limit` of them are the entries. `RestartLosesNothing`
and the refinement `LogIsImplemented` follow from these.

`OwnershipProofs` proves, for any teams, namespaces, webhooks and PUTs
(`OwnershipAssumption`: `None` and `Redacted` are neither a name nor a URL):

| Theorem | Statement |
|---|---|
| `TypeCorrect` | `Spec => []TypeOK` |
| `CachedReportsAreCurrent` | `Spec => []CacheIsCurrent` |
| `PutsTakeEffect` | `Spec => []SequentialPutsTakeEffect` |
| `PutsKeepWebhooks` | `Spec => []SequentialPutsKeepWebhooks` |

The inductive invariant adds four strengthenings (TLC finds `IInv` to hold on the
instance of run `ownership`; it is not listed there, as it says no more to a user). `StampsAreCurrent` extends `CacheIsCurrent`
to the analysis that holds `s.mu`: without it, that analysis could store an old
mapping. `OneAtATime` says what `~overlapped` is worth: at most one PUT is under
way, so a step of one finds all others idle (lemma `Alone`). `MappingIsInstalled`
follows that PUT from the re-read (`read[q]` is the stored mapping) to the server
and to the fleet, which nothing else need have told of it: a start may install
another mapping (`missed`); `WebhooksAreAsked` follows its merged webhooks to the Update.

`DeliveryProofs` proves, for any clusters, number of jobs, configured targets and
bounds (`DeliveryAssumption`):

| Theorem | Statement |
|---|---|
| `TypeCorrect` | `Spec => []TypeOK` |
| `RowsAreOfOneRun` | `Spec => []RowIsOfOneRun` |
| `RowsGoForward` | `Spec => []RowsNeverGoBack` |
| `ErrorsCountMissedTargets` | `Spec => []ErrorsAreMissedTargets` |
| `TargetsAreTried` | `Spec => []EveryTargetIsTried` |

The properties compare the parts of a row, or two counters, with each other; the
inductive invariant compares each part with the fleet it was read from. A row of an
undisturbed cluster is what a read would give now (`RowsAreCurrent`); any row's parts
are in the order of their reads and not ahead of the history, which only grows
(`RowsAreOrdered`); and where a job stands says what it holds of the digest
(`Reading`) and that an error is due exactly when a target was missed
(`Delivering`).

`RegistrationProofs` proves, for any names and any `SanitizeName`, any remote
clusters, namespaces, processes, flags, callers and any number of edits by hand
(`RegistrationAssumption`; `NamesAssumption`: Secrets are listed in some total
order; `FlagsAssumption`: flags have values of their types):

| Theorem | Statement |
|---|---|
| `TypeCorrect` | `Spec => []TypeOK` |
| `NamesListedOnce` | `Spec => []NamesAreListedOnce` |
| `StoredCredentialsWork` | `Spec => []CredentialsWork` |
| `OnlyNamedClustersChange` | `Spec => OnlyTheNamedChange` |
| `AccessIsByTheFlags` | `Spec => []AccessFollowsTheFlags` |

`CredentialsWork` speaks of stored Secrets and is not inductive: the step that
stores one needs that the process has got everything it stands for. `Achieved`
says what a process has done by the call it is at (the account after
`CreateServiceAccount`, the current rules after the role was created or updated,
a binding, a token that is the account's), unless its cluster was edited by hand
since it started. The inductive invariant is `Provisioned`: types, `Achieved` and
`CredentialsWork`. Its heart is `NothingIsLost`: what one process achieved, no call
of another takes back. `OnlyTheNamedChange` rests on `Named` (a Secret that was
not written by hand carries a name that leads to it) and on
`EntryDependsOnItsName`. `AccessIsByTheFlags` is a case split over mode and
identity headers, with a lemma on the highest of a set of roles.

`AnalysisProofs` is about the checks and reports, without a state. Three of its
theorems are of interest by themselves, for any numbers of findings:
`ScoreIsBounded` (0 to 100), `MoreFindingsNeverScoreBetter` and `GradesAreHonest`
(more findings never give a better grade, and a critical one never leaves an A).
The rest is what `GuardianProofs` rests on, and `GuardianProofs` proves, for any
objects the API server admits, any options, any kinds served, any denied lists and
any number of changes between two runs:

| Theorem | Statement |
|---|---|
| `GuardianIsTyped` | `Spec => []TypeOK` |
| `CountsAreSilent` | `Spec => []CountsStaySilent` |
| `DeniedListsHide` | `Spec => []DeniedListsOnlyHide` |
| `RulesSuffice` | `Spec => []GrantedRulesSuffice` |
| `CleanupIsSafe` | `Spec => []CleanupBreaksNothing` |
| `LintForetells` | `Spec => []LintPredictsLive` |
| `BlockingIsExact` | `Spec => []BlockingPDBsAreExact` |
| `TeamsHearTheirOwn` | `Spec => []TeamsHearOfTheirOwn` |
| `SummaryIsConsistent` | `Spec => []ComplianceSummaryIsConsistent` |
| `GateSees` | `Spec => []GateSeesWhatIsPrinted` |
| `FollowedRecommendationsEnd` | `Spec => []RightsizingIsStable` |

*Assumptions.* `ObjectsAssumption`: a cluster is finite, each object has the fields
and ranges that the API server validates (`Kube!IsObject`), an identity belongs to
one object, a count of replicas is not nil, and what every cluster holds is in its
namespaces. `KindsAssumption`: the kinds served are among those `Collect` lists and
include the core ones, and a deniable one is core. `OptionsAssumption`: options have
the fields that properties set, costs are natural numbers, the severity is one the
flag accepts, and "" is no team. `Rank`, `Stem` and `Lower` are any functions of a
name, but for `Rank` being a number.

*The inductive invariant.* The properties compare the last report with something
computed from the cluster as it is now, under the guard `JustScanned`. What makes
them meet is `Latest`: as long as nothing has changed since the last recorded run,
its report is the analysis of the cluster as it is and the inbox what was posted
of the window. `Latest` speaks of lists with nothing denied, so it needs `Answers`
(the hub loses only deniable lists, and gets back all: with the core lists
answered, all are). `UniqueNames` makes "the object with this identity" one
object, which a set of records does not say; `Housed` puts every object in a
namespace there is; `IsWindow` says that the window is a sequence of at most two
runs. Their conjunction with `TypeOK` is `IInv`, which TLC finds to hold on the
instance of run `analysis`; it is not listed there, as it says no more to a user.
From `IInv` each property is a statement about `Collect`, `Analyze` and `Report`.

*Types of reports.* `AnalysisProofs` first shows, check by check, that on a valid
snapshot the findings are finite and well formed: severities and counts in range,
sums over containers natural numbers (`SumUnfolds` and `SumIsNat`, by the smallest
counterexample in place of an induction), cut-off lists existing (`CHOOSE` of the worst of a
non-empty finite set). That is what TypeOK, the summary and the gate need.

*Comparisons of two analyses.* `DeniedListsHide`, `RulesSuffice` and
`CleanupIsSafe` compare a snapshot with a smaller one. Every check has a frame
lemma: it reads only certain kinds, so it says the same of two snapshots that agree
on those (`SameBesides`). `DeniedListsHide` is then left with the checks that read
Secrets or Nodes, which only say less without them. `CleanupIsSafe` is left with the
four that read ConfigMaps or Secrets: what is unused after the cleanup was
unused before (a referenced object is not deleted, and no reference goes away), and
no certificate or missing TLS Secret is affected. That pods still start is a
separate argument, since `canStart` follows all volumes: what it needs beyond
`specRefs` is what drivers are given, the exception the property names.
`BlockingIsExact` sums over the templates a budget selects: the sum is at least each
of its terms (`SumAtLeast`), hence completeness, and equals the only one, hence
exactness. `GateSees` recounts
the summary's numbers as cardinalities and uses the score's monotonicity.

*Lint.* `LintForetells` compares two snapshots that share no pod: one of templates
without a status, and one of the healthy pods they make, with Secrets whose data is
stripped and values filled in. It goes by a third, `writtenSnapshot`, which is what
would be loaded of manifests that leave nothing out. From the live snapshot to that
one, `Deploys` is the correspondence: all kinds but two are equal, each pod has one
with the same namespace, labels and spec in the other, each Secret one with the same
name, type and expiry (`WrittenDeploys`). Check by check, a finding of the live
analysis then has one that says the same of the same object and shows at least the
names it shows (`Foretold`): equal where a check reads no pod or Secret, by the
correspondence where it does. Counts differ (a count of pods is one of templates) but
are zero together, and the controls the summary names are a subset.
`AboutTLSTold` leaves the first exception: a missing TLS Secret. From there to what
is loaded, `Omits` says that each object is its declaration (`LoadOmits`): the List
and the namespaces left out read back as the objects they were written from
(`LoadedBack`, from `IsRecord` and the List being nested once), and a declaration
differs in what the API server fills in only (`DeclaredFields`). Checks that read
none of it say the same. `DeclaredNamespace` and `DeclaredCertificates` leave the
other two exceptions; `LongerListReports` says that a list of PVCs all taken for
unbound mentions those that are, or is cut off. `LoadCovers` needs `Housed`: without
it manifests would cover namespaces that the cluster does not declare.

Lemmas give one explicit conclusion each and keep set expressions such as
`answered \ {denied}` behind a name of their own (`denying`, `setApart`): the
provers rewrite them in place otherwise, and the leaf no longer matches.

## 6. What is not modelled

Rendering, YAML/JSON encoding, kubeconfig and HTTP plumbing and the Helm
templates: no state and no decision worth a model. Metrics are read and never
read back. Of the single-cluster hub, scheduled deliveries are left out (the
fleet's are modelled), and of the hub's own cluster in fleet mode, that it is
analysed and alerted by `Server.report` and by the fleet, each with a history of
its own.

In the analysis, findings are a set, so findings that agree in everything the model
keeps count once, and the names shown in a message are a set too: their order does
not enter a finding's key. Of what the API server and the controllers add to an
object, the deployed cluster has the status, `replicas` and what `stringData` becomes;
requests taken over from limits, labels that controllers add and the default
ServiceAccounts are left out. The first would only take findings away from the live
analysis. A manifest holds no Pod of its own, and the live version is taken as
unknown, as lint's is.

### Observations

Where the code does something a reader may not expect, the model does the same
and the properties are stated around it:

- *History.* Two runs of one millisecond share a file, so the second replaces the
  first, and pruning the first deletes the second's. A run recorded after a newer
  one is the newest until the hub restarts, and then takes its place by time.
- *Alerts.* A finding's key has no severity: a certificate that goes from
  "warning" to "critical" is not new, so with the default
  `--notify-min-severity` nobody hears of it. Digits in names are normalised
  too: `node-2` becoming NotReady after `node-1` did is silent, and so is a fifth
  cluster-admin account when four are shown. A count going from 1 to 2 changes
  the wording and is new. Rightsizing findings name a workload without its
  namespace.
- *Denied lists.* Only Secrets and Nodes degrade by hiding findings. Without
  HPAs, NetworkPolicies or ConfigMaps, findings about their absence appear.
- *Teams.* The ConfigMap of `--teams-configmap` is where PUTs go, not where a hub
  starts from: that is `--teams-file` (`root.go:66-90`; `serve.go:280-282` only
  sets the store). With the command of README.md:325-329, which has no teams
  file, the stored mapping is not in use until the first PUT, and after a restart
  not until the next. The chart mounts the ConfigMap as the teams file as well.
- *Unused.* Of a pod's volumes only ConfigMaps, Secrets, PVCs and projected ones
  are looked into (`unused.go:177-194`). A Secret that a csi, azureFile,
  flexVolume, rbd, cephfs, iscsi, scaleIO or storageos volume is given is reported
  unused, and a pod cannot start once it is deleted. A Gateway may refer to a
  Secret of another namespace; the reference is skipped, so that Secret is reported
  unused where it lives.
- *Rightsizing.* The hint is `kubectl patch --type merge` with a list of one
  container (`rightsizing.go:249-253`). A JSON merge patch replaces lists whole, so
  the container would lose its image and the API server refuses the patch, which
  README.md:171 calls ready to apply: with `--type strategic` it would be. The
  property is about the values. Without memory samples the patch has a limit of 0Mi.
- *Lint* reads manifests as they are written (`load.go:204-230`), and README.md:190
  says "no drift". A Deployment without `replicas` is not a single-replica one to
  lint (`workloads.go:234`) and is to the live analysis, which sees the default of 1;
  a certificate in `stringData` is not looked at (`certificates.go:40` reads `data`).
  The other way round, no PVC has a status in a manifest, so lint reports each as
  unbound (`unused.go:50`). Missing TLS Secrets are never reported: that needs
  access to Secrets.
- *Gate.* A namespace in another letter case, or a mistyped `--team`, gives an
  empty report, score 100 and exit code 0. An unknown `--fail-on` is refused only
  after rendering.
- *PDBs.* A budget over several workloads is compared with each workload by itself
  (`disruption.go:51-57`), against the count of all its pods: `minAvailable: 2`
  over two replicas and a third pod allows an eviction and is reported to allow none
  (`disruption.go:14-16` says "PDBs that permit zero disruptions"). Percentages other
  than 0% and 100% are not looked at, and of workloads of one replica nothing is
  said. A budget that does keep a workload of several replicas is always reported.
- *Registration.* A re-run of `cluster add` with another `--sa-namespace` keeps the
  old binding, so the new account has no access; a re-run with the same one
  stores the token that exists (Provision's comment), where the command's help
  says that it rotates it. Names that sanitise alike overwrite each other. A
  POST with the hub's own name is accepted and never listed. A Secret declared
  by hand under another name cannot be deleted through the API.

## 7. Plan

In order of importance:

1. **Guardian, extended**: failing webhooks, a restart between two scans, and a
   larger cluster that mixes scenarios.
2. **Both histories of the hub's own cluster**: the one fed by `Server.report`
   next to the fleet's, with the notifier both share.
