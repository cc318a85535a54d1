---------------------------- MODULE FleetProofs -----------------------------
(***************************************************************************)
(* Fleet for every registry, semaphore width, limit and set of starts.    *)
(***************************************************************************)
EXTENDS Fleet, RunLogProofs, FiniteSetTheorems

\* A registry order of a set of remote clusters, with the local one in
\* front: a sequence that names each listed cluster once.
LEMMA LocalFirst ==
    ASSUME NEW S \in SUBSET Remotes,
           NEW remotes \in SetToSeqs(S)
    PROVE  LET names == <<Local>> \o remotes
           IN  /\ names \in Seq(S \cup {Local})
               /\ IsInjective(names)
               /\ Range(names) = S \cup {Local}
               /\ names # <<>>
               /\ names[1] = Local
<1> DEFINE names == <<Local>> \o remotes
<1>1. IsFiniteSet(S) /\ Cardinality(S) \in Nat
  BY FS_Subset, FS_CardinalityType, FleetAssumption
<1>2. /\ remotes \in [1..Cardinality(S) -> S]
      /\ \A i, j \in 1..Cardinality(S) : i # j => remotes[i] # remotes[j]
  BY DEF SetToSeqs
<1>3. remotes \in Seq(S) /\ Len(remotes) = Cardinality(S)
  BY <1>1, <1>2, IsASeq, LenProperties
<1>4. /\ <<Local>> \in Seq(S \cup {Local})
      /\ remotes \in Seq(S \cup {Local})
      /\ Len(<<Local>>) = 1
  BY <1>3, SeqMonotonic
<1>5. /\ names \in Seq(S \cup {Local})
      /\ Len(names) = 1 + Len(remotes)
      /\ names[1] = Local
      /\ \A i \in 2..Len(names) : names[i] = remotes[i - 1]
  BY <1>3, <1>4, ConcatProperties
<1>6. IsInjective(names)
  <2> SUFFICES ASSUME NEW i \in DOMAIN names, NEW j \in DOMAIN names, i # j
               PROVE  names[i] # names[j]
    BY DEF IsInjective
  <2>1. DOMAIN names = 1..Len(names)
    BY <1>5, LenProperties
  <2>2. \A k \in 2..Len(names) : names[k] \in S /\ names[k] # Local
    BY <1>1, <1>2, <1>3, <1>5, FleetAssumption
  <2>3. CASE i = 1
    BY <1>5, <2>1, <2>2, <2>3
  <2>4. CASE j = 1
    BY <1>5, <2>1, <2>2, <2>4
  <2>5. CASE i # 1 /\ j # 1
    <3>1. i - 1 \in 1..Cardinality(S) /\ j - 1 \in 1..Cardinality(S)
      BY <1>1, <1>3, <1>5, <2>1, <2>5
    <3>2. remotes[i - 1] # remotes[j - 1]
      BY <1>2, <3>1
    <3>3. QED
      BY <1>5, <2>1, <2>5, <3>2
  <2>6. QED
    BY <2>3, <2>4, <2>5
<1>7. Range(names) = S \cup {Local}
  <2>1. remotes \in Injection(1..Cardinality(S), S)
    BY <1>2 DEF Injection, IsInjective
  <2>2. /\ IsFiniteSet(1..Cardinality(S))
        /\ Cardinality(1..Cardinality(S)) = Cardinality(S)
    BY <1>1, FS_Interval
  <2>3. remotes \in Surjection(1..Cardinality(S), S)
    BY <1>1, <2>1, <2>2, FS_Injection
  <2>4. \A n \in S : \E i \in 1..Cardinality(S) : remotes[i] = n
    BY <2>3 DEF Surjection
  <2>5. Range(remotes) = S
    BY <1>2, <2>4 DEF Range
  <2>6. Range(<<Local>>) = {Local}
    BY DEF Range
  <2>7. Range(<<Local>> \o remotes) = Range(<<Local>>) \cup Range(remotes)
    BY ONLY <1>4, RangeConcatenation
  <2>8. QED
    BY <2>5, <2>6, <2>7
<1>8. QED
  BY <1>5, <1>6, <1>7

\* A process that has just started holds well-typed, empty state.
LEMMA InitTypeOK == Init => TypeOK
<1> SUFFICES ASSUME Init PROVE TypeOK
  OBVIOUS
<1>1. EmptyRegistry \in Listing
  BY DEF EmptyRegistry, Listing
<1>2. NoJob \in Job
  BY DEF NoJob, Job, Results
<1>3. states = <<>> /\ DOMAIN states = {}
  BY DEF Init
<1>4. states \in [DOMAIN states -> ClusterState]
  BY <1>3
<1>5. \A n \in Clusters : history[n] \in Logs
  BY LimitAssumption DEF Init, Logs
<1>6. overlapped \in BOOLEAN
  BY Zenon DEF Init
<1>7. QED
  BY <1>1, <1>2, <1>3, <1>4, <1>5, <1>6 DEF Init, TypeOK

\* What a process loses when it dies leaves well-typed state behind.
LEMMA LostTypes ==
    ASSUME TypeOK, Lost
    PROVE  /\ pc' \in [ScanAlls -> {"idle", "list", "refresh", "scan"}]
           /\ listing' \in [ScanAlls -> Listing]
           /\ sem' \in [ScanAlls -> Nat]
           /\ job' \in [ScanAlls -> [Clusters -> Job]]
           /\ states' = <<>>
           /\ order' \in Seq(Clusters)
           /\ history' \in [Clusters -> Logs]
           /\ outbox' \subseteq Alert
<1>1. EmptyRegistry \in Listing
  BY DEF EmptyRegistry, Listing
<1>2. NoJob \in Job
  BY DEF NoJob, Job, Results
<1>3. <<>> \in Logs
  BY LimitAssumption DEF Logs
<1>4. QED
  BY <1>1, <1>2, <1>3 DEF Lost, TypeOK

\* Every step keeps the types.  That a semaphore never goes below zero needs
\* BoundedConcurrency: a goroutine that returned still holds a slot.
LEMMA TypeOKStep == TypeOK /\ BoundedConcurrency /\ [Next]_vars => TypeOK'
<1> SUFFICES ASSUME TypeOK, BoundedConcurrency, [Next]_vars
             PROVE  TypeOK'
  OBVIOUS
<1> USE DEF environment, scanning, shared, alerting
<1>1. ASSUME NEW n \in Clusters, NEW f \in Findings, FindingAppears(n, f)
      PROVE  TypeOK'
  <2>1. world' \in [Clusters -> Reports]
    BY <1>1 DEF FindingAppears, TypeOK, Reports
  <2>2. alerts' \in [Clusters -> [Findings -> 0..2]]
    BY <1>1 DEF FindingAppears, TypeOK
  <2>3. QED
    BY <1>1, <2>1, <2>2 DEF FindingAppears, TypeOK
<1>2. ASSUME NEW n \in Clusters, NEW f \in Findings, FindingResolved(n, f)
      PROVE  TypeOK'
  BY <1>2 DEF FindingResolved, TypeOK, Reports
<1>3. ASSUME NEW n \in Remotes, NEW s \in Servers \cup {NoSecret}, EditSecret(n, s)
      PROVE  TypeOK'
  BY <1>3 DEF EditSecret, TypeOK, Listing
<1>4. ASSUME NEW n \in Remotes, NEW s \in Servers, NEW q \in Rescans, CreateCluster(n, s, q)
      PROVE  TypeOK'
  BY <1>4 DEF CreateCluster, start, TypeOK, Listing
<1>5. ASSUME NEW n \in Remotes, NEW q \in Rescans, DeleteCluster(n, q)
      PROVE  TypeOK'
  BY <1>5 DEF DeleteCluster, start, TypeOK, Listing
<1>6. CASE Tick
  BY <1>6 DEF Tick, start, TypeOK, ScanAlls
<1>7. ASSUME NEW p \in ScanAlls, List(p)
      PROVE  TypeOK'
  BY <1>7 DEF List, TypeOK
<1>8. ASSUME NEW p \in ScanAlls, ListFails(p)
      PROVE  TypeOK'
  <2>1. EmptyRegistry \in Listing
    BY DEF EmptyRegistry, Listing
  <2>2. QED
    BY <1>8, <2>1 DEF ListFails, TypeOK
<1>9. ASSUME NEW p \in ScanAlls, Refresh(p)
      PROVE  TypeOK'
  <2>1. EmptyRegistry \in Listing
    BY DEF EmptyRegistry, Listing
  <2>2. listing' \in [ScanAlls -> Listing] /\ pc' \in [ScanAlls -> {"idle", "list", "refresh", "scan"}]
    BY <1>9, <2>1 DEF Refresh, TypeOK
  <2>3. Listed(p) \subseteq Clusters
    BY DEF Listed, ListedRemotes, Clusters
  <2>4. \A n \in Listed(p) : ServerOf(p, n) \in Server
    BY DEF Listed, ListedRemotes, ServerOf, Server, TypeOK, Listing
  <2>5. \A n \in Listed(p) : Tracked(p)[n] \in ClusterState
    BY <2>4 DEF Tracked, Fresh, ClusterState, TypeOK, Results
  <2>6. DOMAIN states' = Listed(p) /\ states' \in [DOMAIN states' -> ClusterState]
    BY <1>9, <2>5 DEF Refresh, Tracked
  <2>7. order' \in Seq(Clusters)
    <3>1. PICK remotes \in SetToSeqs(ListedRemotes(p)) : order' = <<Local>> \o remotes
      BY <1>9 DEF Refresh
    <3>2. order' \in Seq(Listed(p))
      BY <3>1, LocalFirst DEF ListedRemotes, Listed
    <3>3. QED
      BY <2>3, <3>2, SeqMonotonic
  <2>8. history' \in [Clusters -> Logs]
    BY <1>9, LimitAssumption DEF Refresh, TypeOK, Logs
  <2>9. job' \in [ScanAlls -> [Clusters -> Job]]
    BY <1>9 DEF Refresh, TypeOK, Job, NoJob, Results
  <2>10. QED
    BY <1>9, <2>2, <2>3, <2>6, <2>7, <2>8, <2>9 DEF Refresh, TypeOK
<1>10. ASSUME NEW p \in ScanAlls, NEW n \in Clusters, Acquire(p, n)
       PROVE  TypeOK'
  <2>1. sem' \in [ScanAlls -> Nat]
    BY <1>10 DEF Acquire, TypeOK
  <2>2. [job[p][n] EXCEPT !.at = "scanning"] \in Job
    <3>1. job[p][n] \in Job
      BY DEF TypeOK
    <3>2. QED
      BY <3>1 DEF Job
  <2>3. job' \in [ScanAlls -> [Clusters -> Job]]
    BY <1>10, <2>2 DEF Acquire, TypeOK
  <2>4. QED
    BY <1>10, <2>1, <2>3 DEF Acquire, TypeOK
<1>11. ASSUME NEW p \in ScanAlls, NEW n \in Clusters, ScanSucceeds(p, n)
       PROVE  TypeOK'
  BY <1>11 DEF ScanSucceeds, TypeOK, Job, Results
<1>12. ASSUME NEW p \in ScanAlls, NEW n \in Clusters, ScanFails(p, n)
       PROVE  TypeOK'
  BY <1>12 DEF ScanFails, TypeOK, Job, Results
<1>13. ASSUME NEW p \in ScanAlls, NEW n \in Clusters,
              job[p][n].at = "returned", Finish(p, n)
       PROVE  /\ sem' \in [ScanAlls -> Nat]
              /\ job' \in [ScanAlls -> [Clusters -> Job]]
  <2>1. IsFiniteSet(Clusters)
    BY FS_AddElement, FleetAssumption DEF Clusters
  <2>2. Holding(p) \subseteq Clusters /\ n \in Holding(p)
    BY <1>13 DEF Holding
  <2>3. IsFiniteSet(Holding(p)) /\ Cardinality(Holding(p)) \in Nat /\ Cardinality(Holding(p)) # 0
    BY <2>1, <2>2, FS_Subset, FS_CardinalityType, FS_EmptySet
  <2>4. sem[p] \in Nat /\ sem[p] # 0
    BY <2>3 DEF BoundedConcurrency
  <2>5. NoJob \in Job
    BY DEF NoJob, Job, Results
  <2>6. QED
    BY <1>13, <2>4, <2>5 DEF Finish, TypeOK
<1>14. ASSUME NEW p \in ScanAlls, NEW n \in Clusters, StoreError(p, n)
       PROVE  TypeOK'
  <2>1. sem' \in [ScanAlls -> Nat] /\ job' \in [ScanAlls -> [Clusters -> Job]]
    BY <1>13, <1>14 DEF StoreError
  <2>2. DOMAIN states' = DOMAIN states /\ states' \in [DOMAIN states' -> ClusterState]
    BY <1>14 DEF StoreError, AfterError, TypeOK, ClusterState
  <2>3. QED
    BY <1>14, <2>1, <2>2 DEF StoreError, TypeOK
<1>15. ASSUME NEW p \in ScanAlls, NEW n \in Clusters, StoreReport(p, n)
       PROVE  TypeOK'
  <2>1. sem' \in [ScanAlls -> Nat] /\ job' \in [ScanAlls -> [Clusters -> Job]]
    BY <1>13, <1>15 DEF StoreReport
  <2>2. PICK r \in job[p][n].result :
          /\ states' = [states EXCEPT ![n].scanned = TRUE, ![n].failed = FALSE,
                                      ![n].report = {r}]
          /\ history' = [history EXCEPT ![n] = Push(history[n], r)]
          /\ outbox' = IF NewFindings(Push(history[n], r)) = {} THEN outbox
                       ELSE outbox \cup {[cluster |-> n, new |-> NewFindings(Push(history[n], r))]}
          /\ alerts' = [alerts EXCEPT ![n] = [f \in Findings |->
                IF f \in NewFindings(Push(history[n], r)) /\ @[f] < 2
                THEN @[f] + 1 ELSE @[f]]]
    BY <1>15 DEF StoreReport
  <2>3. r \in Reports
    <3>1. job[p][n].result \in Results
      BY DEF TypeOK, Job
    <3>2. QED
      BY <2>2, <3>1 DEF Results, NoReport
  <2>4. history[n] \in Logs /\ Push(history[n], r) \in Logs
    BY <2>3, PushProperties DEF TypeOK
  <2>5. history' \in [Clusters -> Logs]
    BY <2>2, <2>4 DEF TypeOK
  <2>6. outbox' \subseteq Alert
    BY <2>2, <2>4, NewFindingsType DEF TypeOK, Alert
  <2>7. DOMAIN states' = DOMAIN states /\ states' \in [DOMAIN states' -> ClusterState]
    <3>1. n \in DOMAIN states /\ {r} \in Results
      BY <1>15, <2>3 DEF StoreReport, Results
    <3>2. [states[n] EXCEPT !.scanned = TRUE, !.failed = FALSE, !.report = {r}]
            \in ClusterState
      BY <3>1 DEF TypeOK, ClusterState
    <3>3. states' = [states EXCEPT ![n] =
             [states[n] EXCEPT !.scanned = TRUE, !.failed = FALSE, !.report = {r}]]
      BY <2>2, <3>1 DEF TypeOK, ClusterState
    <3>4. QED
      BY <3>1, <3>2, <3>3 DEF TypeOK
  <2>8. alerts' \in [Clusters -> [Findings -> 0..2]]
    <3>1. \A f \in Findings : alerts[n][f] \in 0..2
      BY DEF TypeOK
    <3>2. [f \in Findings |-> IF f \in NewFindings(Push(history[n], r)) /\ alerts[n][f] < 2
                              THEN alerts[n][f] + 1 ELSE alerts[n][f]]
            \in [Findings -> 0..2]
      BY <3>1
    <3>3. QED
      BY <2>2, <3>2 DEF TypeOK
  <2>9. QED
    BY <1>15, <2>1, <2>5, <2>6, <2>7, <2>8 DEF StoreReport, TypeOK
<1>16. ASSUME NEW p \in ScanAlls, NEW n \in Clusters, Panic(p, n)
       PROVE  TypeOK'
  <2>1. states' = <<>> /\ DOMAIN states' = {} /\ states' \in [DOMAIN states' -> ClusterState]
    BY <1>16, LostTypes DEF Panic
  <2>2. QED
    BY <1>16, <2>1, LostTypes DEF Panic, TypeOK
<1>17. ASSUME NEW p \in ScanAlls, Return(p)
       PROVE  TypeOK'
  BY <1>17 DEF Return, TypeOK
<1>18. ASSUME NEW a \in outbox, Notify(a)
       PROVE  TypeOK'
  BY <1>18 DEF Notify, TypeOK
<1>19. CASE Kill
  <2>1. states' = <<>> /\ DOMAIN states' = {} /\ states' \in [DOMAIN states' -> ClusterState]
    BY <1>19, LostTypes DEF Kill
  <2>2. QED
    BY <1>19, <2>1, LostTypes DEF Kill, TypeOK
<1>20. CASE Restart
  BY <1>20 DEF Restart, Started, TypeOK
<1>21. CASE UNCHANGED vars
  BY <1>21 DEF vars, TypeOK
<1>22. QED
  BY <1>1, <1>2, <1>3, <1>4, <1>5, <1>6, <1>7, <1>8, <1>9, <1>10, <1>11, <1>12,
     <1>14, <1>15, <1>16, <1>17, <1>18, <1>19, <1>20, <1>21
     DEF Next, Environment, ScanAll, ScanStep

\* The fleet is finite, so a ScanAll's goroutines can be counted.
LEMMA ClustersFinite == IsFiniteSet(Clusters)
BY FS_AddElement, FleetAssumption DEF Clusters

\* A ScanAll that has no goroutine holds no slot.
LEMMA NoJobHoldsNothing ==
    ASSUME NEW jobs, NEW S,
           S = {n \in Clusters : jobs[n].at \in {"scanning", "returned"}},
           \A n \in Clusters : jobs[n].at \in {"none", "queued"}
    PROVE  S = {} /\ Cardinality(S) = 0
<1>1. S = {}
  OBVIOUS
<1>2. QED
  BY <1>1, FS_EmptySet

\* The end of the process takes goroutines and semaphores away together.
LEMMA LostConcurrency ==
    ASSUME TypeOK, Lost
    PROVE  BoundedConcurrency'
<1> SUFFICES ASSUME NEW p \in ScanAlls
             PROVE  /\ sem'[p] = Cardinality(Holding(p)')
                    /\ sem'[p] <= SemWidth
                    /\ \A n \in Clusters : job'[p][n] = NoJob
                    /\ pc'[p] = "idle"
  BY DEF BoundedConcurrency
<1>1. \A n \in Clusters : job'[p][n] = NoJob
  BY DEF Lost
<1>2. Cardinality(Holding(p)') = 0
  BY <1>1, NoJobHoldsNothing DEF Holding, NoJob
<1>3. sem'[p] = 0 /\ pc'[p] = "idle"
  BY DEF Lost
<1>4. QED
  BY <1>1, <1>2, <1>3, FleetAssumption

\* A step of the goroutine of p for n leaves the other goroutines alone.
LEMMA OtherJobs ==
    ASSUME TypeOK, NEW p \in ScanAlls, NEW n \in Clusters, NEW j,
           job' = [job EXCEPT ![p] = [@ EXCEPT ![n] = j]]
    PROVE  /\ job'[p][n] = j
           /\ \A m \in Clusters \ {n} : job'[p][m] = job[p][m]
           /\ \A q \in ScanAlls \ {p} : job'[q] = job[q]
BY DEF TypeOK

\* The three ways a goroutine of p changes what p's semaphore must count.
LEMMA ConcurrencyOfStep ==
    ASSUME TypeOK, BoundedConcurrency, pc' = pc, proc' = proc,
           NEW p \in ScanAlls, NEW n \in Clusters, NEW j,
           job[p][n] # NoJob,
           job' = [job EXCEPT ![p] = [@ EXCEPT ![n] = j]],
           \/ /\ job[p][n].at = "queued" /\ j.at = "scanning"
              /\ sem[p] < SemWidth /\ sem' = [sem EXCEPT ![p] = @ + 1]
           \/ /\ job[p][n].at = "scanning" /\ j.at = "returned"
              /\ sem' = sem
           \/ /\ job[p][n].at = "returned" /\ j.at = "none"
              /\ sem' = [sem EXCEPT ![p] = @ - 1]
    PROVE  BoundedConcurrency'
<1>1. /\ job'[p][n] = j
      /\ \A m \in Clusters \ {n} : job'[p][m] = job[p][m]
      /\ \A q \in ScanAlls \ {p} : job'[q] = job[q]
  BY OtherJobs
<1>2. pc[p] = "scan" /\ proc = "up"
  BY DEF BoundedConcurrency
<1>3. /\ IsFiniteSet(Holding(p))
      /\ sem[p] = Cardinality(Holding(p))
      /\ sem[p] \in Nat
      /\ sem[p] <= SemWidth
  <2>1. Holding(p) \in SUBSET Clusters
    BY DEF Holding
  <2>2. QED
    BY <2>1, ClustersFinite, FS_Subset DEF BoundedConcurrency, TypeOK
<1>4. sem'[p] = Cardinality(Holding(p)') /\ sem'[p] <= SemWidth
  <2>1. CASE job[p][n].at = "queued" /\ j.at = "scanning"
    <3>1. n \notin Holding(p) /\ Holding(p)' = Holding(p) \cup {n}
      BY <1>1, <2>1 DEF Holding
    <3>2. Cardinality(Holding(p)') = sem[p] + 1
      BY <1>3, <3>1, FS_AddElement
    <3>3. sem'[p] = sem[p] + 1 /\ sem[p] < SemWidth
      BY <2>1 DEF TypeOK
    <3>4. QED
      BY <1>3, <3>2, <3>3, FleetAssumption
  <2>2. CASE job[p][n].at = "scanning" /\ j.at = "returned"
    <3>1. Holding(p)' = Holding(p)
      BY <1>1, <2>2 DEF Holding
    <3>2. sem' = sem
      BY <2>2
    <3>3. QED
      BY <1>3, <3>1, <3>2
  <2>3. CASE job[p][n].at = "returned" /\ j.at = "none"
    <3>1. n \in Holding(p) /\ Holding(p)' = Holding(p) \ {n}
      BY <1>1, <2>3 DEF Holding
    <3>2. Cardinality(Holding(p)') = sem[p] - 1
      BY <1>3, <3>1, FS_RemoveElement
    <3>3. sem'[p] = sem[p] - 1
      BY <2>3 DEF TypeOK
    <3>4. QED
      BY <1>3, <3>2, <3>3, FleetAssumption
  <2>4. QED
    BY <2>1, <2>2, <2>3
<1>5. ASSUME NEW q \in ScanAlls, q # p
      PROVE  /\ sem'[q] = Cardinality(Holding(q)')
             /\ sem'[q] <= SemWidth
             /\ pc'[q] # "scan" => \A m \in Clusters : job'[q][m] = NoJob
             /\ proc' # "up" => pc'[q] = "idle"
  <2>1. Holding(q)' = Holding(q)
    BY <1>1, <1>5 DEF Holding
  <2>2. sem'[q] = sem[q]
    BY <1>5 DEF TypeOK
  <2>3. QED
    BY <1>1, <1>5, <2>1, <2>2 DEF BoundedConcurrency
<1>6. QED
  BY <1>2, <1>4, <1>5 DEF BoundedConcurrency

\* A step that runs no goroutine's code and ends no ScanAll at work.
LEMMA ConcurrencyOfOtherSteps ==
    ASSUME TypeOK, BoundedConcurrency,
           job' = job, sem' = sem,
           \A p \in ScanAlls : /\ pc'[p] = "scan" <=> pc[p] = "scan"
                               /\ proc' # "up" => pc'[p] = "idle"
    PROVE  BoundedConcurrency'
<1>1. \A p \in ScanAlls : Holding(p)' = Holding(p)
  BY DEF Holding
<1>2. QED
  BY <1>1 DEF BoundedConcurrency

\* Every step keeps the semaphores counted: Acquire takes a slot where one is
\* free, both ends of a goroutine give it back, and no other step matters.
LEMMA BoundedConcurrencyStep ==
    TypeOK /\ BoundedConcurrency /\ [Next]_vars => BoundedConcurrency'
<1> SUFFICES ASSUME TypeOK, BoundedConcurrency, [Next]_vars
             PROVE  BoundedConcurrency'
  OBVIOUS
<1> USE DEF environment, scanning, shared, alerting
<1>1. ASSUME NEW n \in Clusters, NEW f \in Findings,
             FindingAppears(n, f) \/ FindingResolved(n, f)
      PROVE  BoundedConcurrency'
  <2>1. UNCHANGED <<proc, pc, sem, job>>
    BY <1>1 DEF FindingAppears, FindingResolved
  <2>2. QED
    BY <2>1, ConcurrencyOfOtherSteps DEF BoundedConcurrency
<1>2. ASSUME NEW n \in Remotes, NEW s \in Servers \cup {NoSecret}, EditSecret(n, s)
      PROVE  BoundedConcurrency'
  <2>1. UNCHANGED <<proc, pc, sem, job>>
    BY <1>2 DEF EditSecret
  <2>2. QED
    BY <2>1, ConcurrencyOfOtherSteps DEF BoundedConcurrency
<1>3. ASSUME NEW n \in Remotes, NEW q \in Rescans,
             (\E s \in Servers : CreateCluster(n, s, q)) \/ DeleteCluster(n, q)
      PROVE  BoundedConcurrency'
  <2>1. proc = "up" /\ UNCHANGED <<proc, sem, job>> /\ start(q)
    BY <1>3 DEF CreateCluster, DeleteCluster, start
  <2>2. \A p \in ScanAlls : pc'[p] = "scan" <=> pc[p] = "scan"
    BY <2>1 DEF start, TypeOK
  <2>3. QED
    BY <2>1, <2>2, ConcurrencyOfOtherSteps
<1>4. CASE Tick
  <2>1. proc = "up" /\ UNCHANGED <<proc, sem, job>>
    BY <1>4 DEF Tick, start, ScanAlls
  <2>2. \A p \in ScanAlls : pc'[p] = "scan" <=> pc[p] = "scan"
    BY <1>4 DEF Tick, start, TypeOK, ScanAlls
  <2>3. QED
    BY <2>1, <2>2, ConcurrencyOfOtherSteps
<1>5. ASSUME NEW p \in ScanAlls, List(p) \/ ListFails(p)
      PROVE  BoundedConcurrency'
  <2>1. proc = "up" /\ UNCHANGED <<proc, sem, job>>
    BY <1>5 DEF List, ListFails
  <2>2. \A q \in ScanAlls : pc'[q] = "scan" <=> pc[q] = "scan"
    BY <1>5 DEF List, ListFails, TypeOK
  <2>3. QED
    BY <2>1, <2>2, ConcurrencyOfOtherSteps
<1>6. ASSUME NEW p \in ScanAlls, Refresh(p)
      PROVE  BoundedConcurrency'
  <2>1. /\ proc = "up" /\ UNCHANGED <<proc, sem>>
        /\ pc[p] = "refresh" /\ pc'[p] = "scan"
        /\ \A n \in Clusters : job'[p][n].at \in {"none", "queued"}
        /\ \A q \in ScanAlls \ {p} : pc'[q] = pc[q] /\ job'[q] = job[q]
    BY <1>6 DEF Refresh, TypeOK, NoJob
  <2>2. \A n \in Clusters : job[p][n].at = "none"
    BY <2>1 DEF BoundedConcurrency, NoJob
  <2>3. Cardinality(Holding(p)) = 0
    BY <2>2, NoJobHoldsNothing DEF Holding
  <2>4. Cardinality(Holding(p)') = 0
    BY <2>1, NoJobHoldsNothing DEF Holding
  <2>5. \A q \in ScanAlls \ {p} : Holding(q)' = Holding(q)
    BY <2>1 DEF Holding
  <2>6. QED
    BY <2>1, <2>3, <2>4, <2>5 DEF BoundedConcurrency
<1>7. ASSUME NEW p \in ScanAlls, NEW n \in Clusters,
             \/ Acquire(p, n) \/ ScanSucceeds(p, n) \/ ScanFails(p, n)
             \/ StoreError(p, n) \/ StoreReport(p, n)
      PROVE  BoundedConcurrency'
  <2>1. job[p][n] # NoJob /\ UNCHANGED <<pc, proc>>
    BY <1>7 DEF Acquire, ScanSucceeds, ScanFails, StoreError, StoreReport, NoJob
  <2>2. CASE Acquire(p, n)
    <3>1. job' = [job EXCEPT ![p] = [@ EXCEPT ![n] = [job[p][n] EXCEPT !.at = "scanning"]]]
      BY <2>2 DEF Acquire, TypeOK
    <3>2. [job[p][n] EXCEPT !.at = "scanning"].at = "scanning"
      BY DEF TypeOK, Job
    <3>3. QED
      BY <2>1, <2>2, <3>1, <3>2, ConcurrencyOfStep DEF Acquire, SlotFree
  <2>3. CASE ScanSucceeds(p, n)
    <3> DEFINE j == [at |-> "returned", result |-> {world[n]}]
    <3>1. job' = [job EXCEPT ![p] = [@ EXCEPT ![n] = j]]
      BY <2>3 DEF ScanSucceeds, TypeOK
    <3>2. job[p][n].at = "scanning" /\ j.at = "returned" /\ sem' = sem
      BY <2>3 DEF ScanSucceeds
    <3> HIDE DEF j
    <3>3. QED
      BY <2>1, <3>1, <3>2, ConcurrencyOfStep
  <2>4. CASE ScanFails(p, n)
    <3> DEFINE j == [at |-> "returned", result |-> NoReport]
    <3>1. job' = [job EXCEPT ![p] = [@ EXCEPT ![n] = j]]
      BY <2>4 DEF ScanFails, TypeOK
    <3>2. job[p][n].at = "scanning" /\ j.at = "returned" /\ sem' = sem
      BY <2>4 DEF ScanFails
    <3> HIDE DEF j
    <3>3. QED
      BY <2>1, <3>1, <3>2, ConcurrencyOfStep
  <2>5. CASE StoreError(p, n) \/ StoreReport(p, n)
    <3>1. job[p][n].at = "returned" /\ Finish(p, n)
      BY <2>5 DEF StoreError, StoreReport
    <3>2. job' = [job EXCEPT ![p] = [@ EXCEPT ![n] = NoJob]]
      BY <3>1 DEF Finish, TypeOK
    <3>3. NoJob.at = "none"
      BY DEF NoJob
    <3>4. QED
      BY <2>1, <3>1, <3>2, <3>3, ConcurrencyOfStep DEF Finish
  <2>6. QED
    BY <1>7, <2>2, <2>3, <2>4, <2>5
<1>8. ASSUME NEW p \in ScanAlls, NEW n \in Clusters, Panic(p, n)
      PROVE  BoundedConcurrency'
  BY <1>8, LostConcurrency DEF Panic
<1>9. ASSUME NEW p \in ScanAlls, Return(p)
      PROVE  BoundedConcurrency'
  <2>1. /\ proc = "up" /\ UNCHANGED <<proc, sem, job>>
        /\ \A n \in Clusters : job[p][n] = NoJob
        /\ \A q \in ScanAlls \ {p} : pc'[q] = pc[q]
    BY <1>9 DEF Return, TypeOK
  <2>2. \A q \in ScanAlls : Holding(q)' = Holding(q)
    BY <2>1 DEF Holding
  <2>3. QED
    BY <2>1, <2>2 DEF BoundedConcurrency
<1>10. ASSUME NEW a \in outbox, Notify(a)
       PROVE  BoundedConcurrency'
  <2>1. UNCHANGED <<proc, pc, sem, job>>
    BY <1>10 DEF Notify
  <2>2. QED
    BY <2>1, ConcurrencyOfOtherSteps DEF BoundedConcurrency
<1>11. CASE Kill
  BY <1>11, LostConcurrency DEF Kill
<1>12. CASE Restart
  <2>1. proc # "up" /\ proc' = "up" /\ UNCHANGED <<sem, job>>
    BY <1>12 DEF Restart, Started
  <2>2. \A p \in ScanAlls : pc[p] # "scan" /\ pc'[p] # "scan"
    BY <1>12, <2>1 DEF Restart, Started, BoundedConcurrency
  <2>3. QED
    BY <2>1, <2>2, ConcurrencyOfOtherSteps
<1>13. CASE UNCHANGED vars
  <2>1. UNCHANGED <<proc, pc, sem, job>>
    BY <1>13 DEF vars
  <2>2. QED
    BY <2>1, ConcurrencyOfOtherSteps DEF BoundedConcurrency
<1>14. QED
  BY <1>1, <1>2, <1>3, <1>4, <1>5, <1>6, <1>7, <1>8, <1>9, <1>10, <1>11, <1>12, <1>13
     DEF Next, Environment, ScanAll, ScanStep

\* What a step does to the state the API serves: nothing, or it is the
\* locked section of a ScanAll, the end of a scan, or the end of the process.
LEMMA SharedSteps ==
    ASSUME TypeOK, [Next]_vars
    PROVE  \/ UNCHANGED shared
           \/ \E p \in ScanAlls : Refresh(p)
           \/ \E p \in ScanAlls, n \in Clusters : StoreError(p, n) \/ StoreReport(p, n)
           \/ Lost
BY DEF Next, Environment, ScanAll, ScanStep, vars, FindingAppears, FindingResolved,
       EditSecret, CreateCluster, DeleteCluster, Tick, List, ListFails, Acquire,
       ScanSucceeds, ScanFails, Panic, Return, Notify, Kill, Restart, alerting

\* The empty order names no cluster and none twice.
LEMMA EmptyOrder == Range(<<>>) = {} /\ IsInjective(<<>>)
BY DEF Range, IsInjective

\* Refresh rebuilds order and map from one list; scans only update entries
\* that are in the map; a lost process leaves both empty.
LEMMA OrderMatchesStatesStep ==
    TypeOK /\ OrderMatchesStates /\ [Next]_vars => OrderMatchesStates'
<1> SUFFICES ASSUME TypeOK, OrderMatchesStates, [Next]_vars
             PROVE  OrderMatchesStates'
  OBVIOUS
<1>1. CASE UNCHANGED shared
  BY <1>1 DEF shared, OrderMatchesStates
<1>2. ASSUME NEW p \in ScanAlls, Refresh(p)
      PROVE  OrderMatchesStates'
  <2>1. PICK remotes \in SetToSeqs(ListedRemotes(p)) : order' = <<Local>> \o remotes
    BY <1>2 DEF Refresh
  <2>2. ListedRemotes(p) \in SUBSET Remotes
    BY DEF ListedRemotes
  <2>3. /\ Range(order') = Listed(p)
        /\ IsInjective(order')
        /\ order'[1] = Local
    BY <2>1, <2>2, LocalFirst DEF Listed
  <2>4. DOMAIN states' = Listed(p)
    BY <1>2 DEF Refresh, Tracked
  <2>5. QED
    BY <2>3, <2>4 DEF OrderMatchesStates
<1>3. ASSUME NEW p \in ScanAlls, NEW n \in Clusters, StoreError(p, n) \/ StoreReport(p, n)
      PROVE  OrderMatchesStates'
  <2>1. order' = order /\ DOMAIN states' = DOMAIN states
    BY <1>3 DEF StoreError, StoreReport
  <2>2. QED
    BY <2>1 DEF OrderMatchesStates
<1>4. CASE Lost
  BY <1>4, EmptyOrder DEF Lost, OrderMatchesStates
<1>5. QED
  BY <1>1, <1>2, <1>3, <1>4, SharedSteps

\* A stored report is pushed to the history of the same cluster in the same
\* critical section; Refresh drops a history only with the cluster's state.
LEMMA ReportIsNewestRunStep ==
    TypeOK /\ ReportIsNewestRun /\ [Next]_vars => ReportIsNewestRun'
<1> SUFFICES ASSUME TypeOK, ReportIsNewestRun, [Next]_vars
             PROVE  ReportIsNewestRun'
  OBVIOUS
<1>1. CASE UNCHANGED shared
  BY <1>1 DEF shared, ReportIsNewestRun
<1>2. ASSUME NEW p \in ScanAlls, Refresh(p)
      PROVE  ReportIsNewestRun'
  <2> SUFFICES ASSUME NEW n \in DOMAIN states', NEW r \in states'[n].report
               PROVE  history'[n] # <<>> /\ r = Newest(history'[n])
    BY DEF ReportIsNewestRun
  <2>1. n \in Listed(p) /\ n \in Clusters /\ states'[n] = Tracked(p)[n]
    BY <1>2 DEF Refresh, Tracked, Listed, ListedRemotes, Clusters
  <2>2. history'[n] = history[n]
    BY <1>2, <2>1 DEF Refresh
  <2>3. CASE n \in DOMAIN states
    <3>1. states'[n] = [states[n] EXCEPT !.server = ServerOf(p, n)]
      BY <2>1, <2>3 DEF Tracked
    <3>2. states'[n].report = states[n].report
      BY <2>3, <3>1 DEF TypeOK, ClusterState
    <3>3. QED
      BY <2>2, <2>3, <3>2 DEF ReportIsNewestRun
  <2>4. CASE n \notin DOMAIN states
    <3>1. states'[n].report = {}
      BY <2>1, <2>4 DEF Tracked, Fresh, NoReport
    <3>2. QED
      BY <3>1
  <2>5. QED
    BY <2>3, <2>4
<1>3. ASSUME NEW p \in ScanAlls, NEW n \in Clusters, StoreError(p, n)
      PROVE  ReportIsNewestRun'
  <2>1. history' = history /\ DOMAIN states' = DOMAIN states
    BY <1>3 DEF StoreError
  <2>2. \A m \in DOMAIN states : states'[m].report = states[m].report
    BY <1>3 DEF StoreError, AfterError, TypeOK, ClusterState
  <2>3. QED
    BY <2>1, <2>2 DEF ReportIsNewestRun
<1>4. ASSUME NEW p \in ScanAlls, NEW n \in Clusters, StoreReport(p, n)
      PROVE  ReportIsNewestRun'
  <2>1. PICK r \in job[p][n].result :
          /\ states' = [states EXCEPT ![n].scanned = TRUE, ![n].failed = FALSE,
                                      ![n].report = {r}]
          /\ history' = [history EXCEPT ![n] = Push(history[n], r)]
    BY <1>4 DEF StoreReport
  <2>2. r \in Reports
    <3>1. job[p][n].result \in Results
      BY DEF TypeOK, Job
    <3>2. QED
      BY <2>1, <3>1 DEF Results, NoReport
  <2>3. n \in DOMAIN states /\ DOMAIN states' = DOMAIN states
    BY <1>4, <2>1 DEF StoreReport
  <2>4. /\ history'[n] # <<>> /\ Newest(history'[n]) = r
        /\ states'[n].report = {r}
    BY <2>1, <2>2, <2>3, PushProperties DEF TypeOK, ClusterState
  <2>5. \A m \in DOMAIN states \ {n} : history'[m] = history[m] /\ states'[m] = states[m]
    BY <2>1 DEF TypeOK
  <2>6. QED
    BY <2>3, <2>4, <2>5 DEF ReportIsNewestRun
<1>5. CASE Lost
  <2>1. DOMAIN states' = {}
    BY <1>5 DEF Lost
  <2>2. QED
    BY <2>1 DEF ReportIsNewestRun
<1>6. QED
  BY <1>1, <1>2, <1>3, <1>4, <1>5, SharedSteps

\* The inductive invariant: the types need the semaphores to be counted, the
\* other two rest on the types alone.
IInv == TypeOK /\ BoundedConcurrency /\ OrderMatchesStates /\ ReportIsNewestRun

\* The inductive invariant holds when the hub starts.
LEMMA InitIInv == Init => IInv
<1> SUFFICES ASSUME Init PROVE IInv
  OBVIOUS
<1>1. TypeOK
  BY InitTypeOK
<1>2. BoundedConcurrency
  <2>1. \A p \in ScanAlls : \A n \in Clusters : job[p][n] = NoJob
    BY DEF Init
  <2>2. \A p \in ScanAlls : Cardinality(Holding(p)) = 0
    BY <2>1, NoJobHoldsNothing DEF Holding, NoJob
  <2>3. QED
    BY <2>1, <2>2, FleetAssumption DEF Init, BoundedConcurrency
<1>3. OrderMatchesStates
  BY EmptyOrder DEF Init, OrderMatchesStates
<1>4. ReportIsNewestRun
  BY DEF Init, ReportIsNewestRun
<1>5. QED
  BY <1>1, <1>2, <1>3, <1>4 DEF IInv

\* Every step keeps it.
LEMMA IInvStep == IInv /\ [Next]_vars => IInv'
BY TypeOKStep, BoundedConcurrencyStep, OrderMatchesStatesStep, ReportIsNewestRunStep
   DEF IInv

\* Hence it holds throughout, and each property below is part of it.
LEMMA Invariance == Spec => []IInv
BY InitIInv, IInvStep, PTL DEF Spec

\* Every variable of the hub keeps its type, in every behaviour.
THEOREM TypeCorrect == Spec => []TypeOK
<1>1. IInv => TypeOK
  BY DEF IInv
<1>2. QED
  BY <1>1, Invariance, PTL

\* Each ScanAll's semaphore counts its scans at work and bounds them, and no
\* scan goroutine outlives its ScanAll or its process.
THEOREM ScansAreBounded == Spec => []BoundedConcurrency
<1>1. IInv => BoundedConcurrency
  BY DEF IInv
<1>2. QED
  BY <1>1, Invariance, PTL

\* Statuses always finds a state for every name it walks, once per cluster,
\* however many ScanAlls rebuild the list at a time.
THEOREM StatusesAreComplete == Spec => []OrderMatchesStates
<1>1. IInv => OrderMatchesStates
  BY DEF IInv
<1>2. QED
  BY <1>1, Invariance, PTL

\* The report a cluster shows is the newest run of its history, whatever the
\* order in which overlapping scans are stored.
THEOREM ReportAgreesWithHistory == Spec => []ReportIsNewestRun
<1>1. IInv => ReportIsNewestRun
  BY DEF IInv
<1>2. QED
  BY <1>1, Invariance, PTL

\* A cluster that stays in the fleet never loses the report it shows.
THEOREM ReportsAreKept == Spec => ErrorKeepsReport
<1> DEFINE Kept == \A n \in DOMAIN states :
          n \in DOMAIN states' /\ states[n].report # NoReport
              => states'[n].report # NoReport
<1>1. TypeOK /\ [Next]_vars => [Kept]_vars
  <2> SUFFICES ASSUME TypeOK, [Next]_vars PROVE Kept
    OBVIOUS
  <2>1. CASE UNCHANGED shared
    BY <2>1 DEF shared
  <2>2. ASSUME NEW p \in ScanAlls, Refresh(p)
        PROVE  Kept
    <3>1. \A n \in DOMAIN states : n \in DOMAIN states' =>
              states'[n] = [states[n] EXCEPT !.server = ServerOf(p, n)]
      BY <2>2 DEF Refresh, Tracked
    <3>2. QED
      BY <3>1 DEF TypeOK, ClusterState
  <2>3. ASSUME NEW p \in ScanAlls, NEW n \in Clusters, StoreError(p, n)
        PROVE  Kept
    BY <2>3 DEF StoreError, AfterError, TypeOK, ClusterState
  <2>4. ASSUME NEW p \in ScanAlls, NEW n \in Clusters, StoreReport(p, n)
        PROVE  Kept
    <3>1. PICK r : states' = [states EXCEPT ![n].scanned = TRUE, ![n].failed = FALSE,
                                           ![n].report = {r}]
      BY <2>4 DEF StoreReport
    <3>2. \A m \in DOMAIN states :
              states'[m].report = IF m = n THEN {r} ELSE states[m].report
      BY <3>1 DEF TypeOK, ClusterState
    <3>3. QED
      BY <3>2 DEF NoReport
  <2>5. CASE Lost
    BY <2>5 DEF Lost
  <2>6. QED
    BY <2>1, <2>2, <2>3, <2>4, <2>5, SharedSteps
<1>2. QED
  BY <1>1, TypeCorrect, PTL DEF Spec, ErrorKeepsReport
-----------------------------------------------------------------------------
(* Repeats stay silent while no two ScanAlls overlap.                      *)

\* Only one ScanAll is under way.
Alone ==
    ~overlapped =>
        \A p, q \in ScanAlls : pc[p] # "idle" /\ pc[q] # "idle" => p = q

\* The newest run of n, if there is one, has finding f: the next run that has it
\* too does not make it new.
Known(n, f) == history[n] = <<>> \/ f \in Newest(history[n])

\* A finding that was alerted since it appeared is known for as long as a scan can
\* report it: to a scan that has seen it, and to every later one while it lasts.
AlertedIsKnown ==
    ~overlapped =>
        \A n \in Clusters, f \in Findings : alerts[n][f] # 0 =>
            /\ f \in world[n] => Known(n, f)
            /\ \A p \in ScanAlls : \A r \in job[p][n].result :
                  /\ f \in r => Known(n, f)
                  /\ f \in world[n] => f \in r

Silence == Alone /\ AlertedIsKnown /\ SoloRepeatsStaySilent

\* How the ScanAlls under way change: one ends or none, one starts, or Run starts
\* again.
LEMMA ScanAllSteps ==
    ASSUME TypeOK, [Next]_vars
    PROVE  \/ /\ overlapped' = overlapped
              /\ \A p \in ScanAlls : pc'[p] # "idle" => pc[p] # "idle"
           \/ \E p \in ScanAlls : start(p)
           \/ Restart /\ overlapped' = overlapped
<1>1. ASSUME NEW p \in ScanAlls, List(p) \/ ListFails(p) \/ Refresh(p) \/ Return(p)
      PROVE  /\ overlapped' = overlapped
             /\ \A q \in ScanAlls : pc'[q] # "idle" => pc[q] # "idle"
  BY <1>1 DEF TypeOK, List, ListFails, Refresh, Return, alerting
<1>2. ASSUME Lost, overlapped' = overlapped
      PROVE  \A q \in ScanAlls : pc'[q] # "idle" => pc[q] # "idle"
  BY <1>2 DEF Lost
<1>3. ASSUME NEW p \in ScanAlls, NEW n \in Clusters, ScanStep(p, n)
      PROVE  /\ overlapped' = overlapped
             /\ \A q \in ScanAlls : pc'[q] # "idle" => pc[q] # "idle"
  BY <1>2, <1>3 DEF ScanStep, Acquire, ScanSucceeds, ScanFails, StoreError, StoreReport,
                    Panic, alerting
<1>4. ASSUME NEW n, NEW f, FindingAppears(n, f) \/ FindingResolved(n, f) \/ EditSecret(n, f)
      PROVE  overlapped' = overlapped /\ pc' = pc
  BY <1>4 DEF FindingAppears, FindingResolved, EditSecret, scanning, alerting
<1>5. ASSUME NEW a, Notify(a)
      PROVE  overlapped' = overlapped /\ pc' = pc
  BY <1>5 DEF Notify, scanning
<1>6. Ticker \in ScanAlls /\ Rescans \subseteq ScanAlls
  BY DEF ScanAlls
<1>7. ASSUME \/ Tick
             \/ \E n \in Remotes, q \in Rescans :
                   (\E s \in Servers : CreateCluster(n, s, q)) \/ DeleteCluster(n, q)
      PROVE  \E p \in ScanAlls : start(p)
  BY <1>6, <1>7 DEF Tick, CreateCluster, DeleteCluster
<1>8. CASE Kill
  BY <1>2, <1>8 DEF Kill
<1>9. CASE Restart
  BY <1>9 DEF Restart, alerting
<1>10. CASE UNCHANGED vars
  BY <1>10 DEF vars, scanning, alerting
<1>11. QED
  BY <1>1, <1>3, <1>4, <1>5, <1>7, <1>8, <1>9, <1>10 DEF Next, Environment, ScanAll

\* A second ScanAll that starts while one is under way makes them overlap.
LEMMA AloneStep == TypeOK /\ BoundedConcurrency /\ Alone /\ [Next]_vars => Alone'
<1> SUFFICES ASSUME TypeOK, BoundedConcurrency, Alone, [Next]_vars, ~overlapped',
                    NEW p \in ScanAlls, NEW q \in ScanAlls,
                    pc'[p] # "idle", pc'[q] # "idle"
             PROVE  p = q
  BY DEF Alone
<1>1. CASE /\ overlapped' = overlapped
           /\ \A k \in ScanAlls : pc'[k] # "idle" => pc[k] # "idle"
  BY <1>1 DEF Alone
<1>2. ASSUME NEW k \in ScanAlls, start(k)
      PROVE  p = q
  <2>1. \A l \in ScanAlls : pc[l] = "idle"
    BY <1>2 DEF start
  <2>2. \A l \in ScanAlls : l # k => pc'[l] = pc[l]
    BY <1>2 DEF start, TypeOK
  <2>3. QED
    BY <2>1, <2>2
<1>3. CASE Restart
  BY <1>3 DEF Restart, Started
<1>4. QED
  BY <1>1, <1>2, <1>3, ScanAllSteps

\* Steps that alert nothing, add no finding to a cluster, no report to a scan and no
\* run to a history (they may lose it).
LEMMA QuietStep ==
    ASSUME AlertedIsKnown, SoloRepeatsStaySilent,
           ~overlapped' => ~overlapped, alerts' = alerts,
           \A n \in Clusters : /\ world'[n] \subseteq world[n]
                               /\ history'[n] = history[n] \/ history'[n] = <<>>,
           \A p \in ScanAlls : \A n \in Clusters :
               job'[p][n].result \subseteq job[p][n].result
    PROVE  AlertedIsKnown' /\ SoloRepeatsStaySilent'
<1>1. \A n \in Clusters : \A f : Known(n, f) => Known(n, f)'
  BY DEF Known
<1>2. AlertedIsKnown'
  <2> SUFFICES ASSUME ~overlapped', NEW n \in Clusters, NEW f \in Findings,
                      alerts[n][f] # 0
               PROVE  /\ f \in world'[n] => Known(n, f)'
                      /\ \A p \in ScanAlls : \A r \in job'[p][n].result :
                            (f \in r => Known(n, f)') /\ (f \in world'[n] => f \in r)
    BY DEF AlertedIsKnown
  <2>1. /\ f \in world[n] => Known(n, f)
        /\ \A p \in ScanAlls : \A r \in job[p][n].result :
              (f \in r => Known(n, f)) /\ (f \in world[n] => f \in r)
    BY DEF AlertedIsKnown
  <2>2. QED
    BY <1>1, <2>1
<1>3. SoloRepeatsStaySilent'
  BY DEF SoloRepeatsStaySilent, RepeatsStaySilent
<1>4. QED
  BY <1>2, <1>3

\* A finding that appears was not alerted yet.
LEMMA AppearsSilence ==
    ASSUME TypeOK, AlertedIsKnown, SoloRepeatsStaySilent,
           NEW n \in Clusters, NEW f \in Findings, FindingAppears(n, f)
    PROVE  AlertedIsKnown' /\ SoloRepeatsStaySilent'
<1>1. /\ world' = [world EXCEPT ![n] = world[n] \cup {f}]
      /\ alerts' = [alerts EXCEPT ![n][f] = 0]
      /\ overlapped' = overlapped /\ history' = history /\ job' = job
  BY DEF FindingAppears, scanning, shared
<1>2. world \in [Clusters -> Reports] /\ alerts \in [Clusters -> [Findings -> 0..2]]
  BY DEF TypeOK
<1>3. /\ alerts'[n][f] = 0
      /\ \A m \in Clusters, g \in Findings :
            m # n \/ g # f => /\ alerts'[m][g] = alerts[m][g]
                              /\ g \in world'[m] <=> g \in world[m]
  BY <1>1, <1>2
<1>4. \A m \in Clusters, g \in Findings : Known(m, g)' = Known(m, g)
  BY <1>1 DEF Known
<1>5. AlertedIsKnown'
  <2> SUFFICES ASSUME ~overlapped, NEW m \in Clusters, NEW g \in Findings,
                      alerts'[m][g] # 0
               PROVE  /\ g \in world'[m] => Known(m, g)'
                      /\ \A p \in ScanAlls : \A r \in job[p][m].result :
                            (g \in r => Known(m, g)') /\ (g \in world'[m] => g \in r)
    BY <1>1 DEF AlertedIsKnown
  <2>1. alerts[m][g] # 0 /\ (g \in world'[m] <=> g \in world[m])
    BY <1>3
  <2>2. QED
    BY <1>4, <2>1 DEF AlertedIsKnown
<1>6. SoloRepeatsStaySilent'
  <2>1. \A m \in Clusters, g \in Findings : alerts'[m][g] = 0 \/ alerts'[m][g] = alerts[m][g]
    BY <1>3
  <2>2. QED
    BY <1>1, <2>1 DEF SoloRepeatsStaySilent, RepeatsStaySilent
<1>7. QED
  BY <1>5, <1>6

\* A scan that reads the cluster now sees what is there now.
LEMMA ScanSilence ==
    ASSUME TypeOK, AlertedIsKnown, SoloRepeatsStaySilent,
           NEW p \in ScanAlls, NEW n \in Clusters, ScanSucceeds(p, n)
    PROVE  AlertedIsKnown' /\ SoloRepeatsStaySilent'
<1>1. /\ job' = [job EXCEPT ![p][n] = [at |-> "returned", result |-> {world[n]}]]
      /\ overlapped' = overlapped /\ history' = history /\ world' = world /\ alerts' = alerts
  BY DEF ScanSucceeds, shared, alerting, environment
<1>2. /\ job'[p][n].result = {world[n]}
      /\ \A q \in ScanAlls, m \in Clusters : q # p \/ m # n => job'[q][m] = job[q][m]
  BY <1>1 DEF TypeOK
<1>3. \A m \in Clusters, g \in Findings : Known(m, g)' = Known(m, g)
  BY <1>1 DEF Known
<1>4. AlertedIsKnown'
  <2> SUFFICES ASSUME ~overlapped, NEW m \in Clusters, NEW g \in Findings,
                      alerts[m][g] # 0
               PROVE  /\ g \in world[m] => Known(m, g)
                      /\ \A q \in ScanAlls : \A r \in job'[q][m].result :
                            (g \in r => Known(m, g)) /\ (g \in world[m] => g \in r)
    BY <1>1, <1>3 DEF AlertedIsKnown
  <2>1. /\ g \in world[m] => Known(m, g)
        /\ \A q \in ScanAlls : \A r \in job[q][m].result :
              (g \in r => Known(m, g)) /\ (g \in world[m] => g \in r)
    BY DEF AlertedIsKnown
  <2>2. QED
    BY <1>2, <2>1
<1>5. SoloRepeatsStaySilent'
  BY <1>1 DEF SoloRepeatsStaySilent, RepeatsStaySilent
<1>6. QED
  BY <1>4, <1>5

\* While one ScanAll is under way, the stored scan of a cluster was the only one of
\* it, and what it alerts was not alerted since it appeared.
LEMMA StoreSilence ==
    ASSUME TypeOK, BoundedConcurrency, Alone, AlertedIsKnown, SoloRepeatsStaySilent,
           NEW p \in ScanAlls, NEW n \in Clusters, StoreReport(p, n)
    PROVE  AlertedIsKnown' /\ SoloRepeatsStaySilent'
<1>1. PICK r \in job[p][n].result :
         /\ history' = [history EXCEPT ![n] = Push(history[n], r)]
         /\ alerts' = [alerts EXCEPT ![n] = [f \in Findings |->
                IF f \in NewFindings(Push(history[n], r)) /\ @[f] < 2
                THEN @[f] + 1 ELSE @[f]]]
  BY DEF StoreReport
<1>2. /\ job' = [job EXCEPT ![p][n] = NoJob] /\ job[p][n].at = "returned"
      /\ overlapped' = overlapped /\ world' = world
  BY DEF StoreReport, Finish, environment
<1>3. r \in Reports
  <2>1. job[p][n].result \in Results
    BY DEF TypeOK, Job
  <2>2. QED
    BY <2>1 DEF Results, NoReport
<1>4. /\ history[n] \in Logs /\ alerts[n] \in [Findings -> 0..2]
      /\ history \in [Clusters -> Logs] /\ alerts \in [Clusters -> [Findings -> 0..2]]
  BY DEF TypeOK
<1>5. /\ history'[n] # <<>> /\ Newest(history'[n]) = r
      /\ NewFindings(Push(history[n], r)) =
            IF history[n] = <<>> THEN {} ELSE r \ Newest(history[n])
  BY <1>1, <1>3, <1>4, PushProperties, NewFindingsOfPush
<1>6. \A m \in Clusters : m # n => history'[m] = history[m] /\ alerts'[m] = alerts[m]
  BY <1>1, <1>4
<1>7. \A f \in Findings :
         alerts'[n][f] = IF f \in NewFindings(Push(history[n], r)) /\ alerts[n][f] < 2
                         THEN alerts[n][f] + 1 ELSE alerts[n][f]
  BY <1>1, <1>4
\* A finding that is new here was not alerted, or it would be known.
<1>8. ASSUME ~overlapped, NEW f \in Findings, f \in NewFindings(Push(history[n], r))
      PROVE  f \in r /\ alerts[n][f] = 0
  <2>1. f \in r /\ ~Known(n, f)
    BY <1>5, <1>8 DEF Known
  <2>2. QED
    BY <1>8, <2>1 DEF AlertedIsKnown
<1>9. ASSUME ~overlapped, NEW q \in ScanAlls
      PROVE  job'[q][n].result = {}
  <2>1. CASE q = p
    BY <1>2, <2>1 DEF TypeOK, NoJob, NoReport
  <2>2. CASE q # p
    <3>1. pc[p] = "scan"
      BY <1>2 DEF BoundedConcurrency, NoJob
    <3>2. pc[q] = "idle"
      BY <1>9, <2>2, <3>1 DEF Alone
    <3>3. job[q][n] = NoJob
      BY <3>2 DEF BoundedConcurrency
    <3>4. job'[q][n] = job[q][n]
      BY <1>2, <2>2 DEF TypeOK
    <3>5. QED
      BY <3>3, <3>4 DEF NoJob, NoReport
  <2>3. QED
    BY <2>1, <2>2
<1>10. \A q \in ScanAlls, m \in Clusters : m # n => job'[q][m] = job[q][m]
  BY <1>2 DEF TypeOK
<1>11. AlertedIsKnown'
  <2> SUFFICES ASSUME ~overlapped, NEW m \in Clusters, NEW f \in Findings,
                      alerts'[m][f] # 0
               PROVE  /\ f \in world[m] => Known(m, f)'
                      /\ \A q \in ScanAlls : \A s \in job'[q][m].result :
                            (f \in s => Known(m, f)') /\ (f \in world[m] => f \in s)
    BY <1>2 DEF AlertedIsKnown
  <2>1. CASE m = n
    <3>1. f \in world[n] => f \in r
      <4>1. CASE alerts[n][f] # 0
        BY <4>1 DEF AlertedIsKnown
      <4>2. CASE alerts[n][f] = 0
        BY <1>7, <1>8, <2>1, <4>2
      <4>3. QED
        BY <4>1, <4>2
    <3>2. QED
      BY <1>5, <1>9, <2>1, <3>1 DEF Known
  <2>2. CASE m # n
    <3>1. Known(m, f)' = Known(m, f) /\ alerts[m][f] # 0
      BY <1>6, <2>2 DEF Known
    <3>2. QED
      BY <1>10, <2>2, <3>1 DEF AlertedIsKnown
  <2>3. QED
    BY <2>1, <2>2
<1>12. SoloRepeatsStaySilent'
  <2> SUFFICES ASSUME ~overlapped, NEW m \in Clusters, NEW f \in Findings
               PROVE  alerts'[m][f] <= 1
    BY <1>2 DEF SoloRepeatsStaySilent, RepeatsStaySilent
  <2>1. alerts[m][f] <= 1 /\ alerts[m][f] \in 0..2
    BY <1>4 DEF SoloRepeatsStaySilent, RepeatsStaySilent
  <2>2. CASE m = n /\ f \in NewFindings(Push(history[n], r))
    <3>1. alerts[n][f] = 0
      BY <1>8, <2>2
    <3>2. QED
      BY <1>7, <2>2, <3>1
  <2>3. CASE m = n /\ f \notin NewFindings(Push(history[n], r))
    BY <1>7, <2>1, <2>3
  <2>4. CASE m # n
    BY <1>6, <2>1, <2>4
  <2>5. QED
    BY <2>2, <2>3, <2>4
<1>13. QED
  BY <1>11, <1>12

\* Every other step is quiet.
LEMMA SilenceStep == IInv /\ Silence /\ [Next]_vars => Silence'
<1> SUFFICES ASSUME IInv, Silence, [Next]_vars
             PROVE  Silence'
  OBVIOUS
<1> USE DEF IInv, Silence
<1>1. Alone'
  BY AloneStep
<1>2. ~overlapped' => ~overlapped
  BY ScanAllSteps DEF start
<1> DEFINE Goal == AlertedIsKnown' /\ SoloRepeatsStaySilent'
           Same == /\ alerts' = alerts
                   /\ \A n \in Clusters : /\ world'[n] \subseteq world[n]
                                          /\ history'[n] = history[n] \/ history'[n] = <<>>
<1>3. ASSUME Same, job' = job \/ \A p \in ScanAlls : \A n \in Clusters :
                          job'[p][n].result = job[p][n].result \/ job'[p][n].result = {}
      PROVE  Goal
  <2>1. \A p \in ScanAlls : \A n \in Clusters : job'[p][n].result \subseteq job[p][n].result
    BY <1>3
  <2>2. QED
    BY <1>2, <1>3, <2>1, QuietStep
<1>3a. ASSUME Same, job' = job
      PROVE  Goal
  BY <1>3, <1>3a
<1> HIDE DEF Goal
<1>4. ASSUME Environment PROVE Goal
  <2>1. ASSUME NEW n \in Clusters, NEW f \in Findings, FindingAppears(n, f)
        PROVE  Goal
    BY <2>1, AppearsSilence DEF Goal
  <2>2. ASSUME NEW n \in Clusters, NEW f \in Findings, FindingResolved(n, f)
        PROVE  Goal
    <3>1. \A m \in Clusters : world'[m] \subseteq world[m]
      BY <2>2 DEF FindingResolved, TypeOK
    <3>2. Same /\ job' = job
      BY <2>2, <3>1 DEF FindingResolved, scanning, shared, alerting
    <3>3. QED
      BY <1>3a, <3>2
  <2>3. ASSUME NEW n \in Remotes, NEW s, EditSecret(n, s)
        PROVE  Goal
    <3>1. Same /\ job' = job
      BY <2>3 DEF EditSecret, scanning, shared, alerting
    <3>2. QED
      BY <1>3a, <3>1
  <2>4. ASSUME NEW n, NEW s, NEW q, CreateCluster(n, s, q) \/ DeleteCluster(n, q)
        PROVE  Goal
    <3>1. Same /\ job' = job
      BY <2>4 DEF CreateCluster, DeleteCluster, start, shared
    <3>2. QED
      BY <1>3a, <3>1
  <2>5. QED
    BY <1>4, <2>1, <2>2, <2>3, <2>4 DEF Environment
<1>5. ASSUME Tick PROVE Goal
  <2>1. Same /\ job' = job
    BY <1>5 DEF Tick, start, shared, environment
  <2>2. QED
    BY <1>3a, <2>1
<1>6. ASSUME NEW p \in ScanAlls, List(p) \/ ListFails(p) \/ Return(p)
      PROVE  Goal
  <2>1. Same /\ job' = job
    BY <1>6 DEF List, ListFails, Return, environment, shared, alerting
  <2>2. QED
    BY <1>3a, <2>1
<1>7. ASSUME NEW p \in ScanAlls, Refresh(p)
      PROVE  Goal
  <2>1. Same
    BY <1>7 DEF Refresh, environment, alerting
  <2>2. \A q \in ScanAlls : \A n \in Clusters : job'[q][n] = job[q][n] \/ job'[q][n].result = {}
    BY <1>7 DEF Refresh, TypeOK, NoJob, NoReport
  <2>3. QED
    BY <1>3, <2>1, <2>2
<1>8. ASSUME NEW p \in ScanAlls, NEW n \in Clusters, Acquire(p, n)
      PROVE  Goal
  <2>1. Same
    BY <1>8 DEF Acquire, environment, shared, alerting
  <2>2. /\ job \in [ScanAlls -> [Clusters -> Job]]
        /\ job' = [job EXCEPT ![p][n].at = "scanning"]
    BY <1>8 DEF Acquire, TypeOK
  <2>3. /\ job'[p][n] = [job[p][n] EXCEPT !.at = "scanning"]
        /\ \A q \in ScanAlls, m \in Clusters : q # p \/ m # n => job'[q][m] = job[q][m]
    BY <2>2
  <2>4. job[p][n] \in Job
    BY <2>2
  <2>5. job'[p][n].result = job[p][n].result
    BY <2>3, <2>4 DEF Job
  <2>6. \A q \in ScanAlls : \A m \in Clusters : job'[q][m].result = job[q][m].result
    BY <2>3, <2>5
  <2>7. QED
    BY <1>3, <2>1, <2>6
<1>9. ASSUME NEW p \in ScanAlls, NEW n \in Clusters, ScanFails(p, n) \/ StoreError(p, n)
      PROVE  Goal
  <2>1. Same
    BY <1>9 DEF ScanFails, StoreError, environment, shared, alerting
  <2>2. /\ job \in [ScanAlls -> [Clusters -> Job]]
        /\ \/ job' = [job EXCEPT ![p][n] = [at |-> "returned", result |-> NoReport]]
           \/ job' = [job EXCEPT ![p][n] = NoJob]
    BY <1>9 DEF ScanFails, StoreError, Finish, TypeOK
  <2>3. /\ job'[p][n].result = {}
        /\ \A q \in ScanAlls, m \in Clusters : q # p \/ m # n => job'[q][m] = job[q][m]
    BY <2>2 DEF NoJob, NoReport
  <2>4. \A q \in ScanAlls : \A m \in Clusters :
           job'[q][m].result = job[q][m].result \/ job'[q][m].result = {}
    BY <2>3
  <2>5. QED
    BY <1>3, <2>1, <2>4
<1>10. ASSUME NEW p \in ScanAlls, NEW n \in Clusters, ScanSucceeds(p, n)
       PROVE  Goal
  BY <1>10, ScanSilence DEF Goal
<1>11. ASSUME NEW p \in ScanAlls, NEW n \in Clusters, StoreReport(p, n)
       PROVE  Goal
  BY <1>11, StoreSilence DEF Goal
<1>12. ASSUME Lost, alerts' = alerts, world' = world
       PROVE  Goal
  <2>1. \A q \in ScanAlls : \A m \in Clusters : job'[q][m].result = {}
    BY <1>12 DEF Lost, NoJob, NoReport
  <2>2. Same
    BY <1>12 DEF Lost
  <2>3. QED
    BY <1>3, <2>1, <2>2
<1>13. ASSUME NEW p \in ScanAlls, NEW n \in Clusters, Panic(p, n)
       PROVE  Goal
  <2>1. Lost /\ alerts' = alerts /\ world' = world
    BY <1>13 DEF Panic, environment
  <2>2. QED
    BY <1>12, <2>1
<1>14. ASSUME Kill PROVE Goal
  <2>1. Lost /\ alerts' = alerts /\ world' = world
    BY <1>14 DEF Kill, environment
  <2>2. QED
    BY <1>12, <2>1
<1>15. ASSUME Restart PROVE Goal
  <2>1. Same /\ job' = job
    BY <1>15 DEF Restart, environment, shared, alerting
  <2>2. QED
    BY <1>3a, <2>1
<1>16. ASSUME NEW a, Notify(a)
       PROVE  Goal
  <2>1. Same /\ job' = job
    BY <1>16 DEF Notify, environment, scanning, shared
  <2>2. QED
    BY <1>3a, <2>1
<1>17. ASSUME UNCHANGED vars PROVE Goal
  <2>1. Same /\ job' = job
    BY <1>17 DEF vars, environment, scanning, shared, alerting
  <2>2. QED
    BY <1>3a, <2>1
<1>18. Goal
  BY <1>4, <1>5, <1>6, <1>7, <1>8, <1>9, <1>10, <1>11, <1>13, <1>14, <1>15, <1>16, <1>17
     DEF Next, ScanAll, ScanStep
<1>19. QED
  BY <1>1, <1>18 DEF Goal

\* It holds when the hub starts: nothing was alerted.
LEMMA InitSilence == Init => Silence
<1> SUFFICES ASSUME Init PROVE Silence
  OBVIOUS
<1>1. Alone /\ AlertedIsKnown
  BY DEF Init, Alone, AlertedIsKnown
<1>2. SoloRepeatsStaySilent
  BY DEF Init, SoloRepeatsStaySilent, RepeatsStaySilent
<1>3. QED
  BY <1>1, <1>2 DEF Silence

\* As long as no two ScanAlls overlap, a finding is alerted once from the moment it
\* appears, across failed scans, dropped clusters and restarts, with and without a
\* history directory.
THEOREM RepeatsAreSilent == Spec => []SoloRepeatsStaySilent
<1>1. Init => Silence
  BY InitSilence
<1>2. IInv /\ Silence /\ [Next]_vars => Silence'
  BY SilenceStep
<1>3. Silence => SoloRepeatsStaySilent
  BY DEF Silence
<1>4. QED
  BY <1>1, <1>2, <1>3, Invariance, PTL DEF Spec
=============================================================================
