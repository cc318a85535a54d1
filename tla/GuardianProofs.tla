--------------------------- MODULE GuardianProofs ---------------------------
(***************************************************************************)
(* What holds of one cluster watched over time, for every cluster the API  *)
(* server admits, whatever RBAC denies and however the cluster changes.    *)
(***************************************************************************)
EXTENDS Guardian, AnalysisProofs, SequenceTheorems

-----------------------------------------------------------------------------
(***************************************************************************)
(* Collect makes a snapshot of valid objects of a valid cluster.           *)
(***************************************************************************)
IsCluster(objs) == IsFiniteSet(objs) /\ \A o \in objs : IsObject(o)

\* Stripping a Secret of its data changes nothing but its leaf.
LEMMA StrippedIsObject ==
    ASSUME NEW o, IsObject(o)
    PROVE  /\ IsObject(stripped(o))
           /\ stripped(o).kind = o.kind /\ stripped(o).ns = o.ns
           /\ stripped(o).name = o.name
<1>1. CASE o.kind # "Secret"
  BY <1>1 DEF stripped
<1>2. CASE o.kind = "Secret"
  <2> DEFINE t == [o EXCEPT !.leaf = @ /\ o.type = "tls"]
  <2>1. stripped(o) = t
    BY <1>2 DEF stripped
  <2>2. {"kind", "ns", "name", "type", "leaf", "left"} \subseteq DOMAIN o /\ o.left \in Int
    BY <1>2 DEF IsObject
  <2>3. /\ DOMAIN t = DOMAIN o /\ t.kind = "Secret" /\ t.left = o.left
        /\ t.ns = o.ns /\ t.name = o.name
    BY <1>2, <2>2
  <2>4. IsRecord(t)
    BY DEF IsRecord
  <2> HIDE DEF t
  <2>5. "spec" \notin DOMAIN t /\ t.kind \notin podKinds
    BY <1>2, <2>3 DEF IsObject, podKinds
  <2>6. IsObject(t)
    BY <1>2, <2>2, <2>3, <2>5, <2>4 DEF IsObject
  <2> QED
    BY <1>2, <2>1, <2>3, <2>6
<1>3. QED
  BY <1>1, <1>2

\* The lists of Collect, before they become a set of objects.
listedOf(objs, ans) ==
    {stripped(o) : o \in {o \in objs : /\ o.kind \in ans
                                       /\ o.kind \notin {"Namespace", "CRD", "Constraint"}}}

namespacesOf(objs, only) == filterNamespaces({o \in objs : o.kind = "Namespace"}, only)

LEMMA CollectedObjects ==
    ASSUME NEW objs, NEW ans, NEW only
    PROVE  /\ Collect(objs, ans, only).objects =
                listedOf(objs, ans) \cup namespacesOf(objs, only)
                  \cup gatekeeperConstraints(objs, ans)
           /\ Collect(objs, ans, only).HasSecretAccess = ("Secret" \in ans)
<1> DEFINE A == listedOf(objs, ans) \cup namespacesOf(objs, only)
                  \cup gatekeeperConstraints(objs, ans)
           B == hasSecretAccess(ans)
           C == "ServiceMonitor" \in ans
           D == "Application" \in ans
           E == {"Kustomization", "HelmRelease"} \cap ans # {}
           F == "Certificate" \in ans
           G == {"Gateway", "HTTPRoute"} \cap ans # {}
           H == {"PolicyReport", "Policy", "ClusterPolicy"} \cap ans # {}
           I == /\ "CRD" \in ans
                /\ \E o \in objs : o.kind = "CRD" /\ o.gatekeeper
<1>1. Collect(objs, ans, only) =
        [objects |-> A, HasSecretAccess |-> B, HasServiceMonitorCRD |-> C, HasArgoCD |-> D,
         HasFlux |-> E, HasCertManager |-> F, HasGatewayAPI |-> G, HasKyverno |-> H,
         HasGatekeeper |-> I]
  BY Zenon DEF Collect, listedOf, namespacesOf
<1>2. Collect(objs, ans, only).objects = A /\ Collect(objs, ans, only).HasSecretAccess = B
  <2> HIDE DEF A, B, C, D, E, F, G, H, I
  <2> QED
    BY <1>1
<1>3. QED
  BY <1>2, Zenon DEF hasSecretAccess

LEMMA CollectIsSnapshot ==
    ASSUME NEW objs, IsCluster(objs), NEW ans, NEW only
    PROVE  /\ IsSnapshot(Collect(objs, ans, only))
           /\ Collect(objs, ans, only).HasSecretAccess \in BOOLEAN
<1> DEFINE f == [o \in objs |-> stripped(o)]
           A == listedOf(objs, ans)
           B == namespacesOf(objs, only)
           C == gatekeeperConstraints(objs, ans)
<1>1. IsFiniteSet(objs) /\ \A o \in objs : IsObject(o)
  BY DEF IsCluster
<1>2. IsFiniteSet(A) /\ \A o \in A : IsObject(o)
  <2>1. \A x \in A : \E o \in objs : x = stripped(o)
    BY DEF listedOf
  <2>2. \A x \in A : \E o \in objs : x = f[o]
    BY <2>1
  <2> HIDE DEF A, f
  <2> QED
    BY <1>1, <2>1, <2>2, CoveredIsFinite, StrippedIsObject
<1>3. B \subseteq objs
  BY DEF namespacesOf, filterNamespaces
<1>4. C \subseteq objs
  BY DEF gatekeeperConstraints
<1>5. IsFiniteSet(A \cup B \cup C) /\ \A o \in A \cup B \cup C : IsObject(o)
  <2> HIDE DEF A, B, C
  <2>1. IsFiniteSet(B) /\ IsFiniteSet(C)
    BY <1>1, <1>3, <1>4, SubsetIsFinite
  <2>2. IsFiniteSet(A \cup B)
    BY <1>2, <2>1, FS_Union
  <2> QED
    BY <1>1, <1>2, <1>3, <1>4, <2>1, <2>2, FS_Union
<1>6. QED
  <2> HIDE DEF A, B, C
  <2>1. Collect(objs, ans, only).objects = A \cup B \cup C
    BY CollectedObjects, Zenon DEF A, B, C
  <2>2. Collect(objs, ans, only).HasSecretAccess = ("Secret" \in ans)
    BY CollectedObjects
  <2> QED
    BY <1>5, <2>1, <2>2 DEF IsSnapshot
-----------------------------------------------------------------------------
(***************************************************************************)
(* The inductive invariant: objects are told apart by their identity and   *)
(* live in a namespace there is, what is denied is deniable, and as long   *)
(* as the cluster has not changed since the last recorded run, that run's  *)
(* report and what was posted of it are those of the cluster as it is.     *)
(***************************************************************************)
UniqueNames == \A o, p \in objects : identity(o) = identity(p) => o = p

Housed == \A o \in objects : inNamespace(o, objects)

Answers == answered \subseteq Kinds /\ answered \ Deniable = Kinds \ Deniable

IsWindow(w) == w = <<>> \/ w = <<w[1]>> \/ w = <<w[1], w[2]>>

Latest ==
    changes = 0 /\ window # <<>> =>
        /\ report = Analyze(Collect(objects, Kinds, opts.only), usage, opts)
        /\ inbox = deliveries(window)

IInv == TypeOK /\ UniqueNames /\ Housed /\ Answers /\ IsWindow(window) /\ Latest

LEMMA ClusterIsValid ==
    ASSUME TypeOK
    PROVE  /\ IsCluster(objects)
           /\ \A o \in objects : o.kind \in Kinds \cup {"Usage"}
<1>1. IsFiniteSet(Permanent) /\ IsFiniteSet(scenario)
  BY ObjectsAssumption DEF TypeOK
<1>2. IsFiniteSet(Permanent \cup scenario)
  BY <1>1, FS_Union
<1>3. \A o \in Permanent \cup scenario : IsObject(o) /\ o.kind \in Kinds \cup {"Usage"}
  BY ObjectsAssumption DEF TypeOK
<1>4. objects \subseteq Permanent \cup scenario
  BY DEF TypeOK
<1>5. QED
  BY <1>2, <1>3, <1>4, SubsetIsFinite DEF IsCluster

LEMMA OptionsAreValid ==
    ASSUME TypeOK
    PROVE  IsUsage(usage) /\ IsCost(opts.cost)
<1>1. IsCluster(objects)
  BY ClusterIsValid
<1>2. usage \subseteq objects /\ \A u \in usage : u.kind = "Usage"
  BY DEF usage
<1>3. IsUsage(usage)
  BY <1>1, <1>2, SubsetIsFinite DEF IsUsage, IsCluster, IsObject
<1>4. QED
  BY <1>3, OptionsAssumption DEF TypeOK, IsCost

LEMMA AnalysisIsReport ==
    ASSUME NEW s, IsSnapshot(s), s.HasSecretAccess \in BOOLEAN, NEW used, IsUsage(used),
           NEW o, IsCost(o.cost)
    PROVE  IsReport(Analyze(s, used, o))
<1> DEFINE r == Analyze(s, used, o)
           covered == AppNamespaces(s, o.includeSystem, o.only)
<1>1. /\ HasShape(r)
      /\ r.summary = [severity \in Ok..Critical |-> number(r, severity)]
      /\ r.sections = sectionsOf(s, covered, used, o)
  BY AnalysisShape
<1>2. DOMAIN r.sections \subseteq SectionIds \cup {"rightsizing", ""}
  <2>1. IsFiniteSet(covered)
    BY CoveredAreFinite
  <2> HIDE DEF covered, r
  <2>2. DOMAIN sectionsOf(s, covered, used, o) \subseteq SectionIds \cup {"rightsizing", ""}
    BY <2>1, SectionsShape
  <2> QED
    BY <1>1, <2>2
<1> HIDE DEF r
<1>3. DOMAIN r.sections \subseteq Ids
  BY <1>2 DEF SectionIds, Ids
<1>4. \A l \in located(r) : IsFinding(l.finding)
  BY <1>1, LocatedHasShape
<1>5. \A severity \in Ok..Critical : number(r, severity) \in Nat
  BY <1>1, NumbersAreNatural
<1>6. r.summary \in [Ok..Critical -> Nat]
  BY <1>1, <1>5
<1>7. IsReport(r)
  BY <1>3, <1>4, <1>6 DEF IsReport, IsFinding
<1>8. QED
  BY <1>7 DEF r

LEMMA PairIsWindow ==
    ASSUME NEW a, NEW b
    PROVE  /\ IsWindow(<<a, b>>) /\ <<a, b>> # <<>> /\ Len(<<a, b>>) = 2
           /\ <<a, b>>[Len(<<a, b>>)] = b
           /\ \A i \in DOMAIN <<a, b>> : <<a, b>>[i] = a \/ <<a, b>>[i] = b
<1>1. <<a, b>>[1] = a /\ <<a, b>>[2] = b /\ Len(<<a, b>>) = 2 /\ DOMAIN <<a, b>> = {1, 2}
  OBVIOUS
<1>2. IsWindow(<<a, b>>)
  BY Zenon, <1>1 DEF IsWindow
<1>3. QED
  BY <1>1, <1>2

LEMMA AppendToOne ==
    ASSUME NEW a, NEW r
    PROVE  Append(<<a>>, r) = <<a, r>>
<1> DEFINE s == Append(<<a>>, r)
           t == <<a, r>>
<1>1. s \in Seq({a, r}) /\ t \in Seq({a, r})
  OBVIOUS
<1>2. Len(s) = 2 /\ s[1] = a /\ s[2] = r
  OBVIOUS
<1>3. Len(t) = 2 /\ t[1] = a /\ t[2] = r
  OBVIOUS
<1>4. s = t
  <2> HIDE DEF s, t
  <2>1. \A i \in 1..2 : s[i] = t[i]
    BY <1>2, <1>3
  <2> QED
    BY <1>1, <1>2, <1>3, <2>1, SeqEqual
<1>5. QED
  BY <1>4

\* The window of the last two reports once r is the last.
grown(w, r) == Append(IF Len(w) < 2 THEN w ELSE Tail(w), r)

LEMMA WindowGrows ==
    ASSUME NEW w, IsWindow(w), NEW r
    PROVE  /\ IsWindow(grown(w, r)) /\ grown(w, r) # <<>> /\ Len(grown(w, r)) <= 2
           /\ grown(w, r)[Len(grown(w, r))] = r
           /\ \A i \in DOMAIN grown(w, r) :
                grown(w, r)[i] = r \/ \E j \in DOMAIN w : grown(w, r)[i] = w[j]
<1> DEFINE v == grown(w, r)
           kept == IF Len(w) < 2 THEN w ELSE Tail(w)
<1>1. CASE w = <<>>
  <2>1. kept = <<>>
    BY <1>1
  <2>2. v = <<r>>
    <3> HIDE DEF kept
    <3>1. v = Append(kept, r)
      BY Zenon DEF grown, kept
    <3> QED
      BY <2>1, <3>1
  <2>3. v[1] = r /\ Len(v) = 1 /\ DOMAIN v = {1} /\ v # <<>>
    <3> HIDE DEF v
    <3> QED
      BY <2>2
  <2> HIDE DEF v
  <2>4. IsWindow(v)
    BY <2>2, <2>3, Zenon DEF IsWindow
  <2> QED
    BY <2>3, <2>4 DEF v
<1>2. CASE w = <<w[1]>>
  <2>1. PICK a : w = <<a>>
    BY <1>2
  <2>2. Len(w) = 1 /\ w[1] = a /\ 1 \in DOMAIN w
    BY <2>1
  <2>3. kept = <<a>>
    BY <2>1, <2>2
  <2>4. v = <<a, r>>
    <3> HIDE DEF kept
    <3>1. v = Append(kept, r)
      BY Zenon DEF grown, kept
    <3> QED
      BY <2>3, <3>1, AppendToOne
  <2> HIDE DEF v
  <2> QED
    BY <2>2, <2>4, PairIsWindow DEF v
<1>3. CASE w = <<w[1], w[2]>>
  <2>1. PICK a, b : w = <<a, b>>
    BY <1>3
  <2>2. Len(w) = 2 /\ w[2] = b /\ 2 \in DOMAIN w
    BY <2>1
  <2>3. Tail(w) = <<b>>
    <3>1. Tail(w) = [i \in 1..1 |-> w[i + 1]]
      BY <2>1, <2>2
    <3> QED
      BY <2>2, <3>1
  <2>4. kept = <<b>>
    BY <2>2, <2>3
  <2>5. v = <<b, r>>
    <3> HIDE DEF kept
    <3>1. v = Append(kept, r)
      BY Zenon DEF grown, kept
    <3> QED
      BY <2>4, <3>1, AppendToOne
  <2> HIDE DEF v
  <2> QED
    BY <2>2, <2>5, PairIsWindow DEF v
<1>4. QED
  BY <1>1, <1>2, <1>3 DEF IsWindow

LEMMA DeliveriesAreToOwningTeams ==
    ASSUME NEW runs
    PROVE  DOMAIN deliveries(runs).teams = OwningTeams
<1> DEFINE new == IF Len(runs) < 2 THEN {} ELSE Diff(runs[1], runs[2]).new
           global == posted(new, MinSeverity)
           teams == [team \in OwningTeams |-> posted(routed(new, team), MinSeverity)]
<1>1. deliveries(runs) = [global |-> global, teams |-> teams]
  BY Zenon DEF deliveries
<1>2. DOMAIN teams = OwningTeams
  OBVIOUS
<1>3. QED
  <2> HIDE DEF global, teams
  <2> QED
    BY <1>1, <1>2

LEMMA InitIsFine == Init => IInv
<1> SUFFICES ASSUME Init PROVE IInv
  OBVIOUS
<1>1. TypeOK
  <2>1. 0 \in 0..MaxChanges
    BY BoundAssumption
  <2>2. DOMAIN inbox.teams = OwningTeams
    BY DEF Init, Nobody
  <2>3. Len(window) <= 2 /\ \A i \in DOMAIN window : IsReport(window[i])
    BY DEF Init
  <2> QED
    BY <2>1, <2>2, <2>3 DEF Init, TypeOK
<1>2. UniqueNames /\ Housed
  BY ObjectsAssumption DEF Init, UniqueNames, Housed
<1>3. Answers /\ IsWindow(window) /\ Latest
  BY DEF Init, Answers, IsWindow, Latest
<1>4. QED
  BY <1>1, <1>2, <1>3 DEF IInv

LEMMA ChangeIsFine == IInv /\ Change => IInv'
<1> SUFFICES ASSUME IInv, Change PROVE IInv'
  OBVIOUS
<1>1. PICK o \in scenario : Put(o) \/ Delete(o)
  BY DEF Change
<1>2. /\ changes' = changes + 1 /\ changes < MaxChanges /\ changes \in 0..MaxChanges
      /\ scenario' = scenario /\ opts' = opts /\ answered' = answered /\ failed' = failed
      /\ window' = window /\ inbox' = inbox
  BY DEF Change, IInv, TypeOK
<1>3. objects \subseteq Permanent \cup scenario
  BY DEF IInv, TypeOK
<1>4. objects' \subseteq Permanent \cup scenario
  BY <1>1, <1>3 DEF Put, Delete
<1>5. changes' \in 0..MaxChanges /\ changes' # 0
  BY <1>2, BoundAssumption
<1>6. TypeOK'
  BY <1>2, <1>4, <1>5 DEF IInv, TypeOK
<1>7. UniqueNames'
  BY <1>1 DEF IInv, UniqueNames, Put, Delete, identity
<1>8. Housed'
  <2> SUFFICES ASSUME NEW q \in objects', q.ns # ""
               PROVE  \E p \in objects' : p.kind = "Namespace" /\ p.name = q.ns
    BY DEF Housed, inNamespace
  <2>1. q = o \/ q \in objects
    BY <1>1 DEF Put, Delete
  <2>2. PICK p \in objects : p.kind = "Namespace" /\ p.name = q.ns
    BY <1>1, <2>1 DEF IInv, Housed, inNamespace, Put, Delete
  <2>3. CASE Put(o)
    <3>1. CASE identity(p) = identity(o)
      BY <2>2, <2>3, <3>1 DEF Put, identity
    <3>2. CASE identity(p) # identity(o)
      BY <2>2, <2>3, <3>2 DEF Put
    <3> QED
      BY <3>1, <3>2
  <2>4. CASE Delete(o)
    <3>1. p # o
      BY <2>2, <2>4 DEF Delete
    <3> QED
      BY <2>2, <2>4, <3>1 DEF Delete
  <2> QED
    BY <1>1, <2>3, <2>4
<1>9. Answers' /\ IsWindow(window)' /\ Latest'
  BY <1>2, <1>5 DEF IInv, Answers, Latest
<1>10. QED
  BY <1>6, <1>7, <1>8, <1>9 DEF IInv

LEMMA DenyIsFine == \A kind \in Deniable : IInv /\ Deny(kind) => IInv'
<1> SUFFICES ASSUME NEW kind \in Deniable, IInv, Deny(kind) PROVE IInv'
  OBVIOUS
<1>1. UNCHANGED <<scenario, opts, objects, failed, changes, window, inbox>>
  BY DEF Deny
<1>2. kind \in Kinds
  BY KindsAssumption
<1>3. Answers' /\ answered' \subseteq Kinds
  BY <1>2 DEF IInv, Deny, Answers
<1>4. TypeOK'
  BY <1>1, <1>3 DEF IInv, TypeOK
<1>5. UniqueNames' /\ Housed' /\ IsWindow(window)'
  BY <1>1 DEF IInv, UniqueNames, Housed
<1>6. Latest'
  BY <1>1, Zenon DEF IInv, Latest, report, usage
<1>7. QED
  BY <1>3, <1>4, <1>5, <1>6 DEF IInv

\* A run that may be taken is answered every list.
LEMMA ScannedWithAll ==
    ASSUME Answers, CanCollect(answered)
    PROVE  answered = Kinds
BY KindsAssumption DEF Answers, CanCollect

LEMMA ScanIsFine == IInv /\ Scan => IInv'
<1> SUFFICES ASSUME IInv, Scan PROVE IInv'
  OBVIOUS
<1> DEFINE r == Analyze(snapshot, usage, opts)
           v == grown(window, r)
<1>1. window' = v /\ inbox' = deliveries(window') /\ failed' = FALSE /\ changes' = 0
  BY Zenon DEF Scan, grown
<1>2. scenario' = scenario /\ opts' = opts /\ objects' = objects /\ answered' = answered
  BY DEF Scan
<1>3. answered = Kinds
  BY ScannedWithAll DEF IInv, Scan
<1>4. IsReport(r)
  <2>1. IsSnapshot(snapshot) /\ snapshot.HasSecretAccess \in BOOLEAN
    BY ClusterIsValid, CollectIsSnapshot, Zenon DEF IInv, snapshot
  <2>2. IsUsage(usage) /\ IsCost(opts.cost)
    BY OptionsAreValid DEF IInv
  <2> QED
    BY <2>1, <2>2, AnalysisIsReport
<1>5. r = Analyze(Collect(objects', Kinds, opts'.only), usage', opts')
  BY <1>2, <1>3, Zenon DEF snapshot, usage
<1> HIDE DEF r
<1>6. /\ IsWindow(v) /\ v # <<>> /\ v[Len(v)] = r /\ Len(v) <= 2
      /\ \A i \in DOMAIN v : v[i] = r \/ \E j \in DOMAIN window : v[i] = window[j]
  BY WindowGrows DEF IInv
<1> HIDE DEF v
<1>7. \A i \in DOMAIN v : IsReport(v[i])
  BY <1>4, <1>6 DEF IInv, TypeOK
<1>8. DOMAIN inbox'.teams = OwningTeams
  BY <1>1, DeliveriesAreToOwningTeams
<1>9. TypeOK'
  <2>1. changes' \in 0..MaxChanges
    BY <1>1, BoundAssumption
  <2>2. /\ scenario' \in Scenarios /\ opts' \in Options
        /\ objects' \subseteq Permanent \cup scenario' /\ answered' \subseteq Kinds
    BY <1>2 DEF IInv, TypeOK
  <2>3. failed' \in BOOLEAN /\ Len(window') <= 2 /\ \A i \in DOMAIN window' : IsReport(window'[i])
    BY <1>1, <1>6, <1>7
  <2> QED
    BY <1>8, <2>1, <2>2, <2>3, Zenon DEF TypeOK
<1>10. UniqueNames' /\ Housed' /\ Answers'
  BY <1>2 DEF IInv, UniqueNames, Housed, Answers
<1>11. Latest'
  <2>1. report' = r
    BY <1>1, <1>6, Zenon DEF report
  <2>2. inbox' = deliveries(window)'
    BY <1>1, Zenon
  <2> QED
    BY <1>5, <2>1, <2>2, Zenon DEF Latest
<1>12. IsWindow(window)'
  BY <1>1, <1>6, Zenon
<1>13. QED
  BY <1>9, <1>10, <1>11, <1>12 DEF IInv

LEMMA StepIsFine == IInv /\ [Next]_vars => IInv'
<1> SUFFICES ASSUME IInv, [Next]_vars PROVE IInv'
  OBVIOUS
<1>1. CASE Change
  BY <1>1, ChangeIsFine
<1>2. ASSUME NEW kind \in Deniable, Deny(kind) PROVE IInv'
  BY <1>2, DenyIsFine
<1>3. CASE Scan
  BY <1>3, ScanIsFine
<1>4. CASE ScanFails
  <2>1. /\ UNCHANGED <<scenario, opts, objects, answered, changes, window, inbox>>
        /\ failed' = TRUE
    BY <1>4 DEF ScanFails
  <2>2. TypeOK'
    BY <2>1 DEF IInv, TypeOK
  <2>3. UniqueNames' /\ Housed' /\ Answers' /\ IsWindow(window)'
    BY <2>1 DEF IInv, UniqueNames, Housed, Answers
  <2>4. Latest'
    BY <2>1, Zenon DEF IInv, Latest, report, usage
  <2> QED
    BY <2>2, <2>3, <2>4 DEF IInv
<1>5. CASE UNCHANGED vars
  <2>1. /\ scenario' = scenario /\ opts' = opts /\ objects' = objects /\ answered' = answered
        /\ failed' = failed /\ changes' = changes /\ window' = window /\ inbox' = inbox
    BY <1>5 DEF vars
  <2>2. TypeOK'
    BY <2>1 DEF IInv, TypeOK
  <2>3. UniqueNames' /\ Housed' /\ Answers' /\ IsWindow(window)'
    BY <2>1 DEF IInv, UniqueNames, Housed, Answers
  <2>4. Latest'
    BY <2>1, Zenon DEF IInv, Latest, report, usage
  <2> QED
    BY <2>2, <2>3, <2>4 DEF IInv
<1>6. QED
  BY <1>1, <1>2, <1>3, <1>4, <1>5 DEF Next

\* The inductive invariant holds: as long as nothing changes, the last report and
\* what was posted of it are those of the cluster.
THEOREM GuardianInvariant == Spec => []IInv
<1>1. Init => IInv
  BY InitIsFine
<1>2. IInv /\ [Next]_vars => IInv'
  BY StepIsFine
<1>3. QED
  BY <1>1, <1>2, PTL DEF Spec

\* Every part of the state has its type: a report of a valid cluster has the known
\* sections, findings of the known severities, counts and controls, and a summary of
\* natural numbers.
THEOREM GuardianIsTyped == Spec => []TypeOK
<1>1. IInv => TypeOK
  BY DEF IInv
<1>2. QED
  BY <1>1, GuardianInvariant, PTL
-----------------------------------------------------------------------------
(***************************************************************************)
(* What is known right after a run.                                        *)
(***************************************************************************)
coveredNow == AppNamespaces(snapshot, opts.includeSystem, opts.only)

LEMMA JustScannedIsLatest ==
    ASSUME IInv, JustScanned
    PROVE  /\ answered = Kinds
           /\ report = Analyze(snapshot, usage, opts)
           /\ inbox = deliveries(window)
           /\ IsSnapshot(snapshot) /\ snapshot.HasSecretAccess \in BOOLEAN
           /\ IsUsage(usage) /\ IsCost(opts.cost)
<1>1. answered = Kinds
  BY ScannedWithAll DEF IInv, JustScanned
<1>2. /\ report = Analyze(Collect(objects, Kinds, opts.only), usage, opts)
      /\ inbox = deliveries(window)
  BY DEF IInv, Latest, JustScanned
<1>3. report = Analyze(snapshot, usage, opts)
  BY <1>1, <1>2, Zenon DEF snapshot
<1>4. IsSnapshot(snapshot) /\ snapshot.HasSecretAccess \in BOOLEAN
  BY ClusterIsValid, CollectIsSnapshot, Zenon DEF IInv, snapshot
<1>5. QED
  BY <1>1, <1>2, <1>3, <1>4, OptionsAreValid, Zenon DEF IInv

\* What the report of a run holds.
LEMMA ReportIs ==
    ASSUME IInv, JustScanned
    PROVE  /\ HasShape(report)
           /\ report.namespaces =
                {[name |-> ns, team |-> teamOfNamespace(snapshot, ns, opts),
                  findings |-> namespaceFindings(snapshot, ns)] : ns \in coveredNow}
           /\ report.sections = sectionsOf(snapshot, coveredNow, usage, opts)
           /\ report.summary = [severity \in Ok..Critical |-> number(report, severity)]
           /\ IsFiniteSet(coveredNow)
<1> DEFINE r == Analyze(snapshot, usage, opts)
           assigned == AssignTeams(Namespaces(snapshot, coveredNow), snapshot, opts)
<1>1. /\ report = r
      /\ IsSnapshot(snapshot) /\ snapshot.HasSecretAccess \in BOOLEAN
      /\ IsUsage(usage) /\ IsCost(opts.cost)
  BY JustScannedIsLatest
<1>2. /\ HasShape(r)
      /\ r.summary = [severity \in Ok..Critical |-> number(r, severity)]
      /\ r.namespaces = assigned
      /\ r.sections = sectionsOf(snapshot, coveredNow, usage, opts)
  BY <1>1, AnalysisShape DEF coveredNow
<1>3. IsFiniteSet(coveredNow)
  BY <1>1, CoveredAreFinite DEF coveredNow
<1>4. assigned = {[name |-> ns, team |-> teamOfNamespace(snapshot, ns, opts),
                   findings |-> namespaceFindings(snapshot, ns)] : ns \in coveredNow}
  BY <1>1, <1>3, NamespacesShape
<1>5. QED
  <2> HIDE DEF r, assigned
  <2> QED
    BY <1>1, <1>2, <1>3, <1>4, Zenon

\* Reports in the window are well formed.
LEMMA WindowIsOfReports ==
    ASSUME IInv, window # <<>>
    PROVE  /\ IsReport(window[1]) /\ IsReport(report)
           /\ Len(window) = 2 => report = window[2] /\ IsReport(window[2])
<1>1. \A i \in DOMAIN window : IsReport(window[i])
  BY DEF IInv, TypeOK
<1>2. CASE window = <<window[1]>>
  <2>1. PICK a : window = <<a>>
    BY <1>2
  <2>2. Len(window) = 1 /\ 1 \in DOMAIN window
    BY <2>1
  <2> QED
    BY <1>1, <2>2 DEF report
<1>3. CASE window = <<window[1], window[2]>>
  <2>1. PICK a, b : window = <<a, b>>
    BY <1>3
  <2>2. Len(window) = 2 /\ 1 \in DOMAIN window /\ 2 \in DOMAIN window
    BY <2>1
  <2> QED
    BY <1>1, <2>2 DEF report
<1>4. QED
  BY <1>2, <1>3 DEF IInv, IsWindow
-----------------------------------------------------------------------------
(***************************************************************************)
(* The rules `cluster add` grants.                                         *)
(***************************************************************************)
LEMMA RulesCoverWhatIsListed == listedKinds \subseteq readOnlyRules \cup {"Version"}
<1>1. /\ ruleGroups.core \subseteq readOnlyRules /\ ruleGroups.apps \subseteq readOnlyRules
      /\ ruleGroups.batch \subseteq readOnlyRules
      /\ ruleGroups.autoscaling \subseteq readOnlyRules
      /\ ruleGroups.policy \subseteq readOnlyRules
      /\ ruleGroups.networking \subseteq readOnlyRules
      /\ ruleGroups.rbac \subseteq readOnlyRules
      /\ ruleGroups.monitoring \subseteq readOnlyRules
      /\ ruleGroups.argoproj \subseteq readOnlyRules
      /\ ruleGroups.fluxcd \subseteq readOnlyRules
      /\ ruleGroups.certManager \subseteq readOnlyRules
      /\ ruleGroups.gateway \subseteq readOnlyRules
      /\ ruleGroups.apiextensions \subseteq readOnlyRules
      /\ ruleGroups.wgpolicy \subseteq readOnlyRules
      /\ ruleGroups.kyverno \subseteq readOnlyRules
      /\ ruleGroups.gatekeeper \subseteq readOnlyRules
  <2>1. \A group \in DOMAIN ruleGroups : ruleGroups[group] \subseteq readOnlyRules
    BY DEF readOnlyRules
  <2>2. {"core", "apps", "batch", "autoscaling", "policy", "networking", "rbac",
         "monitoring", "argoproj", "fluxcd", "certManager", "gateway", "apiextensions",
         "wgpolicy", "kyverno", "gatekeeper"} \subseteq DOMAIN ruleGroups
    BY DEF ruleGroups
  <2> QED
    BY <2>1, <2>2
<1>2. {"Namespace", "Node", "Pod", "Service", "ConfigMap", "Secret", "PVC",
       "ServiceAccount", "Deployment", "StatefulSet", "DaemonSet", "Job", "CronJob",
       "HPA", "PDB", "Ingress", "NetworkPolicy", "ClusterRole", "ClusterRoleBinding",
       "ServiceMonitor", "PrometheusRule", "Application", "Kustomization", "HelmRelease",
       "Certificate", "Gateway", "HTTPRoute", "CRD", "PolicyReport", "Policy",
       "ClusterPolicy", "Constraint"} \subseteq readOnlyRules
  BY <1>1 DEF ruleGroups
<1>3. QED
  BY <1>2 DEF listedKinds, Core

\* GrantedRulesSuffice: the rules `cluster add` grants cover all that Collect lists,
\* so a hub with these rules reports what one that may read everything reports.
THEOREM RulesSuffice == Spec => []GrantedRulesSuffice
<1>1. ASSUME IInv PROVE GrantedRulesSuffice
  <2> SUFFICES ASSUME JustScanned, Kinds \subseteq answered
               PROVE  Analyze(Collect(objects, Kinds \cap (readOnlyRules \cup {"Version"}),
                                      opts.only), usage, opts) = report
    BY DEF GrantedRulesSuffice
  <2>1. Kinds \cap (readOnlyRules \cup {"Version"}) = answered
    BY <1>1, JustScannedIsLatest, KindsAssumption, RulesCoverWhatIsListed
  <2>2. report = Analyze(snapshot, usage, opts)
    BY <1>1, JustScannedIsLatest
  <2> QED
    BY <2>1, <2>2, Zenon DEF snapshot
<1>2. QED
  BY <1>1, GuardianInvariant, PTL
-----------------------------------------------------------------------------
(***************************************************************************)
(* What a run reports as new.                                              *)
(***************************************************************************)
LEMMA NewIs ==
    ASSUME NEW a, NEW b
    PROVE  Diff(a, b).new = notIn(b, a)
<1> DEFINE x == notIn(b, a)
           y == notIn(a, b)
<1>1. Diff(a, b) = [new |-> x, resolved |-> y]
  BY Zenon DEF Diff
<1>2. QED
  <2> HIDE DEF x, y
  <2>1. Diff(a, b).new = x
    BY <1>1
  <2> QED
    BY <2>1 DEF x

\* Two findings that differ in a count or a severity have the same key, unless one
\* of them counts one.
LEMMA KeyForgetsCounts ==
    ASSUME NEW f, NEW g, NEW at, DOMAIN f = DOMAIN Plain(Ok, ""),
           DOMAIN g = DOMAIN Plain(Ok, ""), f.n # 1, g.n # 1,
           [f EXCEPT !.n = 2, !.severity = 0] = [g EXCEPT !.n = 2, !.severity = 0]
    PROVE  findingKey(at, f) = findingKey(at, g)
<1>1. {"object", "message", "more", "shown", "n", "severity"} \subseteq DOMAIN Plain(Ok, "")
  BY DEF Plain, Finding
<1>2. /\ f.object = g.object /\ f.message = g.message /\ f.more = g.more
      /\ f.shown = g.shown
  <2> DEFINE a == [f EXCEPT !.n = 2, !.severity = 0]
             b == [g EXCEPT !.n = 2, !.severity = 0]
  <2>1. \A x \in {"object", "message", "more", "shown"} : a[x] = f[x] /\ b[x] = g[x]
    BY <1>1
  <2>2. a = b
    OBVIOUS
  <2> HIDE DEF a, b
  <2> QED
    BY <2>1, <2>2
<1>3. (f.n = 1) = (g.n = 1)
  OBVIOUS
<1>4. QED
  BY <1>2, <1>3, Zenon DEF findingKey

\* CountsStaySilent: a finding of the run before whose count alone changed, and
\* stayed a plural, is not new.
THEOREM CountsAreSilent == Spec => []CountsStaySilent
<1>1. ASSUME IInv PROVE CountsStaySilent
  <2> SUFFICES ASSUME JustScanned, Len(window) = 2,
                      NEW l \in Diff(window[1], report).new, NEW old \in located(window[1]),
                      old.at = l.at, old.finding.severity # Ok,
                      [old.finding EXCEPT !.n = 2, !.severity = 0] =
                        [l.finding EXCEPT !.n = 2, !.severity = 0],
                      old.finding.n >= 2, l.finding.n >= 2
               PROVE  FALSE
    BY DEF CountsStaySilent
  <2>1. l \in notIn(report, window[1])
    BY NewIs
  <2>2. l \in located(report) /\ findingKey(l.at, l.finding) \notin findingKeys(window[1])
    BY <2>1 DEF notIn
  <2>3. IsReport(window[1]) /\ IsReport(report)
    BY <1>1, WindowIsOfReports DEF JustScanned
  <2>4. /\ DOMAIN l.finding = DOMAIN Plain(Ok, "") /\ l.finding.n \in Nat
        /\ DOMAIN old.finding = DOMAIN Plain(Ok, "") /\ old.finding.n \in Nat
    BY <2>2, <2>3 DEF IsReport
  <2>5. l.finding.n # 1 /\ old.finding.n # 1
    <3>1. \A n \in Nat : n >= 2 => n # 1
      OBVIOUS
    <3> QED
      BY <2>4, <3>1, Zenon
  <2>6. findingKey(l.at, old.finding) = findingKey(l.at, l.finding)
    BY <2>4, <2>5, KeyForgetsCounts
  <2>7. findingKey(old.at, old.finding) \in findingKeys(window[1])
    BY DEF findingKeys
  <2> QED
    BY <2>2, <2>6, <2>7
<1>2. QED
  BY <1>1, GuardianInvariant, PTL
-----------------------------------------------------------------------------
(***************************************************************************)
(* Teams.                                                                  *)
(***************************************************************************)
LEMMA DeliveredIs ==
    ASSUME NEW runs, Len(runs) = 2, NEW team \in OwningTeams
    PROVE  LET new == notIn(runs[2], runs[1])
           IN /\ deliveries(runs).global = posted(new, MinSeverity)
              /\ deliveries(runs).teams[team] = posted(routed(new, team), MinSeverity)
<1> DEFINE found == IF Len(runs) < 2 THEN {} ELSE Diff(runs[1], runs[2]).new
           new == notIn(runs[2], runs[1])
           global == posted(found, MinSeverity)
           teams == [t \in OwningTeams |-> posted(routed(found, t), MinSeverity)]
<1>1. deliveries(runs) = [global |-> global, teams |-> teams]
  BY Zenon DEF deliveries
<1>2. found = new
  <2>1. Diff(runs[1], runs[2]).new = new
    BY NewIs
  <2>2. ~ (Len(runs) < 2)
    OBVIOUS
  <2> HIDE DEF new
  <2> QED
    BY <2>1, <2>2
<1>3. teams[team] = posted(routed(found, team), MinSeverity)
  <2> HIDE DEF found
  <2> QED
    OBVIOUS
<1>4. deliveries(runs).global = global /\ deliveries(runs).teams = teams
  <2> HIDE DEF global, teams
  <2> QED
    BY <1>1
<1>5. QED
  <2> HIDE DEF found, teams, new
  <2> QED
    BY <1>2, <1>3, <1>4 DEF new

\* A finding is a team's exactly when it is in a namespace of the team's.
LEMMA TeamIsOfNamespace ==
    ASSUME IInv, JustScanned, NEW l \in located(report), NEW team, team # ""
    PROVE  l.team = team <=>
             \E ns \in {ns \in names(All(snapshot, "Namespace")) :
                          teamOfNamespace(snapshot, ns, opts) = team} :
                l.at = <<"namespace", ns>>
<1> DEFINE section(ns) == [name |-> ns, team |-> teamOfNamespace(snapshot, ns, opts),
                           findings |-> namespaceFindings(snapshot, ns)]
           owned == {ns \in names(All(snapshot, "Namespace")) :
                       teamOfNamespace(snapshot, ns, opts) = team}
<1>1. /\ report.namespaces = {section(ns) : ns \in coveredNow}
      /\ \A ns : section(ns).name = ns /\ section(ns).team = teamOfNamespace(snapshot, ns, opts)
  <2>1. \A ns : section(ns).name = ns /\ section(ns).team = teamOfNamespace(snapshot, ns, opts)
    OBVIOUS
  <2> QED
    BY <2>1, ReportIs, Zenon
<1>2. coveredNow \subseteq names(All(snapshot, "Namespace"))
  BY DEF coveredNow, AppNamespaces
<1> HIDE DEF section
<1>3. ASSUME NEW s \in report.namespaces, l.at = <<"namespace", s.name>>, l.team = s.team
      PROVE  l.team = team <=> \E ns \in owned : l.at = <<"namespace", ns>>
  <2>1. PICK ns \in coveredNow : s = section(ns)
    BY <1>1, <1>3, Zenon
  <2>2. l.at = <<"namespace", ns>> /\ l.team = teamOfNamespace(snapshot, ns, opts)
    BY <1>1, <1>3, <2>1, Zenon
  <2>3. \A n : l.at = <<"namespace", n>> => n = ns
    BY <2>2, PlacesDiffer, Zenon
  <2>4. ns \in names(All(snapshot, "Namespace"))
    BY <1>2
  <2>5. l.team = team => ns \in owned
    BY <2>2, <2>4
  <2>6. \A n \in owned : teamOfNamespace(snapshot, n, opts) = team
    OBVIOUS
  <2> HIDE DEF owned
  <2> QED
    BY <2>2, <2>3, <2>5, <2>6, Zenon
<1>4. ASSUME NEW id \in DOMAIN report.sections, l.at = <<"section", id>>, l.team = ""
      PROVE  l.team = team <=> \E ns \in owned : l.at = <<"namespace", ns>>
  BY <1>4, PlacesDiffer, Zenon
<1>5. QED
  BY <1>3, <1>4, LocatedWhere, Zenon

\* TeamsHearOfTheirOwn: a team's webhook gets exactly what is new, severe enough and
\* in a namespace that is the team's at the time of the run, and the global webhook
\* gets all of it.
THEOREM TeamsHearTheirOwn == Spec => []TeamsHearOfTheirOwn
<1>1. ASSUME IInv PROVE TeamsHearOfTheirOwn
  <2> SUFFICES ASSUME JustScanned, Len(window) = 2, NEW team \in OwningTeams
               PROVE  LET owned == {ns \in names(All(snapshot, "Namespace")) :
                                      teamOfNamespace(snapshot, ns, opts) = team}
                          due == {l \in located(report) :
                                    /\ \E ns \in owned : l.at = <<"namespace", ns>>
                                    /\ l.finding.severity >= MinSeverity
                                    /\ findingKey(l.at, l.finding)
                                         \notin findingKeys(window[1])}
                      IN inbox.teams[team] = due /\ due \subseteq inbox.global
    BY Zenon DEF TeamsHearOfTheirOwn
  <2> DEFINE owned == {ns \in names(All(snapshot, "Namespace")) :
                         teamOfNamespace(snapshot, ns, opts) = team}
             inOwned(l) == \E ns \in owned : l.at = <<"namespace", ns>>
             isNew(l) == findingKey(l.at, l.finding) \notin findingKeys(window[1])
             due == {l \in located(report) : /\ inOwned(l)
                                             /\ l.finding.severity >= MinSeverity
                                             /\ isNew(l)}
             new == notIn(report, window[1])
  <2>1. /\ inbox.global = posted(new, MinSeverity)
        /\ inbox.teams[team] = posted(routed(new, team), MinSeverity)
    <3>1. inbox = deliveries(window) /\ report = window[2]
      BY <1>1, JustScannedIsLatest, WindowIsOfReports DEF JustScanned
    <3> QED
      BY <3>1, DeliveredIs
  <2>2. team # ""
    BY OptionsAssumption
  <2>3. \A l \in located(report) : l.team = team <=> inOwned(l)
    BY <1>1, <2>2, TeamIsOfNamespace, Zenon
  <2>4. \A l \in located(report) : l.finding.severity >= MinSeverity
                                     => l.finding.severity # Ok
    <3>1. IsReport(report)
      BY <1>1, WindowIsOfReports DEF JustScanned
    <3>2. \A l \in located(report) : l.finding.severity \in 0..3
      BY <3>1 DEF IsReport, Ok, Critical
    <3>3. MinSeverity \in 1..3
      BY OptionsAssumption DEF Info, Critical
    <3> QED
      BY <3>2, <3>3 DEF Ok
  <2>5. \A l : l \in new <=> /\ l \in located(report) /\ l.finding.severity # Ok
                             /\ isNew(l)
    BY DEF notIn
  <2> HIDE DEF inOwned, isNew, new
  <2>6. \A l : l \in posted(routed(new, team), MinSeverity) <=> l \in due
    BY <2>2, <2>3, <2>4, <2>5 DEF posted, routed
  <2>7. due \subseteq posted(new, MinSeverity)
    BY <2>4, <2>5 DEF posted
  <2>8. inbox.teams[team] = due /\ due \subseteq inbox.global
    <3> HIDE DEF due
    <3> QED
      BY <2>1, <2>6, <2>7
  <2> QED
    BY <2>8, Zenon DEF inOwned, isNew
<1>2. QED
  BY <1>1, GuardianInvariant, PTL
-----------------------------------------------------------------------------
(***************************************************************************)
(* The compliance summary.                                                 *)
(***************************************************************************)
\* The rightsizing recommendations change no section but Optimization and their own.
LEMMA SectionsAreAnalyzed ==
    ASSUME NEW s, NEW covered, NEW used, NEW o, NEW id \in SectionIds \ {"optimization"}
    PROVE  sectionsOf(s, covered, used, o)[id] = analyzed(s, covered, used, o)[id]
<1> DEFINE sections == analyzed(s, covered, used, o)
           ok == usageAnswered(o.prometheus)
           all == IF ok THEN rightsize(s, covered, used, o.cost)
                  ELSE {Plain(Info, "Could not collect usage for rightsizing")}
           place == IF ok THEN "rightsizing" ELSE ""
           recs == recommendations(s, covered, used)
           folded == IF Cardinality(all) <= topRightsizing THEN all
                     ELSE topFindings(recs, o.cost)
                            \cup {Plain(Info, "Run with --rightsizing-report")}
           reported == [i \in DOMAIN sections \cup {place} |->
                          IF i = place THEN all ELSE sections[i]]
           extended == [sections EXCEPT !.optimization = @ \cup folded]
<1>1. sectionsOf(s, covered, used, o) =
        IF o.prometheus.configured
        THEN IF o.rightsizingReport THEN reported
             ELSE IF ok THEN extended ELSE sections
        ELSE sections
  BY Zenon DEF sectionsOf, addRightsizing
<1>2. id \in DOMAIN sections /\ id # "optimization"
  BY DEF analyzed, SectionIds
<1>3. id # place
  BY DEF SectionIds
<1>4. reported[id] = sections[id]
  <2> HIDE DEF sections, all, place
  <2> QED
    BY <1>2, <1>3
<1>5. extended[id] = sections[id]
  <2> HIDE DEF sections, folded
  <2> QED
    BY <1>2
<1>6. sectionsOf(s, covered, used, o)[id] = sections[id]
  <2> HIDE DEF sections, reported, extended, ok
  <2> QED
    BY <1>1, <1>4, <1>5, Zenon
<1>7. QED
  BY <1>6

\* What the checks of the security section find, the summary apart.
securityFindings(s, covered) ==
    UNION {podSecurityFindings(s, covered), networkPolicyFindings(s, covered),
           hardeningFindings(s, covered), pssLabelFindings(s, covered), rbacFindings(s)}

LEMMA SecurityIs ==
    ASSUME NEW s, NEW covered
    PROVE  Security(s, covered) = securityFindings(s, covered)
             \cup {complianceSummary(securityFindings(s, covered))}
BY Zenon DEF Security, securityFindings

pssSummary == "Pod Security Standards"

LEMMA MessagesOfHelpers ==
    ASSUME NEW severity, NEW message, message # pssSummary, NEW n, NEW controls,
           NEW ns, NEW limit
    PROVE  /\ \A f \in Tagged(severity, message, n, controls) : f.message # pssSummary
           /\ \A f \in Counted(severity, message, n) : f.message # pssSummary
           /\ \A f \in Listed(severity, message, ns, limit) : f.message # pssSummary
           /\ Named(severity, message, n, ns, limit).message # pssSummary
<1>1. \A k, shown, more, object, c :
         Finding(severity, message, k, shown, more, object, c).message = message
  BY DEF Finding
<1>2. \A k : Named(severity, message, k, ns, limit).message # pssSummary
  BY <1>1, Zenon DEF Named
<1>3. \A c : \A f \in Tagged(severity, message, n, c) : f.message # pssSummary
  <2> SUFFICES ASSUME NEW c, NEW f \in Tagged(severity, message, n, c)
               PROVE  f.message # pssSummary
    OBVIOUS
  <2>1. f \in {Finding(severity, message, n, {}, 0, <<>>, c)}
    BY Zenon DEF Tagged
  <2> QED
    BY <1>1, <2>1, Zenon
<1>4. \A f \in Listed(severity, message, ns, limit) : f.message # pssSummary
  <2> SUFFICES ASSUME NEW f \in Listed(severity, message, ns, limit)
               PROVE  f.message # pssSummary
    OBVIOUS
  <2>1. f \in {Named(severity, message, Cardinality(ns), ns, limit)}
    BY Zenon DEF Listed
  <2> QED
    BY <1>2, <2>1, Zenon
<1>5. QED
  BY <1>2, <1>3, <1>4, Zenon DEF Counted

LEMMA SecurityFindingsAreNoSummary ==
    ASSUME NEW s, NEW covered
    PROVE  \A f \in securityFindings(s, covered) : f.message # pssSummary
<1>1. \A f \in podSecurityFindings(s, covered) : f.message # pssSummary
  <2>1. /\ "containers running as root" # pssSummary /\ "privileged containers" # pssSummary
        /\ "containers with dangerous capabilities" # pssSummary
        /\ "Pods using host network/PID/IPC" # pssSummary
    BY DEF pssSummary
  <2>2. \A f \in podSecurityFindings(s, covered) :
           \E n : \/ f \in Tagged(Warning, "containers running as root", n, {ctrlRunAsNonRoot})
                  \/ f \in Tagged(Critical, "privileged containers", n, {ctrlPrivileged})
                  \/ f \in Tagged(Warning, "containers with dangerous capabilities", n,
                                  {ctrlCapabilities})
                  \/ f \in Tagged(Warning, "Pods using host network/PID/IPC", n,
                                  {ctrlHostNamespaces})
    BY Zenon DEF podSecurityFindings
  <2> QED
    BY <2>1, <2>2, MessagesOfHelpers, Zenon
<1>2. \A f \in networkPolicyFindings(s, covered) : f.message # pssSummary
  <2>1. "namespaces without NetworkPolicies" # pssSummary
    BY DEF pssSummary
  <2> QED
    BY <2>1, MessagesOfHelpers, Zenon DEF networkPolicyFindings
<1>3. \A f \in pssLabelFindings(s, covered) : f.message # pssSummary
  <2>1. "namespaces without Pod Security Standards enforcement" # pssSummary
    BY DEF pssSummary
  <2> QED
    BY <2>1, MessagesOfHelpers, Zenon DEF pssLabelFindings
<1>4. \A f \in hardeningFindings(s, covered) : f.message # pssSummary
  <2>1. /\ "Pods without a seccomp profile" # pssSummary
        /\ "containers without readOnlyRootFilesystem" # pssSummary
        /\ "Pods automounting ServiceAccount tokens" # pssSummary
        /\ "containers receiving Secrets via environment" # pssSummary
    BY DEF pssSummary
  <2>2. \A f \in hardeningFindings(s, covered) :
           \E n : \/ f \in Tagged(Warning, "Pods without a seccomp profile", n, {ctrlSeccomp})
                  \/ f \in Counted(Info, "containers without readOnlyRootFilesystem", n)
                  \/ f \in Counted(Info, "Pods automounting ServiceAccount tokens", n)
                  \/ f \in Counted(Info, "containers receiving Secrets via environment", n)
    BY Zenon DEF hardeningFindings
  <2> QED
    BY <2>1, <2>2, MessagesOfHelpers, Zenon
<1>5. \A f \in rbacFindings(s) : f.message # pssSummary
  <2>1. /\ "ClusterRoles with wildcard rules" # pssSummary
        /\ "ServiceAccounts bound to cluster-admin" # pssSummary
    BY DEF pssSummary
  <2>2. \A f \in rbacFindings(s) :
           \/ \E ns : f \in Listed(Warning, "ClusterRoles with wildcard rules", ns, 3)
           \/ \E n, ns : f = Named(Critical, "ServiceAccounts bound to cluster-admin", n, ns, 3)
    BY Zenon DEF rbacFindings
  <2> QED
    BY <2>1, <2>2, MessagesOfHelpers, Zenon
<1>6. QED
  BY <1>1, <1>2, <1>3, <1>4, <1>5 DEF securityFindings

\* What is kept of a section with --framework, and what it has to tell.
keptOf(fs) == {f \in fs : \E c \in f.controls : c[1] \in {"baseline", "restricted"}}

tellsFailures(kept) ==
    LET summaries == {f \in kept : f.message = "Pod Security Standards"}
    IN \E f \in summaries : /\ summaries = {f}
                            /\ f.shown = {c[2] : c \in failingControls(kept \ {f})}

LEMMA SummaryOfKept ==
    ASSUME NEW found, \A f \in found : IsFinding(f) /\ f.message # pssSummary
    PROVE  tellsFailures(keptOf(found \cup {complianceSummary(found)}))
<1> DEFINE prefix == {"baseline", "restricted"}
           sum == complianceSummary(found)
           matches(f) == \E c \in f.controls : c[1] \in prefix
           kept == {f \in found \cup {sum} : matches(f)}
           failing == pssControls \cap failingControls(found)
           shown == {c[2] : c \in failing}
           severity == IF failing = {} THEN Ok ELSE Info
<1>1. \A c \in pssControls : c[1] \in prefix
  BY DEF pssControls, ctrlPrivileged, ctrlHostNamespaces, ctrlCapabilities,
         ctrlRunAsNonRoot, ctrlSeccomp
<1>2. sum.message = pssSummary /\ sum.shown = shown /\ sum.controls = pssControls
  <2>1. sum = Finding(severity, "Pod Security Standards", 0, shown, 0, <<>>, pssControls)
    BY Zenon DEF complianceSummary
  <2> HIDE DEF sum, severity, shown
  <2> QED
    BY <2>1 DEF Finding, pssSummary
<1>3. matches(sum)
  <2>1. ctrlPrivileged \in pssControls
    BY DEF pssControls
  <2> HIDE DEF sum, prefix
  <2> QED
    BY <1>1, <1>2, <2>1
<1>4. sum \in kept /\ sum \notin found
  <2> HIDE DEF sum, matches
  <2> QED
    BY <1>2, <1>3
<1>5. kept \ {sum} = {f \in found : matches(f)}
  <2> HIDE DEF sum, matches
  <2> QED
    BY <1>4
<1>6. failingControls(kept \ {sum}) = failing
  <2>1. failingControls(found) \subseteq pssControls
    BY DEF failingControls, IsFinding
  <2>2. \A f \in found : f.controls \subseteq pssControls
    BY DEF IsFinding
  <2>3. \A f \in found : \A c \in f.controls : matches(f)
    <3> HIDE DEF prefix
    <3> QED
      BY <1>1, <2>2
  <2>4. failingControls({f \in found : matches(f)}) = failingControls(found)
    <3> HIDE DEF matches
    <3> QED
      BY <2>3 DEF failingControls
  <2> HIDE DEF sum, matches, kept
  <2> QED
    BY <1>5, <2>1, <2>4
<1>7. {f \in kept : f.message = pssSummary} = {sum}
  <2> HIDE DEF sum, matches
  <2> QED
    BY <1>2, <1>4
<1>8. {f \in kept : f.message = "Pod Security Standards"} = {sum}
  BY <1>7, Zenon DEF pssSummary
<1>9. sum.shown = {c[2] : c \in failingControls(kept \ {sum})}
  <2> HIDE DEF sum, matches, kept, failing
  <2> QED
    BY <1>2, <1>6
<1>10. tellsFailures(kept)
  <2> HIDE DEF sum, kept
  <2> QED
    BY <1>8, <1>9, Zenon DEF tellsFailures
<1>11. kept = keptOf(found \cup {sum})
  BY Zenon DEF keptOf
<1>12. QED
  <2> HIDE DEF kept
  <2> QED
    BY <1>10, <1>11, Zenon

\* ComplianceSummaryIsConsistent: with --framework the summary survives, alone, and
\* names the controls that the findings kept next to it fail, and no other.
THEOREM SummaryIsConsistent == Spec => []ComplianceSummaryIsConsistent
<1>1. ASSUME IInv PROVE ComplianceSummaryIsConsistent
  <2> SUFFICES ASSUME JustScanned
               PROVE  tellsFailures(FilterControls(report, {"baseline", "restricted"})
                                      .sections.security)
    BY Zenon DEF ComplianceSummaryIsConsistent, tellsFailures
  <2> DEFINE prefix == {"baseline", "restricted"}
             spaces == {[ns EXCEPT !.findings = keptOf(@)] : ns \in report.namespaces}
             sections == [id \in DOMAIN report.sections |-> keptOf(report.sections[id])]
             found == securityFindings(snapshot, coveredNow)
  <2>1. FilterControls(report, prefix).sections = sections
    <3>1. FilterControls(report, prefix) = Finalize(spaces, sections)
      BY Zenon DEF FilterControls, keptOf
    <3> HIDE DEF spaces, sections
    <3>2. Finalize(spaces, sections).sections = sections
      BY FinalizeCounts
    <3> QED
      BY <3>1, <3>2, Zenon
  <2>2. /\ report.sections = sectionsOf(snapshot, coveredNow, usage, opts)
        /\ IsSnapshot(snapshot) /\ snapshot.HasSecretAccess \in BOOLEAN
        /\ IsUsage(usage) /\ IsCost(opts.cost) /\ IsFiniteSet(coveredNow)
    BY <1>1, ReportIs, JustScannedIsLatest
  <2>3. "security" \in SectionIds \ {"optimization"}
    BY DEF SectionIds
  <2>4. "security" \in DOMAIN report.sections
    BY <2>2, <2>3, SectionsShape
  <2>5. report.sections.security = Security(snapshot, coveredNow)
    <3>1. report.sections.security = analyzed(snapshot, coveredNow, usage, opts).security
      BY <2>2, <2>3, SectionsAreAnalyzed
    <3> DEFINE sec == Security(snapshot, coveredNow)
    <3>2. analyzed(snapshot, coveredNow, usage, opts).security = sec
      <4> HIDE DEF sec
      <4> QED
        BY DEF analyzed, sec
    <3> QED
      BY <3>1, <3>2
  <2>6. sections.security = keptOf(found \cup {complianceSummary(found)})
    <3>1. sections.security = keptOf(report.sections.security)
      BY <2>4
    <3> HIDE DEF sections
    <3> QED
      BY <2>5, <3>1, SecurityIs, Zenon
  <2>7. \A f \in found : IsFinding(f) /\ f.message # pssSummary
    <3>1. AreFindings(Security(snapshot, coveredNow))
      BY <2>2, SecurityShape
    <3>2. found \subseteq Security(snapshot, coveredNow)
      BY SecurityIs
    <3> QED
      BY <3>1, <3>2, SecurityFindingsAreNoSummary DEF AreFindings
  <2> HIDE DEF found, sections
  <2>8. FilterControls(report, prefix).sections.security =
          keptOf(found \cup {complianceSummary(found)})
    BY <2>1, <2>6, Zenon
  <2> QED
    BY <2>7, <2>8, SummaryOfKept, Zenon
<1>2. QED
  BY <1>1, GuardianInvariant, PTL
-----------------------------------------------------------------------------
(***************************************************************************)
(* What is printed, and the exit code.                                     *)
(***************************************************************************)
LEMMA PlacedIsMonotone ==
    ASSUME NEW fs, NEW gs, fs \subseteq gs, NEW at, NEW team
    PROVE  placedAt(at, team, fs) \subseteq placedAt(at, team, gs)
BY DEF placedAt

\* A report whose parts are parts of another's has findings of the other only.
LEMMA PartHasFewer ==
    ASSUME NEW r, NEW q,
           \A ns \in q.namespaces : \E of \in r.namespaces :
              ns.name = of.name /\ ns.team = of.team /\ ns.findings \subseteq of.findings,
           \A id \in DOMAIN q.sections :
              id \in DOMAIN r.sections /\ q.sections[id] \subseteq r.sections[id]
    PROVE  located(q) \subseteq located(r)
<1> SUFFICES ASSUME NEW l \in located(q) PROVE l \in located(r)
  OBVIOUS
<1>1. ASSUME NEW ns \in q.namespaces,
             l \in placedAt(<<"namespace", ns.name>>, ns.team, ns.findings)
      PROVE  l \in located(r)
  <2>1. PICK of \in r.namespaces :
           ns.name = of.name /\ ns.team = of.team /\ ns.findings \subseteq of.findings
    OBVIOUS
  <2>2. l \in placedAt(<<"namespace", of.name>>, of.team, of.findings)
    BY <1>1, <2>1, PlacedIsMonotone
  <2> QED
    BY <2>2, LocatedContains
<1>2. ASSUME NEW id \in DOMAIN q.sections,
             l \in placedAt(<<"section", id>>, "", q.sections[id])
      PROVE  l \in located(r)
  <2>1. id \in DOMAIN r.sections /\ q.sections[id] \subseteq r.sections[id]
    OBVIOUS
  <2>2. l \in placedAt(<<"section", id>>, "", r.sections[id])
    BY <1>2, <2>1, PlacedIsMonotone
  <2> QED
    BY <2>1, <2>2, LocatedContains
<1>3. \/ \E ns \in q.namespaces : l \in placedAt(<<"namespace", ns.name>>, ns.team, ns.findings)
      \/ \E id \in DOMAIN q.sections : l \in placedAt(<<"section", id>>, "", q.sections[id])
  BY LocatedIs
<1>4. QED
  BY <1>1, <1>2, <1>3, Zenon

\* A report whose summary is a recount of it.
IsCounted(r) ==
    /\ HasShape(r)
    /\ \A ns \in r.namespaces : {"name", "team", "findings"} \subseteq DOMAIN ns
    /\ \A severity \in Ok..Critical : r.summary[severity] = number(r, severity)

LEMMA FinalizedIsCounted ==
    ASSUME NEW namespaces, NEW sections, IsFiniteSet(namespaces),
           \A ns \in namespaces : AreFindings(ns.findings)
              /\ {"name", "team", "findings"} \subseteq DOMAIN ns,
           IsFiniteSet(DOMAIN sections),
           \A id \in DOMAIN sections : AreFindings(sections[id])
    PROVE  IsCounted(Finalize(namespaces, sections))
<1> DEFINE r == Finalize(namespaces, sections)
<1>1. r.namespaces = namespaces /\ r.sections = sections
      /\ r.summary = [severity \in Ok..Critical |-> number(r, severity)]
  BY FinalizeCounts
<1>2. IsCounted(r)
  <2> HIDE DEF r
  <2> QED
    BY <1>1 DEF IsCounted, HasShape
<1>3. QED
  BY <1>2

LEMMA FilterControlsKeepsPart ==
    ASSUME NEW r, IsCounted(r), NEW prefix
    PROVE  /\ IsCounted(FilterControls(r, prefix))
           /\ located(FilterControls(r, prefix)) \subseteq located(r)
<1> DEFINE match(fs) == {f \in fs : \E c \in f.controls : c[1] \in prefix}
           filtered(ns) == [ns EXCEPT !.findings = match(@)]
           spaces == {filtered(ns) : ns \in r.namespaces}
           sections == [id \in DOMAIN r.sections |-> match(r.sections[id])]
           q == FilterControls(r, prefix)
<1>1. q = Finalize(spaces, sections)
  BY Zenon DEF FilterControls
<1>2. \A fs : match(fs) \subseteq fs
  OBVIOUS
<1> HIDE DEF match
<1>3. \A fs : AreFindings(fs) => AreFindings(match(fs))
  BY <1>2, SubsetIsFinite DEF AreFindings
<1>4. ASSUME NEW ns \in r.namespaces
      PROVE  /\ filtered(ns).name = ns.name /\ filtered(ns).team = ns.team
             /\ filtered(ns).findings = match(ns.findings)
             /\ {"name", "team", "findings"} \subseteq DOMAIN filtered(ns)
             /\ AreFindings(ns.findings)
  <2>1. {"name", "team", "findings"} \subseteq DOMAIN ns /\ AreFindings(ns.findings)
    BY DEF IsCounted, HasShape
  <2> QED
    BY <2>1
<1> DEFINE f == [ns \in r.namespaces |-> filtered(ns)]
<1>5. IsFiniteSet(spaces)
  <2>1. \A y \in spaces : \E ns \in r.namespaces : y = f[ns]
    <3> HIDE DEF filtered
    <3> QED
      OBVIOUS
  <2>2. IsFiniteSet(r.namespaces)
    BY DEF IsCounted, HasShape
  <2> HIDE DEF spaces, f
  <2> QED
    BY <2>1, <2>2, CoveredIsFinite
<1>6. \A s \in spaces : \E ns \in r.namespaces : s = filtered(ns)
  <2> HIDE DEF filtered
  <2> QED
    OBVIOUS
<1> HIDE DEF filtered, spaces, f
<1>7. \A s \in spaces : /\ AreFindings(s.findings)
                        /\ {"name", "team", "findings"} \subseteq DOMAIN s
                        /\ \E ns \in r.namespaces :
                             /\ s.name = ns.name /\ s.team = ns.team
                             /\ s.findings \subseteq ns.findings
  <2> SUFFICES ASSUME NEW s \in spaces
               PROVE  /\ AreFindings(s.findings)
                      /\ {"name", "team", "findings"} \subseteq DOMAIN s
                      /\ \E ns \in r.namespaces :
                           /\ s.name = ns.name /\ s.team = ns.team
                           /\ s.findings \subseteq ns.findings
    OBVIOUS
  <2>1. PICK ns \in r.namespaces : s = filtered(ns)
    BY <1>6
  <2>2. /\ s.name = ns.name /\ s.team = ns.team /\ s.findings = match(ns.findings)
        /\ {"name", "team", "findings"} \subseteq DOMAIN s /\ AreFindings(ns.findings)
    BY <1>4, <2>1, Zenon
  <2>3. AreFindings(s.findings) /\ s.findings \subseteq ns.findings
    BY <1>2, <1>3, <2>2, Zenon
  <2> QED
    BY <2>2, <2>3, Zenon
<1>8. /\ DOMAIN sections = DOMAIN r.sections
      /\ \A id \in DOMAIN sections : /\ AreFindings(sections[id])
                                     /\ sections[id] \subseteq r.sections[id]
  BY <1>2, <1>3 DEF IsCounted, HasShape
<1>9. IsFiniteSet(DOMAIN sections)
  BY <1>8 DEF IsCounted, HasShape
<1> HIDE DEF sections, q
<1>10. IsCounted(Finalize(spaces, sections))
  BY <1>5, <1>7, <1>8, <1>9, FinalizedIsCounted
<1>11. q.namespaces = spaces /\ q.sections = sections
  BY <1>1, FinalizeCounts
<1>12. located(q) \subseteq located(r)
  BY <1>7, <1>8, <1>11, PartHasFewer
<1>13. QED
  BY <1>1, <1>10, <1>12, Zenon DEF q

LEMMA FilterTeamKeepsPart ==
    ASSUME NEW r, IsCounted(r), NEW team
    PROVE  /\ IsCounted(FilterTeam(r, team))
           /\ located(FilterTeam(r, team)) \subseteq located(r)
<1> DEFINE spaces == {ns \in r.namespaces : ns.team = team}
           sections == <<>>
           q == FilterTeam(r, team)
<1>1. q = Finalize(spaces, sections)
  BY Zenon DEF FilterTeam
<1>2. DOMAIN sections = {} /\ IsFiniteSet(DOMAIN sections)
  BY FS_EmptySet
<1>3. /\ IsFiniteSet(spaces) /\ spaces \subseteq r.namespaces
      /\ \A ns \in spaces : AreFindings(ns.findings)
            /\ {"name", "team", "findings"} \subseteq DOMAIN ns
  BY SubsetIsFinite DEF IsCounted, HasShape
<1> HIDE DEF spaces, sections, q
<1>4. IsCounted(Finalize(spaces, sections))
  BY <1>2, <1>3, FinalizedIsCounted
<1>5. q.namespaces = spaces /\ q.sections = sections
  BY <1>1, FinalizeCounts
<1>6. located(q) \subseteq located(r)
  BY <1>2, <1>3, <1>5, PartHasFewer
<1>7. QED
  BY <1>1, <1>4, <1>6, Zenon DEF q

LEMMA FinishKeepsPart ==
    ASSUME NEW r, IsCounted(r), NEW flags
    PROVE  /\ IsCounted(finishReport(r, flags))
           /\ located(finishReport(r, flags)) \subseteq located(r)
<1> DEFINE framed == IF flags.framework = {} THEN r
                     ELSE FilterControls(r, flags.framework)
<1>1. IsCounted(framed) /\ located(framed) \subseteq located(r)
  BY FilterControlsKeepsPart
<1>2. finishReport(r, flags) =
        IF flags.team = "" THEN framed ELSE FilterTeam(framed, flags.team)
  BY Zenon DEF finishReport
<1>3. QED
  <2> HIDE DEF framed
  <2> QED
    BY <1>1, <1>2, FilterTeamKeepsPart

LEMMA FewerAreFewer ==
    ASSUME NEW r, NEW q, HasShape(r), located(q) \subseteq located(r), NEW severity
    PROVE  number(q, severity) <= number(r, severity)
<1>1. IsFiniteSet({l \in located(r) : l.finding.severity = severity})
  BY LocatedHasShape, SubsetIsFinite
<1>2. {l \in located(q) : l.finding.severity = severity}
        \subseteq {l \in located(r) : l.finding.severity = severity}
  OBVIOUS
<1>3. QED
  BY <1>1, <1>2, FS_Subset DEF number

LEMMA NumberIsZero ==
    ASSUME NEW r, HasShape(r), NEW severity
    PROVE  number(r, severity) = 0 <=> \A l \in located(r) : l.finding.severity # severity
<1> DEFINE S == {l \in located(r) : l.finding.severity = severity}
<1>1. IsFiniteSet(S)
  BY LocatedHasShape, SubsetIsFinite
<1>2. Cardinality(S) = 0 <=> S = {}
  <2> HIDE DEF S
  <2> QED
    BY <1>1, FS_EmptySet
<1>3. QED
  BY <1>2 DEF number

LEMMA MaxSeverityIs ==
    ASSUME NEW r, HasShape(r)
    PROVE  /\ MaxSeverity(r) >= Warning <=> number(r, Warning) + number(r, Critical) # 0
           /\ MaxSeverity(r) >= Critical <=> number(r, Critical) # 0
<1> DEFINE S == {Ok} \cup {l.finding.severity : l \in located(r)}
<1>1. S \subseteq 0..3 /\ S # {}
  <2>1. \A f : IsFinding(f) => f.severity \in 0..3
    BY DEF IsFinding, Ok, Critical
  <2>2. \A l \in located(r) : l.finding.severity \in 0..3
    BY <2>1, LocatedHasShape
  <2> QED
    BY <2>2 DEF Ok
<1>2. IsFiniteSet(S) /\ \A x \in S : x \in Int
  <2>1. 0 \in Int /\ 3 \in Int
    OBVIOUS
  <2>2. IsFiniteSet(0..3)
    BY <2>1, FS_Interval
  <2>3. \A x \in 0..3 : x \in Int
    OBVIOUS
  <2> HIDE DEF S
  <2>4. IsFiniteSet(S)
    BY <1>1, <2>2, SubsetIsFinite, Zenon
  <2> QED
    BY <1>1, <2>3, <2>4, Zenon
<1>3. MaxSeverity(r) \in S /\ \A x \in S : MaxSeverity(r) >= x
  <2>1. MaxSeverity(r) = Max(S)
    BY Zenon DEF MaxSeverity
  <2> HIDE DEF S
  <2> QED
    BY <1>1, <1>2, <2>1, MaxIsLargest
<1>4. MaxSeverity(r) \in 0..3
  BY <1>1, <1>3
<1>5. number(r, Warning) \in Nat /\ number(r, Critical) \in Nat
  BY NumbersAreNatural
<1>6. \A severity \in {Warning, Critical} :
         number(r, severity) # 0 <=> severity \in S
  <2> SUFFICES ASSUME NEW severity \in {Warning, Critical}
               PROVE  number(r, severity) # 0 <=> severity \in S
    OBVIOUS
  <2>1. severity # Ok
    BY DEF Ok, Warning, Critical
  <2>2. severity \in S <=> \E l \in located(r) : l.finding.severity = severity
    BY <2>1
  <2> QED
    BY <2>2, NumberIsZero, Zenon
<1> HIDE DEF S
<1>7. MaxSeverity(r) >= Critical <=> Critical \in S
  BY <1>1, <1>3, <1>4 DEF Critical
<1>8. MaxSeverity(r) >= Warning <=> Warning \in S \/ Critical \in S
  BY <1>1, <1>3, <1>4 DEF Critical, Warning
<1>9. QED
  BY <1>5, <1>6, <1>7, <1>8

\* What a report passes the gate with, counted from its own findings.
gatePasses(r, flags) ==
    LET deducted == 15 * number(r, Critical) + 4 * number(r, Warning) + number(r, Info)
    IN /\ flags.failOn = "warning" => number(r, Warning) + number(r, Critical) = 0
       /\ flags.failOn = "critical" => number(r, Critical) = 0
       /\ flags.failBelow = 0 \/ deducted <= 100 - flags.failBelow

LEMMA FlagsAre ==
    ASSUME NEW flags \in Flags
    PROVE  flags.failBelow \in {0, 90} /\ flags.failOn \in {"none", "warning", "critical"}
BY DEF Flags

LEMMA GateIs ==
    ASSUME NEW r, IsCounted(r), NEW flags, flags.failBelow \in {0, 90}
    PROVE  checkFailThreshold(r, flags) = 0 <=> gatePasses(r, flags)
<1> DEFINE c == number(r, Critical)
           w == number(r, Warning)
           i == number(r, Info)
           score == reportScore(r.summary)
           below == flags.failBelow > 0 /\ score < flags.failBelow
           warned == flags.failOn = "warning" /\ MaxSeverity(r) >= Warning
           failing == flags.failOn = "critical" /\ MaxSeverity(r) >= Critical
<1>1. c \in Nat /\ w \in Nat /\ i \in Nat
  BY NumbersAreNatural DEF IsCounted
<1>2. score = scoreOf(c, w, i)
  <2>1. r.summary[Critical] = c /\ r.summary[Warning] = w /\ r.summary[Info] = i
    BY SeveritiesAreLevels DEF IsCounted
  <2> QED
    BY <2>1, Zenon DEF reportScore
<1> HIDE DEF c, w, i
<1>3. below <=> ~(flags.failBelow = 0 \/ 15 * c + 4 * w + i <= 100 - flags.failBelow)
  <2> HIDE DEF score
  <2> QED
    BY <1>1, <1>2 DEF scoreOf, scoreCostCritical, scoreCostWarning, scoreCostInfo
<1>4. /\ warned <=> flags.failOn = "warning" /\ w + c # 0
      /\ failing <=> flags.failOn = "critical" /\ c # 0
  BY MaxSeverityIs, Zenon DEF IsCounted, c, w
<1>5. checkFailThreshold(r, flags) =
        IF below THEN 2 ELSE IF warned THEN 2 ELSE IF failing THEN 3 ELSE 0
  BY Zenon DEF checkFailThreshold
<1>6. checkFailThreshold(r, flags) = 0 <=> ~below /\ ~warned /\ ~failing
  <2> HIDE DEF below, warned, failing
  <2> QED
    BY <1>5
<1>7. gatePasses(r, flags) <=>
        /\ flags.failOn = "warning" => w + c = 0
        /\ flags.failOn = "critical" => c = 0
        /\ flags.failBelow = 0 \/ 15 * c + 4 * w + i <= 100 - flags.failBelow
  BY Zenon DEF gatePasses, c, w, i
<1>8. QED
  <2> HIDE DEF below, warned, failing
  <2> QED
    BY <1>3, <1>4, <1>6, <1>7

LEMMA GateIsMonotone ==
    ASSUME NEW r, NEW q, NEW flags, NEW others, flags.failBelow \in {0, 90},
           others.failBelow = flags.failBelow, others.failOn = flags.failOn,
           \A severity : /\ number(q, severity) <= number(r, severity)
                         /\ number(q, severity) \in Nat /\ number(r, severity) \in Nat
    PROVE  gatePasses(r, others) => gatePasses(q, flags)
<1> DEFINE c(x) == number(x, Critical)
           w(x) == number(x, Warning)
           i(x) == number(x, Info)
<1>1. \A x, f : gatePasses(x, f) <=>
                  /\ f.failOn = "warning" => w(x) + c(x) = 0
                  /\ f.failOn = "critical" => c(x) = 0
                  /\ f.failBelow = 0 \/ 15 * c(x) + 4 * w(x) + i(x) <= 100 - f.failBelow
  BY Zenon DEF gatePasses
<1>2. /\ c(q) <= c(r) /\ w(q) <= w(r) /\ i(q) <= i(r)
      /\ {c(q), w(q), i(q), c(r), w(r), i(r)} \subseteq Nat
  OBVIOUS
<1> HIDE DEF c, w, i
<1>3. 15 * c(q) + 4 * w(q) + i(q) <= 15 * c(r) + 4 * w(r) + i(r)
  BY <1>2
<1>4. /\ w(r) + c(r) = 0 => w(q) + c(q) = 0
      /\ c(r) = 0 => c(q) = 0
  BY <1>2
<1>5. flags.failBelow \in Int /\ 15 * c(q) + 4 * w(q) + i(q) \in Int
      /\ 15 * c(r) + 4 * w(r) + i(r) \in Int
  BY <1>2
<1>6. 15 * c(r) + 4 * w(r) + i(r) <= 100 - flags.failBelow
        => 15 * c(q) + 4 * w(q) + i(q) <= 100 - flags.failBelow
  BY <1>3, <1>5
<1>7. QED
  BY <1>1, <1>4, <1>6, Zenon

\* GateSeesWhatIsPrinted: the exit code is 0 exactly when the printed report passes
\* the gate, counted anew from what is printed, and a filter never fails a report
\* that passes without.
THEOREM GateSees == Spec => []GateSeesWhatIsPrinted
<1>1. ASSUME IInv PROVE GateSeesWhatIsPrinted
  <2> SUFFICES ASSUME JustScanned, NEW flags \in Flags
               PROVE  /\ exitCode(report, flags) = 0
                           <=> gatePasses(finishReport(report, flags), flags)
                      /\ exitCode(report, [flags EXCEPT !.framework = {}, !.team = ""]) = 0
                           => exitCode(report, flags) = 0
    BY Zenon DEF GateSeesWhatIsPrinted, gatePasses, number
  <2> DEFINE plain == [flags EXCEPT !.framework = {}, !.team = ""]
             printed == finishReport(report, flags)
  <2>1. IsCounted(report)
    <3>1. HasShape(report)
          /\ report.summary = [severity \in Ok..Critical |-> number(report, severity)]
      BY <1>1, ReportIs
    <3>2. \A ns \in report.namespaces : {"name", "team", "findings"} \subseteq DOMAIN ns
      <4>1. report.namespaces =
              {[name |-> ns, team |-> teamOfNamespace(snapshot, ns, opts),
                findings |-> namespaceFindings(snapshot, ns)] : ns \in coveredNow}
        BY <1>1, ReportIs
      <4> QED
        BY <4>1
    <3> QED
      BY <3>1, <3>2 DEF IsCounted
  <2>2. IsCounted(printed) /\ located(printed) \subseteq located(report)
    BY <2>1, FinishKeepsPart
  <2>3. flags.failBelow \in {0, 90}
    BY FlagsAre
  <2>4. /\ plain.failBelow = flags.failBelow /\ plain.failOn = flags.failOn
        /\ plain.framework = {} /\ plain.team = ""
    BY DEF Flags
  <2>5. exitCode(report, flags) = 0 <=> gatePasses(printed, flags)
    BY <2>2, <2>3, GateIs DEF exitCode
  <2>6. exitCode(report, plain) = 0 <=> gatePasses(report, plain)
    <3> HIDE DEF plain
    <3>1. finishReport(report, plain) = report
      BY <2>4, Zenon DEF finishReport
    <3>2. exitCode(report, plain) = checkFailThreshold(report, plain)
      BY <3>1, Zenon DEF exitCode
    <3>3. plain.failBelow \in {0, 90}
      BY <2>3, <2>4, Zenon
    <3> QED
      BY <2>1, <3>2, <3>3, GateIs
  <2>7. gatePasses(report, plain) => gatePasses(printed, flags)
    <3> HIDE DEF plain, printed
    <3>1. \A severity : number(printed, severity) <= number(report, severity)
                        /\ number(printed, severity) \in Nat /\ number(report, severity) \in Nat
      BY <2>1, <2>2, FewerAreFewer, NumbersAreNatural DEF IsCounted
    <3>2. flags.failBelow \in {0, 90}
      BY <2>3
    <3>3. plain.failBelow = flags.failBelow
      BY <2>4
    <3>4. plain.failOn = flags.failOn
      BY <2>4
    <3> HIDE <2>1, <2>2, <2>3, <2>4, <2>5, <2>6
    <3> DEFINE others == plain
               q == printed
               r == report
    <3> HIDE DEF others, q, r
    <3>5. /\ others.failBelow = flags.failBelow /\ others.failOn = flags.failOn
          /\ \A severity : /\ number(q, severity) <= number(r, severity)
                           /\ number(q, severity) \in Nat /\ number(r, severity) \in Nat
      BY <3>1, <3>3, <3>4, Zenon DEF others, q, r
    <3>6. gatePasses(r, others) => gatePasses(q, flags)
      BY <3>2, <3>5, GateIsMonotone
    <3> QED
      BY <3>6 DEF others, q, r
  <2> QED
    BY <2>5, <2>6, <2>7
<1>2. QED
  BY <1>1, GuardianInvariant, PTL
-----------------------------------------------------------------------------
(***************************************************************************)
(* Disruption budgets.                                                     *)
(***************************************************************************)
isBudgetName(object) == \E name : object = <<"pdb", name>>

LEMMA NoBudgetNames ==
    /\ ~isBudgetName(<<>>)
    /\ \A kind \in podKinds : \A name : ~isBudgetName(<<kind, name>>)
    /\ \A a, b : <<"pdb", a>> = <<"pdb", b>> => a = b
<1>1. ~isBudgetName(<<>>)
  BY DEF isBudgetName
<1>2. \A kind, a, name : <<kind, a>> = <<"pdb", name>> => kind = "pdb"
  OBVIOUS
<1>3. "pdb" \notin podKinds
  BY DEF podKinds
<1>4. \A kind \in podKinds : \A name : ~isBudgetName(<<kind, name>>)
  BY <1>2, <1>3, Zenon DEF isBudgetName
<1>5. QED
  BY <1>1, <1>4

LEMMA ObjectsOfHelpers ==
    ASSUME NEW severity, NEW message, NEW n, NEW controls, NEW shown, NEW limit
    PROVE  /\ \A f \in Tagged(severity, message, n, controls) : ~isBudgetName(f.object)
           /\ \A f \in Counted(severity, message, n) : ~isBudgetName(f.object)
           /\ \A f \in Listed(severity, message, shown, limit) : ~isBudgetName(f.object)
           /\ ~isBudgetName(Named(severity, message, n, shown, limit).object)
           /\ ~isBudgetName(Plain(severity, message).object)
           /\ \A o : About(severity, message, o).object = o
<1> DEFINE none == <<>>
<1>1. \A k, of, more, object, c :
         Finding(severity, message, k, of, more, object, c).object = object
  BY DEF Finding
<1>2. \A k, of, more, c :
         ~isBudgetName(Finding(severity, message, k, of, more, <<>>, c).object)
  <2>1. ~isBudgetName(none)
    BY NoBudgetNames
  <2> HIDE DEF none
  <2>2. \A k, of, more, c :
           ~isBudgetName(Finding(severity, message, k, of, more, none, c).object)
    BY <1>1, <2>1
  <2> QED
    BY <2>2 DEF none
<1>3. \A k : ~isBudgetName(Named(severity, message, k, shown, limit).object)
  BY <1>2, Zenon DEF Named
<1>4. \A c : \A f \in Tagged(severity, message, n, c) : ~isBudgetName(f.object)
  <2> SUFFICES ASSUME NEW c, NEW f \in Tagged(severity, message, n, c)
               PROVE  ~isBudgetName(f.object)
    OBVIOUS
  <2>1. f \in {Finding(severity, message, n, {}, 0, <<>>, c)}
    BY Zenon DEF Tagged
  <2> QED
    BY <1>2, <2>1, Zenon
<1>5. \A f \in Listed(severity, message, shown, limit) : ~isBudgetName(f.object)
  <2> SUFFICES ASSUME NEW f \in Listed(severity, message, shown, limit)
               PROVE  ~isBudgetName(f.object)
    OBVIOUS
  <2>1. f \in {Named(severity, message, Cardinality(shown), shown, limit)}
    BY Zenon DEF Listed
  <2> QED
    BY <1>3, <2>1, Zenon
<1>6. ~isBudgetName(Plain(severity, message).object)
  BY <1>2, Zenon DEF Plain
<1>7. \A o : About(severity, message, o).object = o
  BY <1>1 DEF About
<1>8. QED
  BY <1>3, <1>4, <1>5, <1>6, <1>7, Zenon DEF Counted

LEMMA NamedFindings ==
    /\ \A severity, message, shown, limit : \A f \in Listed(severity, message, shown, limit) :
          ~isBudgetName(f.object)
    /\ \A severity, message, n, shown, limit :
          ~isBudgetName(Named(severity, message, n, shown, limit).object)
    /\ \A severity, message : ~isBudgetName(Plain(severity, message).object)
BY ObjectsOfHelpers

\* No other check of a namespace is about a budget.
LEMMA OtherChecksNameNoBudget ==
    ASSUME NEW s, NEW ns
    PROVE  /\ \A f \in resourceFindings(s, ns) : ~isBudgetName(f.object)
           /\ \A f \in healthFindings(s, ns) : ~isBudgetName(f.object)
           /\ \A f \in imageFindings(s, ns) : ~isBudgetName(f.object)
           /\ \A f \in probeFindings(s, ns) : ~isBudgetName(f.object)
           /\ \A f \in availabilityFindings(s, ns) : ~isBudgetName(f.object)
           /\ \A f \in unusedFindings(s, ns) : ~isBudgetName(f.object)
<1>1. \A f \in resourceFindings(s, ns) : ~isBudgetName(f.object)
  <2>1. \A f \in resourceFindings(s, ns) : \E severity, message, n :
            f \in Counted(severity, message, n)
    BY Zenon DEF resourceFindings
  <2> QED
    BY <2>1, ObjectsOfHelpers, Zenon
<1>2. \A f \in healthFindings(s, ns) : ~isBudgetName(f.object)
  <2>1. \A f \in healthFindings(s, ns) : \E severity, message, n :
            f \in Counted(severity, message, n)
    <3> DEFINE restarted == UNION {{<<p, c>> : c \in p.statuses} : p \in In(s, "Pod", ns)}
               waiting(reason) ==
                 Counted(IF reason = "CrashLoopBackOff" THEN Critical ELSE Warning, reason,
                         Cardinality({st \in restarted : st[2].waiting = reason}))
    <3>1. \A f \in UNION {waiting(reason) : reason \in waitingReasons} :
             \E severity, message, n : f \in Counted(severity, message, n)
      <4>1. \A f \in UNION {waiting(reason) : reason \in waitingReasons} :
               \E reason \in waitingReasons : f \in waiting(reason)
        <5> HIDE DEF waiting
        <5> QED
          OBVIOUS
      <4> QED
        BY <4>1, Zenon
    <3>2. \A f \in healthFindings(s, ns) :
             \/ f \in UNION {waiting(reason) : reason \in waitingReasons}
             \/ \E severity, message, n : f \in Counted(severity, message, n)
      BY Zenon DEF healthFindings
    <3> HIDE DEF waiting
    <3> QED
      BY <3>1, <3>2, Zenon
  <2> QED
    BY <2>1, ObjectsOfHelpers, Zenon
<1>3. \A f \in imageFindings(s, ns) : ~isBudgetName(f.object)
  <2> SUFFICES ASSUME NEW f \in imageFindings(s, ns) PROVE ~isBudgetName(f.object)
    OBVIOUS
  <2>1. PICK w \in workloads(s, ns) :
               f = About(Warning, "uses :latest tag", <<w.kind, w.name>>)
    BY Zenon DEF imageFindings
  <2>2. w.kind \in podKinds
    BY DEF workloads, In, podKinds
  <2>3. f.object = <<w.kind, w.name>>
    BY <2>1, ObjectsOfHelpers, Zenon
  <2> QED
    BY <2>2, <2>3, NoBudgetNames
<1>4. \A f \in probeFindings(s, ns) : ~isBudgetName(f.object)
  <2>1. \A f \in probeFindings(s, ns) : \E severity, message, n :
            f \in Counted(severity, message, n)
    BY Zenon DEF probeFindings
  <2> QED
    BY <2>1, ObjectsOfHelpers, Zenon
<1>5. \A f \in availabilityFindings(s, ns) : ~isBudgetName(f.object)
  <2> SUFFICES ASSUME NEW f \in availabilityFindings(s, ns) PROVE ~isBudgetName(f.object)
    OBVIOUS
  <2>1. \E severity, message, n, shown, limit :
           \/ f \in Listed(severity, message, shown, limit)
           \/ f = Named(severity, message, n, shown, limit)
           \/ f = Plain(severity, message)
    <3> DEFINE single == names({d \in In(s, "Deployment", ns) :
                                  d.replicas # NoReplicas /\ d.replicas = 1})
               noHPA == names({d \in In(s, "Deployment", ns) :
                           ~\E h \in In(s, "HPA", ns) :
                               h.target = <<"Deployment", d.name>>})
    <3>1. \/ f \in Listed(Info, "single-replica Deployments", single, 4)
          \/ f \in {Named(Info, "Missing HorizontalPodAutoscaler for", 0, noHPA, 4)}
          \/ f \in {Plain(Info, "Missing HorizontalPodAutoscaler")}
      BY Zenon DEF availabilityFindings
    <3> HIDE DEF single, noHPA
    <3> QED
      BY <3>1, Zenon
  <2> QED
    BY <2>1, NamedFindings, Zenon
<1>6. \A f \in unusedFindings(s, ns) : ~isBudgetName(f.object)
  <2>1. PICK a, b, c, d, e, g, h, i, j : unusedFindings(s, ns) = UNION
          {Listed(Info, "unused ConfigMap", a, 4),
           Listed(Info, "unused Secret", b, 4),
           Listed(Info, "PVC not mounted", c, 4),
           Listed(Info, "unbound PVC", d, 4),
           Listed(Info, "Service with no matching Pods", e, 4),
           Listed(Info, "Ingress path routing to a missing Service", g, 4),
           Listed(Info, "HTTPRoute backend routing to a missing Service", h, 4),
           Listed(Info, "HPA targeting a missing workload", i, 4),
           Listed(Info, "PodDisruptionBudget selecting no Pods", j, 4)}
    BY Zenon DEF unusedFindings
  <2> DEFINE isListed(A) == \E severity, message, shown, limit :
                              A = Listed(severity, message, shown, limit)
             F == {Listed(Info, "unused ConfigMap", a, 4),
                   Listed(Info, "unused Secret", b, 4),
                   Listed(Info, "PVC not mounted", c, 4),
                   Listed(Info, "unbound PVC", d, 4),
                   Listed(Info, "Service with no matching Pods", e, 4),
                   Listed(Info, "Ingress path routing to a missing Service", g, 4),
                   Listed(Info, "HTTPRoute backend routing to a missing Service", h, 4),
                   Listed(Info, "HPA targeting a missing workload", i, 4),
                   Listed(Info, "PodDisruptionBudget selecting no Pods", j, 4)}
  <2>2. \A A \in F : isListed(A)
    <3>1. \A severity, message, shown, limit : isListed(Listed(severity, message, shown, limit))
      OBVIOUS
    <3> HIDE DEF isListed
    <3> QED
      BY <3>1
  <2>3. unusedFindings(s, ns) = UNION F
    BY <2>1
  <2> HIDE DEF F
  <2>4. \A f \in unusedFindings(s, ns) : \E severity, message, shown, limit :
           f \in Listed(severity, message, shown, limit)
    <3>1. \A f \in unusedFindings(s, ns) : \E A \in F : f \in A
      BY <2>3
    <3>2. ASSUME NEW A \in F PROVE \E severity, message, shown, limit :
             A = Listed(severity, message, shown, limit)
      BY <2>2
    <3> QED
      BY <3>1, <3>2
  <2> QED
    BY <2>4, NamedFindings, Zenon
<1>7. QED
  BY <1>1, <1>2, <1>3, <1>4, <1>5, <1>6

\* A namespace that has a workload of several replicas is told of a budget exactly
\* when one of that name blocks.
LEMMA ReportedBudgets ==
    ASSUME NEW s, NEW ns, NEW name, multiReplica(s, ns) # {}
    PROVE  (\E f \in namespaceFindings(s, ns) : f.object = <<"pdb", name>>) <=>
           \E b \in In(s, "PDB", ns) : b.name = name /\ blocking(b, multiReplica(s, ns))
<1> DEFINE message == "allows zero voluntary disruptions"
           ws == multiReplica(s, ns)
           told == {About(Warning, message, <<"pdb", b.name>>)
                      : b \in {b \in In(s, "PDB", ns) : blocking(b, ws)}}
<1>1. \A f \in disruptionFindings(s, ns) :
         f \in told \/ \E severity, text, n, shown, limit : f = Named(severity, text, n, shown, limit)
  <2> DEFINE listed(severity, text, lacking) ==
                IF lacking = {} THEN {}
                ELSE {Named(severity, text, Cardinality(lacking), names(lacking), 4)}
             noPDB == {w \in ws : ~\E b \in In(s, "PDB", ns) : Selects(b, w.labels)}
             noSpread == {w \in ws : ~w.spec.spread}
  <2>1. disruptionFindings(s, ns) =
           told \cup listed(Warning, "without a PodDisruptionBudget", noPDB)
                \cup listed(Info, "without spreading constraints", noSpread)
    BY Zenon DEF disruptionFindings
  <2>2. \A severity, text, lacking : \A f \in listed(severity, text, lacking) :
           f = Named(severity, text, Cardinality(lacking), names(lacking), 4)
    BY Zenon
  <2> HIDE DEF listed, told, noPDB, noSpread
  <2> QED
    BY <2>1, <2>2, Zenon
<1>2. told \subseteq disruptionFindings(s, ns)
  BY Zenon DEF disruptionFindings
<1>3. \A f \in told : \E b \in In(s, "PDB", ns) :
         blocking(b, ws) /\ f = About(Warning, message, <<"pdb", b.name>>)
  BY Zenon
<1>4. \A b \in In(s, "PDB", ns) :
         blocking(b, ws) => About(Warning, message, <<"pdb", b.name>>) \in told
  BY Zenon
<1> HIDE DEF told, message
<1>5. ASSUME NEW f \in namespaceFindings(s, ns), f.object = <<"pdb", name>>
      PROVE  \E b \in In(s, "PDB", ns) : b.name = name /\ blocking(b, ws)
  <2>1. isBudgetName(f.object)
    BY <1>5 DEF isBudgetName
  <2>2. f \in disruptionFindings(s, ns)
    BY <2>1, OtherChecksNameNoBudget, Zenon DEF namespaceFindings
  <2>3. f \in told
    <3>1. \A severity, text, n, shown, limit : f # Named(severity, text, n, shown, limit)
      BY <2>1, NamedFindings
    <3> QED
      BY <1>1, <2>2, <3>1
  <2>4. PICK b \in In(s, "PDB", ns) :
              blocking(b, ws) /\ f = About(Warning, message, <<"pdb", b.name>>)
    BY <1>3, <2>3
  <2>5. f.object = <<"pdb", b.name>>
    BY <2>4, ObjectsOfHelpers
  <2> QED
    BY <1>5, <2>4, <2>5, NoBudgetNames
<1>6. ASSUME NEW b \in In(s, "PDB", ns), b.name = name, blocking(b, ws)
      PROVE  \E f \in namespaceFindings(s, ns) : f.object = <<"pdb", name>>
  <2> DEFINE f == About(Warning, message, <<"pdb", b.name>>)
  <2>1. f \in disruptionFindings(s, ns)
    BY <1>2, <1>4, <1>6
  <2>2. f \in namespaceFindings(s, ns)
    BY <2>1, Zenon DEF namespaceFindings
  <2>3. f.object = <<"pdb", name>>
    BY <1>6, ObjectsOfHelpers
  <2> HIDE DEF f
  <2> QED
    BY <2>2, <2>3
<1>7. QED
  BY <1>5, <1>6

\* A budget in whole numbers gives one of its fields.
LEMMA WholeBudget ==
    ASSUME NEW b, IsBudget(b), "int" \in {b.minAvailable.type, b.maxUnavailable.type}
    PROVE  \/ /\ b.minAvailable.type = "int" /\ b.minAvailable.value \in Nat
              /\ b.maxUnavailable.type = "none"
           \/ /\ b.maxUnavailable.type = "int" /\ b.maxUnavailable.value \in Nat
              /\ b.minAvailable.type = "none"
<1> DEFINE min == b.minAvailable
           max == b.maxUnavailable
<1>1. PICK given \in {min, max} : \E other \in {min, max} :
          /\ {min, max} = {given, other}
          /\ given.type \in {"int", "percent"} /\ given.value \in Nat
          /\ other.type = "none"
  BY Zenon DEF IsBudget
<1>2. PICK other \in {min, max} :
          /\ {min, max} = {given, other}
          /\ given.type \in {"int", "percent"} /\ given.value \in Nat
          /\ other.type = "none"
  BY <1>1
<1>3. given # other
  BY <1>2
<1>4. "int" \in {min.type, max.type}
  OBVIOUS
<1>5. QED
  <2> HIDE DEF min, max
  <2>1. (given = min /\ other = max) \/ (given = max /\ other = min)
    BY <1>3
  <2>2. \/ min.type = "int" /\ min.value \in Nat /\ max.type = "none"
        \/ max.type = "int" /\ max.value \in Nat /\ min.type = "none"
    BY <1>2, <1>4, <2>1
  <2> QED
    BY <2>2 DEF min, max

\* What it allows, by the field it gives; replicas is the sum over what it selects.
LEMMA AllowedBy ==
    ASSUME NEW b, NEW ws, NEW replicas \in Nat,
           replicas = SumFunction([w \in ws |-> w.replicas])
    PROVE  /\ b.minAvailable.type = "int" /\ b.minAvailable.value \in Nat =>
                 (disruptionsAllowed(b, ws) = 0 <=> b.minAvailable.value >= replicas)
           /\ b.minAvailable.type # "int" =>
                 disruptionsAllowed(b, ws) = b.maxUnavailable.value
<1>1. ASSUME b.minAvailable.type = "int", b.minAvailable.value \in Nat
      PROVE  disruptionsAllowed(b, ws) = 0 <=> b.minAvailable.value >= replicas
  <2> DEFINE left == replicas - b.minAvailable.value
  <2>1. disruptionsAllowed(b, ws) = Max({0, left})
    BY <1>1, Zenon DEF disruptionsAllowed
  <2>2. left \in Int
    BY <1>1
  <2>3. Max({0, left}) \in {0, left} /\ Max({0, left}) >= left /\ Max({0, left}) >= 0
    <3> HIDE DEF left
    <3>1. 0 \in Nat
      OBVIOUS
    <3> QED
      BY <2>2, <3>1, LargerIsMax
  <2>4. Max({0, left}) = 0 <=> left <= 0
    <3> HIDE DEF left
    <3> QED
      BY <2>2, <2>3
  <2>5. left <= 0 <=> b.minAvailable.value >= replicas
    BY <1>1
  <2> QED
    BY <2>1, <2>4, <2>5
<1>2. b.minAvailable.type # "int" => disruptionsAllowed(b, ws) = b.maxUnavailable.value
  BY Zenon DEF disruptionsAllowed
<1>3. QED
  BY <1>1, <1>2

\* A budget that lets none of what it selects go blocks each of its workloads.
LEMMA NoneAllowedBlocks ==
    ASSUME NEW b, IsBudget(b), "int" \in {b.minAvailable.type, b.maxUnavailable.type},
           NEW scaled, IsFiniteSet(scaled), \A v \in scaled : v.replicas \in Nat,
           NEW w \in scaled, NEW ws, w \in ws, Selects(b, w.labels),
           disruptionsAllowed(b, scaled) = 0
    PROVE  blocking(b, ws)
<1> DEFINE counts == [v \in scaled |-> v.replicas]
           replicas == SumFunction(counts)
<1>1. /\ DOMAIN counts = scaled /\ counts[w] = w.replicas
      /\ \A v \in DOMAIN counts : counts[v] \in Nat
  OBVIOUS
<1>2. replicas \in Nat /\ replicas >= w.replicas
  <2> HIDE DEF counts
  <2> QED
    BY <1>1, SumIsNat, SumAtLeast
<1>3. replicas = SumFunction([v \in scaled |-> v.replicas])
  OBVIOUS
<1> HIDE DEF replicas
<1>4. CASE /\ b.minAvailable.type = "int" /\ b.minAvailable.value \in Nat
           /\ b.maxUnavailable.type = "none"
  <2>1. b.minAvailable.value >= replicas
    BY <1>2, <1>3, <1>4, AllowedBy
  <2>2. w.replicas \in Nat
    OBVIOUS
  <2>3. b.minAvailable.value >= w.replicas
    BY <1>2, <1>4, <2>1, <2>2
  <2> QED
    BY <1>4, <2>3 DEF blocking, minAvailableBlocks
<1>5. CASE /\ b.maxUnavailable.type = "int" /\ b.maxUnavailable.value \in Nat
           /\ b.minAvailable.type = "none"
  <2>1. b.maxUnavailable.value = 0
    BY <1>2, <1>3, <1>5, AllowedBy
  <2> QED
    BY <1>5, <2>1 DEF blocking, maxUnavailableIsZero
<1>6. QED
  BY <1>4, <1>5, WholeBudget

\* One that blocks, of those that select a single workload, lets none go.
LEMMA BlockedAllowsNone ==
    ASSUME NEW b, IsBudget(b), "int" \in {b.minAvailable.type, b.maxUnavailable.type},
           NEW w, w.replicas \in Nat,
           NEW ws, \A v \in ws : Selects(b, v.labels) => v = w,
           blocking(b, ws)
    PROVE  disruptionsAllowed(b, {w}) = 0
<1> DEFINE counts == [v \in {w} |-> v.replicas]
<1>1. SumFunction(counts) = w.replicas
  <2>1. DOMAIN counts = {w} /\ counts[w] = w.replicas
    OBVIOUS
  <2> HIDE DEF counts
  <2> QED
    BY <2>1, SumOfOne
<1>2. w.replicas = SumFunction([v \in {w} |-> v.replicas])
  BY <1>1
<1>3. \/ maxUnavailableIsZero(b.maxUnavailable)
      \/ minAvailableBlocks(b.minAvailable, w.replicas)
  BY DEF blocking
<1>4. CASE /\ b.minAvailable.type = "int" /\ b.minAvailable.value \in Nat
           /\ b.maxUnavailable.type = "none"
  <2>1. b.minAvailable.value >= w.replicas
    BY <1>3, <1>4 DEF maxUnavailableIsZero, minAvailableBlocks
  <2> QED
    BY <1>2, <1>4, <2>1, AllowedBy
<1>5. CASE /\ b.maxUnavailable.type = "int" /\ b.maxUnavailable.value \in Nat
           /\ b.minAvailable.type = "none"
  <2>1. b.maxUnavailable.value = 0
    BY <1>3, <1>5 DEF maxUnavailableIsZero, minAvailableBlocks
  <2> QED
    BY <1>2, <1>5, <2>1, AllowedBy
<1>6. QED
  BY <1>4, <1>5, WholeBudget

\* The snapshot holds the cluster's budgets as they are.
LEMMA SnapshotOfOthers ==
    ASSUME TypeOK, UniqueNames, NEW o \in snapshot.objects, o.kind # "Secret"
    PROVE  /\ o \in objects /\ IsObject(o)
           /\ \A p \in snapshot.objects : identity(p) = identity(o) => p = o
<1>1. snapshot.objects = listedOf(objects, answered) \cup namespacesOf(objects, opts.only)
                           \cup gatekeeperConstraints(objects, answered)
  BY CollectedObjects, Zenon DEF snapshot
<1>2. \A p \in snapshot.objects : p.kind # "Secret" => p \in objects
  <2> SUFFICES ASSUME NEW p \in snapshot.objects, p.kind # "Secret" PROVE p \in objects
    OBVIOUS
  <2>1. CASE p \in listedOf(objects, answered)
    <3>1. PICK q \in objects : p = stripped(q)
      BY <2>1 DEF listedOf
    <3>2. IsObject(q)
      BY ClusterIsValid DEF IsCluster
    <3>3. q.kind = p.kind
      BY <3>1, <3>2, StrippedIsObject
    <3>4. stripped(q) = q
      BY <3>3 DEF stripped
    <3> QED
      BY <3>1, <3>4
  <2>2. CASE p \in namespacesOf(objects, opts.only)
    BY <2>2 DEF namespacesOf, filterNamespaces
  <2>3. CASE p \in gatekeeperConstraints(objects, answered)
    BY <2>3 DEF gatekeeperConstraints
  <2> QED
    BY <1>1, <2>1, <2>2, <2>3
<1>3. o \in objects /\ IsObject(o)
  BY <1>2, ClusterIsValid DEF IsCluster
<1>4. \A p \in snapshot.objects : identity(p) = identity(o) => p.kind = o.kind
  BY DEF identity
<1>5. QED
  BY <1>2, <1>3, <1>4 DEF UniqueNames

\* A Deployment or StatefulSet of a snapshot has as many replicas as it says.
LEMMA ReplicasAreTold ==
    ASSUME TypeOK, UniqueNames, NEW w \in snapshot.objects,
           w.kind \in {"Deployment", "StatefulSet"}
    PROVE  w.replicas \in Nat
<1>1. w \in objects /\ IsObject(w)
  BY SnapshotOfOthers
<1>2. w.replicas # NoReplicas
  BY <1>1, ObjectsAssumption DEF TypeOK
<1>3. w.replicas \in Nat \cup {NoReplicas}
  BY <1>1, Zenon DEF IsObject
<1>4. QED
  BY <1>2, <1>3

\* BlockingPDBsAreExact: a budget in whole numbers is reported whenever it lets
\* nothing go of what it selects, a workload of several replicas among it, and of a
\* budget that selects a single such template only then.
THEOREM BlockingIsExact == Spec => []BlockingPDBsAreExact
<1>1. ASSUME IInv PROVE BlockingPDBsAreExact
  <2> SUFFICES ASSUME JustScanned, NEW b \in All(snapshot, "PDB"),
                      NEW section \in report.namespaces, section.name = b.ns,
                      "int" \in {b.minAvailable.type, b.maxUnavailable.type},
                      NEW selected,
                      selected = {v \in workloads(snapshot, b.ns) : Selects(b, v.labels)},
                      NEW scaled,
                      scaled = {v \in selected : v.kind \in {"Deployment", "StatefulSet"}},
                      NEW w \in {v \in scaled : v.replicas > 1},
                      NEW reported,
                      reported = (\E f \in section.findings : f.object = <<"pdb", b.name>>)
               PROVE  /\ disruptionsAllowed(b, scaled) = 0 => reported
                      /\ reported /\ selected = {w} => disruptionsAllowed(b, scaled) = 0
    BY Zenon DEF BlockingPDBsAreExact
  <2> DEFINE ws == multiReplica(snapshot, b.ns)
  <2>1. section.findings = namespaceFindings(snapshot, b.ns)
    <3>1. PICK ns \in coveredNow :
              section = [name |-> ns, team |-> teamOfNamespace(snapshot, ns, opts),
                         findings |-> namespaceFindings(snapshot, ns)]
      BY <1>1, ReportIs
    <3> DEFINE fs == namespaceFindings(snapshot, ns)
    <3>2. section.name = ns /\ section.findings = fs
      <4> HIDE DEF fs
      <4> QED
        BY <3>1 DEF fs
    <3> QED
      BY <3>2
  <2>2. /\ b \in snapshot.objects /\ b.kind = "PDB" /\ scaled \subseteq snapshot.objects
        /\ \A v \in scaled : /\ v.kind \in {"Deployment", "StatefulSet"} /\ v.ns = b.ns
                             /\ Selects(b, v.labels)
    BY DEF All, workloads, In
  <2>3. /\ IsObject(b)
        /\ \A p \in snapshot.objects : identity(p) = identity(b) => p = b
    BY <1>1, <2>2, SnapshotOfOthers DEF IInv
  <2>4. IsBudget(b)
    BY <2>2, <2>3, Zenon DEF IsObject
  <2>5. \A p \in In(snapshot, "PDB", b.ns) : p.name = b.name => p = b
    BY <2>2, <2>3 DEF In, identity
  <2>6. b \in In(snapshot, "PDB", b.ns)
    BY <2>2 DEF In
  <2>7. \A v \in scaled : v.replicas \in Nat
    BY <1>1, <2>2, ReplicasAreTold DEF IInv
  <2>8. IsFiniteSet(scaled)
    <3>1. IsFiniteSet(snapshot.objects)
      BY <1>1, JustScannedIsLatest DEF IsSnapshot
    <3> QED
      BY <2>2, <3>1, FS_Subset
  <2>9. w \in ws
    <3>1. w \in snapshot.objects /\ w.kind \in {"Deployment", "StatefulSet"} /\ w.ns = b.ns
      BY <2>2
    <3>2. w.replicas \in Nat /\ w.replicas >= 2 /\ w.replicas # NoReplicas
      BY <2>7 DEF NoReplicas
    <3> QED
      BY <3>1, <3>2 DEF multiReplica, In
  <2>10. reported <=> blocking(b, ws)
    <3>1. (\E f \in namespaceFindings(snapshot, b.ns) : f.object = <<"pdb", b.name>>)
            <=> \E c \in In(snapshot, "PDB", b.ns) : c.name = b.name /\ blocking(c, ws)
      BY <2>9, ReportedBudgets
    <3> QED
      BY <2>1, <2>5, <2>6, <3>1, Zenon
  <2>11. ASSUME disruptionsAllowed(b, scaled) = 0 PROVE reported
    <3>1. w \in scaled /\ Selects(b, w.labels)
      BY <2>2
    <3> HIDE DEF ws
    <3>2. blocking(b, ws)
      BY <2>4, <2>7, <2>8, <2>9, <2>11, <3>1, NoneAllowedBlocks
    <3> QED
      BY <2>10, <3>2
  <2>12. ASSUME reported, selected = {w} PROVE disruptionsAllowed(b, scaled) = 0
    <3>1. scaled = {w} /\ w.replicas \in Nat
      BY <2>7, <2>12
    <3>2. \A v \in ws : Selects(b, v.labels) => v = w
      <4>1. \A v \in ws : v \in workloads(snapshot, b.ns)
        BY DEF multiReplica, workloads
      <4> QED
        BY <2>12, <4>1
    <3> HIDE DEF ws
    <3>3. disruptionsAllowed(b, {w}) = 0
      BY <2>4, <2>10, <2>12, <3>1, <3>2, BlockedAllowsNone
    <3> QED
      BY <3>1, <3>3
  <2> QED
    BY <2>11, <2>12
<1>2. QED
  BY <1>1, GuardianInvariant, PTL
-----------------------------------------------------------------------------
(***************************************************************************)
(* Rightsizing.                                                            *)
(***************************************************************************)
\* The samples of the pods a workload selects.
samplesOf(s, used, ns, selector) ==
    {u \in used : \E p \in In(s, "Pod", ns) :
        (p.phase = "Running" /\ selector \subseteq p.labels) /\ u.ns = p.ns /\ u.name = p.name}

peakCPU(samples) == Max({0} \cup {u.cpu : u \in samples})

peakMem(samples) == Max({0} \cup {u.mem : u \in samples})

\* Are the requests so far from the usage that others are recommended?
farOff(cpu, mem, p95, memMax) ==
    \/ 2 * cpu > 3 * roundCPU(p95) /\ cpu - roundCPU(p95) >= 50
    \/ 2 * mem > 3 * suggestedMem(memMax) /\ mem - suggestedMem(memMax) >= 64
    \/ cpu > 0 /\ p95 > cpu
    \/ mem > 0 /\ memMax > mem
    \/ cpu = 0 /\ mem = 0

LEMMA RecommendIs ==
    ASSUME NEW s, NEW used, NEW w
    PROVE  LET samples == samplesOf(s, used, w.ns, w.selector)
           IN /\ ~farOff(cpuOf({w}), memOf({w}), peakCPU(samples), peakMem(samples))
                   => recommend(s, used, w) = {}
              /\ \A r \in recommend(s, used, w) :
                    /\ r.containers = {c.name : c \in w.spec.containers}
                    /\ r.cpu = roundCPU(peakCPU(samples))
                    /\ r.mem = suggestedMem(peakMem(samples))
                    /\ r.memLimit = roundMem(peakMem(samples), 150)
                    /\ w.selects /\ w.selector # {}
<1> DEFINE pods == {p \in In(s, "Pod", w.ns) : /\ p.phase = "Running"
                                               /\ w.selector \subseteq p.labels}
           samples == {u \in used : \E p \in pods : u.ns = p.ns /\ u.name = p.name}
           p95 == Max({0} \cup {u.cpu : u \in samples})
           memMax == Max({0} \cup {u.mem : u \in samples})
           curCPU == cpuOf({w})
           curMem == memOf({w})
           sugCPU == roundCPU(p95)
           sugMem == suggestedMem(memMax)
           over == \/ 2 * curCPU > 3 * sugCPU /\ curCPU - sugCPU >= 50
                   \/ 2 * curMem > 3 * sugMem /\ curMem - sugMem >= 64
           under == (curCPU > 0 /\ p95 > curCPU) \/ (curMem > 0 /\ memMax > curMem)
           unset == curCPU = 0 /\ curMem = 0
           workload == <<w.kind, w.ns, w.name>>
           containers == {c.name : c \in w.spec.containers}
           podCount == Cardinality(pods)
           limit == roundMem(memMax, 150)
           spareCPU == Max({0, curCPU - sugCPU})
           spareMem == Max({0, curMem - sugMem})
           state == CASE unset -> "has no resource requests"
                      [] ~unset /\ under -> "is underprovisioned"
                      [] ~unset /\ ~under -> "is overprovisioned"
           r0 == [workload |-> workload, containers |-> containers,
                  pods |-> podCount, cpu |-> sugCPU, mem |-> sugMem, memLimit |-> limit,
                  state |-> state, spareCPU |-> spareCPU, spareMem |-> spareMem]
<1>1. recommend(s, used, w) =
        IF ~w.selects \/ w.selector = {} \/ samples = {} \/ ~(over \/ under \/ unset)
        THEN {} ELSE {r0}
  BY Zenon DEF recommend
<1>2. samples = samplesOf(s, used, w.ns, w.selector)
  <2>1. \A u : (\E p \in pods : u.ns = p.ns /\ u.name = p.name)
                 <=> \E p \in In(s, "Pod", w.ns) :
                       (p.phase = "Running" /\ w.selector \subseteq p.labels)
                         /\ u.ns = p.ns /\ u.name = p.name
    BY Zenon
  <2> HIDE DEF pods
  <2> QED
    BY <2>1 DEF samplesOf
<1>3. (over \/ under \/ unset) <=> farOff(curCPU, curMem, p95, memMax)
  BY Zenon DEF farOff
<1>4. /\ r0.containers = containers /\ r0.cpu = sugCPU /\ r0.mem = sugMem
      /\ r0.memLimit = limit
  <2> HIDE DEF workload, containers, podCount, sugCPU, sugMem, limit, spareCPU, spareMem, state
  <2> QED
    OBVIOUS
<1>5. p95 = peakCPU(samples) /\ memMax = peakMem(samples)
  BY Zenon DEF peakCPU, peakMem
<1>6. sugCPU = roundCPU(p95) /\ sugMem = suggestedMem(memMax) /\ limit = roundMem(memMax, 150)
  OBVIOUS
<1>7. QED
  <2> HIDE DEF samples, over, under, unset, r0, p95, memMax, sugCPU, sugMem, limit
  <2>1. \A r \in recommend(s, used, w) :
           r = r0 /\ w.selects /\ w.selector # {} /\ (over \/ under \/ unset)
    BY <1>1
  <2>2. ~(over \/ under \/ unset) => recommend(s, used, w) = {}
    BY <1>1
  <2>3. ~farOff(cpuOf({w}), memOf({w}), peakCPU(samples), peakMem(samples))
           => recommend(s, used, w) = {}
    BY <1>3, <1>5, <2>2, Zenon
  <2>4. \A r \in recommend(s, used, w) :
          /\ r.containers = containers
          /\ r.cpu = roundCPU(peakCPU(samples))
          /\ r.mem = suggestedMem(peakMem(samples))
          /\ r.memLimit = roundMem(peakMem(samples), 150)
    BY <1>4, <1>5, <1>6, <2>1, Zenon
  <2> QED
    BY <1>2, <2>1, <2>3, <2>4, Zenon

\* What is asked for with the recommended values is not far off.
LEMMA SettledRequests ==
    ASSUME NEW p \in Nat, NEW m \in Nat
    PROVE  ~farOff(roundCPU(p), suggestedMem(m), p, m)
<1> DEFINE c == roundCPU(p)
           d == suggestedMem(m)
<1>1. c \in Nat /\ c >= p /\ c >= 10 /\ d \in Nat /\ d >= m /\ d >= 32
  <2>1. 115 \in Nat
    OBVIOUS
  <2> QED
    BY <2>1, RoundCPUCovers, SuggestedMemCovers, RoundingsAreNatural
<1> HIDE DEF c, d
<1>2. /\ ~(2 * c > 3 * c) /\ ~(2 * d > 3 * d) /\ ~(p > c) /\ ~(m > d) /\ c # 0
  BY <1>1
<1>3. QED
  BY <1>2, Zenon DEF farOff, c, d

LEMMA OneNameOneContainer ==
    ASSUME NEW spec, IsPodSpec(spec), Cardinality({c.name : c \in spec.containers}) = 1
    PROVE  \E c \in spec.containers : spec.containers = {c} /\ IsContainer(c)
<1> DEFINE S == {c.name : c \in spec.containers}
<1>1. IsFiniteSet(S)
  <2>1. IsFiniteSet(spec.containers)
    BY DEF IsPodSpec
  <2> DEFINE f == [c \in spec.containers |-> c.name]
  <2>2. \A y \in S : \E c \in spec.containers : y = f[c]
    OBVIOUS
  <2> HIDE DEF S, f
  <2> QED
    BY <2>1, <2>2, CoveredIsFinite
<1>2. PICK name : S = {name}
  <2> HIDE DEF S
  <2>1. Cardinality(S) = 1
    BY DEF S
  <2> QED
    BY <1>1, <2>1, FS_Singleton
<1>3. PICK c \in spec.containers : c.name = name
  BY <1>2
<1>4. \A d \in spec.containers : d = c
  BY <1>2, <1>3 DEF IsPodSpec
<1>5. IsContainer(c)
  BY DEF IsPodSpec
<1>6. spec.containers = {c}
  BY <1>4
<1>7. QED
  BY <1>5, <1>6

LEMMA ResizedRequests ==
    ASSUME NEW w, IsObject(w), w.kind \in {"Deployment", "StatefulSet", "DaemonSet"}, NEW r,
           r.cpu \in Nat, r.mem \in Nat, r.containers = {c.name : c \in w.spec.containers},
           Cardinality(r.containers) = 1
    PROVE  /\ cpuOf({resized(w, r)}) = r.cpu /\ memOf({resized(w, r)}) = r.mem
           /\ resized(w, r).ns = w.ns /\ resized(w, r).selector = w.selector
<1> DEFINE spec == w.spec
           v == resized(w, r)
           set(c) == [c EXCEPT !.cpu = r.cpu, !.mem = r.mem, !.memLimit = r.memLimit]
<1>1. "spec" \in DOMAIN w /\ IsPodSpec(spec) /\ {"ns", "selector"} \subseteq DOMAIN w
  <2>1. w.kind \in podKinds
    BY DEF podKinds
  <2>2. "spec" \in DOMAIN w /\ IsPodSpec(spec) /\ "ns" \in DOMAIN w
    BY <2>1 DEF IsObject
  <2>3. "selector" \in DOMAIN w
    BY DEF IsObject
  <2> QED
    BY <2>2, <2>3
<1>2. PICK c \in spec.containers : spec.containers = {c} /\ IsContainer(c)
  BY <1>1, OneNameOneContainer
<1>3. "containers" \in DOMAIN spec
  BY <1>1 DEF IsPodSpec, PodSpec
<1> DEFINE resizedSpec == [spec EXCEPT !.containers = {set(d) : d \in spec.containers}]
<1>4. v = [w EXCEPT !.spec = resizedSpec]
  BY Zenon DEF resized
<1>5. v.spec = resizedSpec /\ v.ns = w.ns /\ v.selector = w.selector
  <2> HIDE DEF resizedSpec, v
  <2> QED
    BY <1>1, <1>4
<1>6. v.spec.containers = {set(c)}
  <2>1. {set(d) : d \in spec.containers} = {set(c)}
    <3> HIDE DEF set, spec
    <3> QED
      BY <1>2
  <2>2. resizedSpec.containers = {set(d) : d \in spec.containers}
    <3> HIDE DEF set, spec
    <3> QED
      BY <1>3
  <2> HIDE DEF set, spec, resizedSpec, v
  <2> QED
    BY <1>5, <2>1, <2>2
<1>7. set(c).cpu = r.cpu /\ set(c).mem = r.mem
  <2>1. {"cpu", "mem", "memLimit"} \subseteq DOMAIN c
    BY <1>2 DEF IsContainer, Container
  <2> QED
    BY <2>1
<1>8. cpuOf({v}) = r.cpu /\ memOf({v}) = r.mem
  <2> HIDE DEF set, spec, v
  <2> QED
    BY <1>6, <1>7, OneContainerRequests
<1>9. QED
  BY <1>5, <1>8

\* RightsizingIsStable: who follows a recommendation is given no other, requests
\* what was used at least, and has a limit no smaller than the request.
THEOREM FollowedRecommendationsEnd == Spec => []RightsizingIsStable
<1>1. ASSUME IInv PROVE RightsizingIsStable
  <2> SUFFICES ASSUME JustScanned, NEW kind \in {"Deployment", "StatefulSet", "DaemonSet"},
                      NEW w \in All(snapshot, kind),
                      NEW r \in recommend(snapshot, usage, w),
                      Cardinality(r.containers) = 1
               PROVE  /\ recommend(snapshot, usage, resized(w, r)) = {}
                      /\ \A u \in usage :
                           (\E p \in In(snapshot, "Pod", w.ns) :
                               /\ p.name = u.name /\ p.ns = u.ns
                               /\ p.phase = "Running"
                               /\ w.selector \subseteq p.labels)
                           => u.cpu <= r.cpu /\ u.mem <= r.mem
                      /\ r.memLimit > 0 => r.memLimit >= r.mem
    BY Zenon DEF RightsizingIsStable
  <2> DEFINE samples == samplesOf(snapshot, usage, w.ns, w.selector)
             p95 == peakCPU(samples)
             memMax == peakMem(samples)
  <2>1. w \in snapshot.objects /\ w.kind \in {"Deployment", "StatefulSet", "DaemonSet"}
    BY DEF All
  <2>2. IsObject(w) /\ IsUsage(usage)
    BY <1>1, <2>1, JustScannedIsLatest DEF IsSnapshot
  <2>3. samples \in SUBSET usage
    BY DEF samplesOf
  <2>4. /\ p95 \in Nat /\ memMax \in Nat
        /\ \A u \in samples : p95 >= u.cpu /\ memMax >= u.mem
    <3> HIDE DEF samples
    <3> QED
      BY <2>2, <2>3, PeakIsNatural DEF peakCPU, peakMem
  <2>5. /\ r.containers = {c.name : c \in w.spec.containers}
        /\ r.cpu = roundCPU(p95) /\ r.mem = suggestedMem(memMax)
        /\ r.memLimit = roundMem(memMax, 150)
    BY RecommendIs
  <2> HIDE DEF p95, memMax
  <2>6. /\ r.cpu \in Nat /\ r.cpu >= p95 /\ r.mem \in Nat /\ r.mem >= memMax
        /\ r.memLimit > 0 => r.memLimit >= r.mem
    <3>1. 150 \in Nat
      OBVIOUS
    <3> QED
      BY <2>4, <2>5, <3>1, RoundCPUCovers, SuggestedMemCovers, RoundingsAreNatural
  <2>7. /\ cpuOf({resized(w, r)}) = r.cpu /\ memOf({resized(w, r)}) = r.mem
        /\ resized(w, r).ns = w.ns /\ resized(w, r).selector = w.selector
    BY <2>1, <2>2, <2>5, <2>6, ResizedRequests
  <2>8. recommend(snapshot, usage, resized(w, r)) = {}
    <3>1. ~farOff(roundCPU(p95), suggestedMem(memMax), p95, memMax)
      BY <2>4, SettledRequests
    <3> DEFINE v == resized(w, r)
    <3>2. ~farOff(cpuOf({v}), memOf({v}), p95, memMax)
      BY <2>5, <2>7, <3>1, Zenon
    <3>3. /\ p95 = peakCPU(samplesOf(snapshot, usage, v.ns, v.selector))
          /\ memMax = peakMem(samplesOf(snapshot, usage, v.ns, v.selector))
      BY <2>7, Zenon DEF p95, memMax
    <3> HIDE DEF v
    <3>4. recommend(snapshot, usage, v) = {}
      BY <3>2, <3>3, RecommendIs, Zenon
    <3> QED
      BY <3>4 DEF v
  <2>9. ASSUME NEW u \in usage, NEW p \in In(snapshot, "Pod", w.ns),
               p.name = u.name, p.ns = u.ns, p.phase = "Running",
               w.selector \subseteq p.labels
        PROVE  u.cpu <= r.cpu /\ u.mem <= r.mem
    <3>1. u \in samples
      BY <2>9 DEF samplesOf
    <3>2. u.cpu \in Nat /\ u.mem \in Nat
      BY <2>2 DEF IsUsage
    <3> HIDE DEF samples
    <3> QED
      BY <2>4, <2>6, <3>1, <3>2
  <2> QED
    BY <2>6, <2>8, <2>9
<1>2. QED
  BY <1>1, GuardianInvariant, PTL
-----------------------------------------------------------------------------
(***************************************************************************)
(* Reports of snapshots that differ in Secrets, ConfigMaps and Nodes.      *)
(***************************************************************************)

\* Analyses that agree on all but these three kinds: where the findings about TLS
\* Secrets, unused objects and Nodes are among another's, all findings are.
LEMMA LessIsReported ==
    ASSUME NEW s, IsSnapshot(s), s.HasSecretAccess \in BOOLEAN,
           NEW t, IsSnapshot(t), t.HasSecretAccess \in BOOLEAN, SameBesides(s, t),
           NEW used, IsUsage(used), NEW o, IsCost(o.cost),
           Nodes(t) \subseteq Nodes(s),
           NEW covered, covered = AppNamespaces(s, o.includeSystem, o.only),
           tlsFindings(t, covered) \subseteq tlsFindings(s, covered),
           \A ns \in covered :
              /\ names(unusedConfigMaps(t, ns)) \in {{}, names(unusedConfigMaps(s, ns))}
              /\ names(unusedSecrets(t, ns)) \in {{}, names(unusedSecrets(s, ns))}
    PROVE  findingKeys(Analyze(t, used, o)) \subseteq findingKeys(Analyze(s, used, o))
<1> DEFINE r == Analyze(s, used, o)
           q == Analyze(t, used, o)
<1>1. /\ AppNamespaces(t, o.includeSystem, o.only) = covered
      /\ \A ns : teamOfNamespace(t, ns, o) = teamOfNamespace(s, ns, o)
  BY CoverageAgrees
<1>2. IsFiniteSet(covered)
  BY CoveredAreFinite
<1>4. /\ r.namespaces = AssignTeams(Namespaces(s, covered), s, o)
      /\ r.sections = sectionsOf(s, covered, used, o)
  <2> DEFINE C == AppNamespaces(s, o.includeSystem, o.only)
  <2>1. /\ HasShape(r)
        /\ r.summary = [severity \in Ok..Critical |-> number(r, severity)]
        /\ r.namespaces = AssignTeams(Namespaces(s, C), s, o)
        /\ r.sections = sectionsOf(s, C, used, o)
    BY AnalysisShape
  <2> HIDE DEF r
  <2> QED
    BY <2>1
<1>5. /\ q.namespaces = AssignTeams(Namespaces(t, covered), t, o)
      /\ q.sections = sectionsOf(t, covered, used, o)
  <2> DEFINE C == AppNamespaces(t, o.includeSystem, o.only)
  <2>1. /\ HasShape(q)
        /\ q.summary = [severity \in Ok..Critical |-> number(q, severity)]
        /\ q.namespaces = AssignTeams(Namespaces(t, C), t, o)
        /\ q.sections = sectionsOf(t, C, used, o)
    BY AnalysisShape
  <2> HIDE DEF q
  <2> QED
    BY <1>1, <2>1
<1> HIDE DEF r, q
<1> DEFINE part(u, ns) == [name |-> ns, team |-> teamOfNamespace(u, ns, o),
                           findings |-> namespaceFindings(u, ns)]
<1>6. /\ r.namespaces = {part(s, ns) : ns \in covered}
      /\ q.namespaces = {part(t, ns) : ns \in covered}
  BY <1>2, <1>4, <1>5, NamespacesShape, Zenon
<1>7. ASSUME NEW ns \in covered
      PROVE  namespaceFindings(t, ns) \subseteq namespaceFindings(s, ns)
  <2>1. /\ resourceFindings(t, ns) = resourceFindings(s, ns)
        /\ healthFindings(t, ns) = healthFindings(s, ns)
        /\ imageFindings(t, ns) = imageFindings(s, ns)
        /\ probeFindings(t, ns) = probeFindings(s, ns)
        /\ availabilityFindings(t, ns) = availabilityFindings(s, ns)
        /\ disruptionFindings(t, ns) = disruptionFindings(s, ns)
    BY WorkloadChecksAgree
  <2>2. unusedFindings(t, ns) \subseteq unusedFindings(s, ns)
    <3> DEFINE maps(u) == Listed(Info, "unused ConfigMap", names(unusedConfigMaps(u, ns)), 4)
               secrets(u) == Listed(Info, "unused Secret", names(unusedSecrets(u, ns)), 4)
    <3>1. \A severity, message, limit : Listed(severity, message, {}, limit) = {}
      BY DEF Listed
    <3>2. maps(t) \subseteq maps(s)
      <4>1. CASE names(unusedConfigMaps(t, ns)) = {}
        BY <3>1, <4>1
      <4>2. CASE names(unusedConfigMaps(t, ns)) = names(unusedConfigMaps(s, ns))
        BY <4>2
      <4> QED
        BY <4>1, <4>2
    <3>3. secrets(t) \subseteq secrets(s)
      <4>1. CASE names(unusedSecrets(t, ns)) = {}
        BY <3>1, <4>1
      <4>2. CASE names(unusedSecrets(t, ns)) = names(unusedSecrets(s, ns))
        BY <4>2
      <4> QED
        BY <4>1, <4>2
    <3>4. /\ unboundFindings(t, ns) = unboundFindings(s, ns)
          /\ otherUnused(t, ns) = otherUnused(s, ns)
      BY OtherUnusedAgree
    <3>5. \A u : unusedFindings(u, ns) =
            maps(u) \cup secrets(u) \cup unboundFindings(u, ns) \cup otherUnused(u, ns)
      BY UnusedIs
    <3> HIDE DEF maps, secrets
    <3> QED
      BY <3>2, <3>3, <3>4, <3>5
  <2>3. \A u : namespaceFindings(u, ns) =
          UNION {resourceFindings(u, ns), healthFindings(u, ns), imageFindings(u, ns),
                 probeFindings(u, ns), availabilityFindings(u, ns),
                 disruptionFindings(u, ns), unusedFindings(u, ns)}
    BY Zenon DEF namespaceFindings
  <2> QED
    BY <2>1, <2>2, <2>3
<1>8. \A x \in q.namespaces : \E of \in r.namespaces :
         x.name = of.name /\ x.team = of.team /\ x.findings \subseteq of.findings
  <2> SUFFICES ASSUME NEW x \in q.namespaces
               PROVE  \E of \in r.namespaces :
                         x.name = of.name /\ x.team = of.team /\ x.findings \subseteq of.findings
    OBVIOUS
  <2>1. PICK ns \in covered : x = part(t, ns)
    BY <1>6
  <2>2. part(s, ns) \in r.namespaces
    BY <1>6
  <2>3. /\ part(t, ns).name = part(s, ns).name /\ part(t, ns).team = part(s, ns).team
        /\ part(t, ns).findings \subseteq part(s, ns).findings
    BY <1>1, <1>7
  <2> HIDE DEF part
  <2> QED
    BY <2>1, <2>2, <2>3
<1>9. \A id \in DOMAIN q.sections :
         id \in DOMAIN r.sections /\ q.sections[id] \subseteq r.sections[id]
  <2> DEFINE A == analyzed(s, covered, used, o)
             B == analyzed(t, covered, used, o)
             recs == recommendations(s, covered, used)
  <2>1. DOMAIN A = SectionIds /\ DOMAIN B = SectionIds
    BY <1>2, AnalyzedShape
  <2>2. \A id \in SectionIds : B[id] \subseteq A[id]
    <3>1. /\ Security(t, covered) = Security(s, covered)
          /\ Policy(t, covered) = Policy(s, covered)
          /\ Monitoring(t, covered) = Monitoring(s, covered)
          /\ Deprecations(t, covered) = Deprecations(s, covered)
          /\ GitOps(t) = GitOps(s)
          /\ Optimization(t, covered, used, o.prometheus) =
             Optimization(s, covered, used, o.prometheus)
      BY SecurityAgrees, PolicyAgrees, MonitoringAgrees, DeprecationsAgree, GitOpsAgrees,
         OptimizationAgrees
    <3>2. Certificates(t, covered) \subseteq Certificates(s, covered)
      BY CertificatesAre, NotReadyAgree
    <3>3. Nodes(t) \subseteq Nodes(s)
      OBVIOUS
    <3>4. \A u : /\ analyzed(u, covered, used, o).security = Security(u, covered)
                 /\ analyzed(u, covered, used, o).policy = Policy(u, covered)
                 /\ analyzed(u, covered, used, o).nodes = Nodes(u)
                 /\ analyzed(u, covered, used, o).monitoring = Monitoring(u, covered)
                 /\ analyzed(u, covered, used, o).certificates = Certificates(u, covered)
                 /\ analyzed(u, covered, used, o).deprecations = Deprecations(u, covered)
                 /\ analyzed(u, covered, used, o).gitops = GitOps(u)
                 /\ analyzed(u, covered, used, o).optimization =
                      Optimization(u, covered, used, o.prometheus)
      BY DEF analyzed
    <3> HIDE DEF A, B
    <3>5. /\ B["security"] \subseteq A["security"] /\ B["policy"] \subseteq A["policy"]
          /\ B["nodes"] \subseteq A["nodes"] /\ B["monitoring"] \subseteq A["monitoring"]
          /\ B["certificates"] \subseteq A["certificates"]
          /\ B["deprecations"] \subseteq A["deprecations"]
          /\ B["gitops"] \subseteq A["gitops"]
          /\ B["optimization"] \subseteq A["optimization"]
      BY <3>1, <3>2, <3>3, <3>4 DEF A, B
    <3> QED
      BY <3>5 DEF SectionIds
  <2>3. /\ r.sections = withRecommendations(A, recs, o)
        /\ q.sections = withRecommendations(B, recs, o)
    <3>1. recommendations(t, covered, used) = recs
      BY RecommendationsAgree
    <3> HIDE DEF recs
    <3> QED
      BY <1>4, <1>5, <3>1, SectionsAre, Zenon DEF recs
  <2>4. "optimization" \in SectionIds
    BY DEF SectionIds
  <2> HIDE DEF A, B, recs
  <2> QED
    BY <2>1, <2>2, <2>3, <2>4, RecommendationsAdd
<1>10. located(q) \subseteq located(r)
  BY <1>8, <1>9, PartHasFewer
<1>11. findingKeys(q) \subseteq findingKeys(r)
  BY <1>10 DEF findingKeys
<1>12. QED
  BY <1>11 DEF q, r
-----------------------------------------------------------------------------
(***************************************************************************)
(* Lists that are denied.                                                  *)
(***************************************************************************)

\* The objects of a kind, as Collect lists them.
LEMMA CollectedOfKind ==
    ASSUME NEW objs, IsCluster(objs), NEW ans, NEW only, NEW kind,
           kind \notin {"Namespace", "CRD", "Constraint"}
    PROVE  All(Collect(objs, ans, only), kind) =
             {stripped(o) : o \in {o \in objs : o.kind = kind /\ kind \in ans}}
<1> DEFINE s == Collect(objs, ans, only)
           L == listedOf(objs, ans)
           N == namespacesOf(objs, only)
           G == gatekeeperConstraints(objs, ans)
<1>1. s.objects = L \cup N \cup G
  BY CollectedObjects, Zenon
<1>2. \A o \in objs : stripped(o).kind = o.kind
  BY StrippedIsObject DEF IsCluster
<1>3. \A o \in N : o.kind = "Namespace"
  BY DEF namespacesOf, filterNamespaces
<1>4. \A o \in G : o.kind = "Constraint"
  BY DEF gatekeeperConstraints
<1>5. {o \in L : o.kind = kind} =
        {stripped(o) : o \in {o \in objs : o.kind = kind /\ kind \in ans}}
  BY <1>2 DEF listedOf
<1>6. All(s, kind) = {o \in s.objects : o.kind = kind}
  BY DEF All
<1>7. QED
  <2> HIDE DEF s, L, N, G
  <2>1. All(s, kind) = {o \in L : o.kind = kind}
    BY <1>1, <1>3, <1>4, <1>6
  <2> QED
    BY <1>5, <2>1 DEF s

LEMMA CollectedNamespaces ==
    ASSUME NEW objs, IsCluster(objs), NEW ans, NEW only
    PROVE  /\ All(Collect(objs, ans, only), "Namespace") = namespacesOf(objs, only)
           /\ All(Collect(objs, ans, only), "CRD") = {}
           /\ All(Collect(objs, ans, only), "Constraint") = gatekeeperConstraints(objs, ans)
<1> DEFINE s == Collect(objs, ans, only)
           L == listedOf(objs, ans)
           N == namespacesOf(objs, only)
           G == gatekeeperConstraints(objs, ans)
<1>1. s.objects = L \cup N \cup G
  BY CollectedObjects, Zenon
<1>2. \A o \in L : o.kind \notin {"Namespace", "CRD", "Constraint"}
  BY StrippedIsObject DEF IsCluster, listedOf
<1>3. \A o \in N : o.kind = "Namespace"
  BY DEF namespacesOf, filterNamespaces
<1>4. \A o \in G : o.kind = "Constraint"
  BY DEF gatekeeperConstraints
<1>5. \A kind : All(s, kind) = {o \in s.objects : o.kind = kind}
  BY DEF All
<1>6. QED
  <2> HIDE DEF s, L, N, G
  <2> QED
    BY <1>1, <1>2, <1>3, <1>4, <1>5 DEF s, N, G

LEMMA CollectedFlags ==
    ASSUME NEW objs, NEW ans, NEW others, NEW less, NEW only,
           \A kind \in {"ServiceMonitor", "Application", "Kustomization", "HelmRelease",
                        "PolicyReport", "Policy", "ClusterPolicy", "CRD"} :
              kind \in less <=> kind \in ans,
           {o \in others : o.kind = "CRD"} = {o \in objs : o.kind = "CRD"}
    PROVE  SameFlags(Collect(objs, ans, only), Collect(others, less, only))
<1> DEFINE A(w, a) == listedOf(w, a) \cup namespacesOf(w, only) \cup gatekeeperConstraints(w, a)
           B(a) == hasSecretAccess(a)
           C(a) == "ServiceMonitor" \in a
           D(a) == "Application" \in a
           E(a) == {"Kustomization", "HelmRelease"} \cap a # {}
           F(a) == "Certificate" \in a
           G(a) == {"Gateway", "HTTPRoute"} \cap a # {}
           H(a) == {"PolicyReport", "Policy", "ClusterPolicy"} \cap a # {}
           I(w, a) == /\ "CRD" \in a
                      /\ \E o \in w : o.kind = "CRD" /\ o.gatekeeper
<1>1. \A w, a : Collect(w, a, only) =
          [objects |-> A(w, a), HasSecretAccess |-> B(a), HasServiceMonitorCRD |-> C(a),
           HasArgoCD |-> D(a), HasFlux |-> E(a), HasCertManager |-> F(a),
           HasGatewayAPI |-> G(a), HasKyverno |-> H(a), HasGatekeeper |-> I(w, a)]
  BY Zenon DEF Collect, listedOf, namespacesOf
<1>2. C(less) = C(ans) /\ D(less) = D(ans) /\ E(less) = E(ans) /\ H(less) = H(ans)
  OBVIOUS
<1>3. I(others, less) = I(objs, ans)
  <2>1. \A o : o \in others /\ o.kind = "CRD" <=> o \in objs /\ o.kind = "CRD"
    OBVIOUS
  <2>2. "CRD" \in less <=> "CRD" \in ans
    OBVIOUS
  <2> QED
    BY <2>1, <2>2
<1>4. QED
  <2> HIDE DEF A, B, C, D, E, F, G, H, I
  <2> DEFINE s == Collect(objs, ans, only)
             t == Collect(others, less, only)
  <2>1. \A w, a : /\ Collect(w, a, only).HasServiceMonitorCRD = C(a)
                  /\ Collect(w, a, only).HasArgoCD = D(a)
                  /\ Collect(w, a, only).HasFlux = E(a)
                  /\ Collect(w, a, only).HasKyverno = H(a)
                  /\ Collect(w, a, only).HasGatekeeper = I(w, a)
    BY <1>1
  <2> QED
    BY <1>2, <1>3, <2>1, Zenon DEF SameFlags

\* What the cluster answers when one of the lists is denied.
denying(ans, denied) == ans \ {denied}

\* A denied list of Secrets or Nodes is the one list that is empty.
LEMMA DenyingHides ==
    ASSUME NEW objs, IsCluster(objs), NEW ans, NEW only, NEW denied \in setApart
    PROVE  /\ SameBesides(Collect(objs, ans, only), Collect(objs, denying(ans, denied), only))
           /\ All(Collect(objs, denying(ans, denied), only), denied) = {}
           /\ \A kind : kind # denied =>
                 All(Collect(objs, denying(ans, denied), only), kind) =
                 All(Collect(objs, ans, only), kind)
<1> DEFINE less == denying(ans, denied)
           s == Collect(objs, ans, only)
           t == Collect(objs, less, only)
<1>1. \A kind : kind # denied => (kind \in less) = (kind \in ans)
  BY DEF denying, setApart
<1>2. denied \notin less
  BY DEF denying, setApart
<1>3. /\ (("CRD" \in less) = ("CRD" \in ans)) /\ (("Constraint" \in less) = ("Constraint" \in ans))
      /\ (("ServiceMonitor" \in less) = ("ServiceMonitor" \in ans))
      /\ (("Application" \in less) = ("Application" \in ans))
      /\ {"Kustomization", "HelmRelease"} \cap less = {"Kustomization", "HelmRelease"} \cap ans
      /\ {"PolicyReport", "Policy", "ClusterPolicy"} \cap less =
           {"PolicyReport", "Policy", "ClusterPolicy"} \cap ans
  BY DEF denying, setApart
<1> HIDE DEF less
<1>4. gatekeeperConstraints(objs, less) = gatekeeperConstraints(objs, ans)
  <2>1. ({"CRD", "Constraint"} \subseteq less) = ({"CRD", "Constraint"} \subseteq ans)
    BY <1>3
  <2> QED
    BY <2>1, Zenon DEF gatekeeperConstraints
<1>5. \A kind : kind # denied => All(t, kind) = All(s, kind)
  <2> SUFFICES ASSUME NEW kind, kind # denied PROVE All(t, kind) = All(s, kind)
    OBVIOUS
  <2>1. CASE kind \in {"Namespace", "CRD", "Constraint"}
    <3>1. /\ All(t, "Namespace") = namespacesOf(objs, only) /\ All(t, "CRD") = {}
          /\ All(t, "Constraint") = gatekeeperConstraints(objs, less)
      BY CollectedNamespaces, Zenon
    <3>2. /\ All(s, "Namespace") = namespacesOf(objs, only) /\ All(s, "CRD") = {}
          /\ All(s, "Constraint") = gatekeeperConstraints(objs, ans)
      BY CollectedNamespaces, Zenon
    <3> QED
      BY <1>4, <2>1, <3>1, <3>2
  <2>2. CASE kind \notin {"Namespace", "CRD", "Constraint"}
    <3>1. All(t, kind) = {stripped(o) : o \in {o \in objs : o.kind = kind /\ kind \in less}}
      BY <2>2, CollectedOfKind
    <3>2. All(s, kind) = {stripped(o) : o \in {o \in objs : o.kind = kind /\ kind \in ans}}
      BY <2>2, CollectedOfKind
    <3>3. {o \in objs : o.kind = kind /\ kind \in less} =
          {o \in objs : o.kind = kind /\ kind \in ans}
      BY <1>1
    <3> QED
      BY <3>1, <3>2, <3>3, Zenon
  <2> QED
    BY <2>1, <2>2
<1>6. All(t, denied) = {}
  <2>1. denied \notin {"Namespace", "CRD", "Constraint"}
    BY DEF setApart
  <2>2. All(t, denied) = {stripped(o) : o \in {o \in objs : o.kind = denied /\ denied \in less}}
    BY <2>1, CollectedOfKind
  <2>3. {o \in objs : o.kind = denied /\ denied \in less} = {}
    BY <1>2
  <2> QED
    BY <2>2, <2>3
<1>7. SameFlags(s, t)
  <2>1. \A kind \in {"ServiceMonitor", "Application", "Kustomization", "HelmRelease",
                     "PolicyReport", "Policy", "ClusterPolicy", "CRD"} :
           kind \in less <=> kind \in ans
    BY DEF less, denying, setApart
  <2> QED
    BY <2>1, CollectedFlags, Zenon
<1>8. SameBesides(s, t)
  BY <1>5, <1>7, Zenon DEF SameBesides
<1>9. QED
  <2> HIDE DEF s, t
  <2>1. /\ SameBesides(s, t) /\ All(t, denied) = {}
        /\ \A kind : kind # denied => All(t, kind) = All(s, kind)
    BY <1>5, <1>6, <1>8, Zenon
  <2> QED
    BY <2>1 DEF s, t, less

\* Only the list of Secrets decides whether TLS Secrets are read.
LEMMA DenyingAccess ==
    ASSUME NEW objs, NEW ans, NEW only, NEW denied
    PROVE  /\ denied = "Secret"
                => Collect(objs, denying(ans, denied), only).HasSecretAccess = FALSE
           /\ denied # "Secret"
                => Collect(objs, denying(ans, denied), only).HasSecretAccess =
                   Collect(objs, ans, only).HasSecretAccess
<1>1. \A a : Collect(objs, a, only).HasSecretAccess = ("Secret" \in a)
  BY CollectedObjects
<1> DEFINE less == denying(ans, denied)
<1>2. denied = "Secret" => ("Secret" \in less) = FALSE
  BY DEF denying, setApart
<1>3. denied # "Secret" => ("Secret" \in less) = ("Secret" \in ans)
  BY DEF denying, setApart
<1> HIDE DEF less
<1>4. Collect(objs, less, only).HasSecretAccess = ("Secret" \in less)
  BY <1>1, Zenon
<1>5. Collect(objs, ans, only).HasSecretAccess = ("Secret" \in ans)
  BY <1>1, Zenon
<1>6. QED
  BY <1>2, <1>3, <1>4, <1>5, Zenon DEF less

LEMMA UnusedAgree ==
    ASSUME NEW s, NEW t, SameBesides(s, t), NEW ns
    PROVE  /\ All(t, "ConfigMap") = All(s, "ConfigMap")
                => names(unusedConfigMaps(t, ns)) = names(unusedConfigMaps(s, ns))
           /\ All(t, "Secret") = All(s, "Secret")
                => names(unusedSecrets(t, ns)) = names(unusedSecrets(s, ns))
           /\ All(t, "Secret") = {} => names(unusedSecrets(t, ns)) = {}
<1>1. referencesIn(t, ns) = referencesIn(s, ns)
  BY ReferencesAgree
<1>2. \A u, kind : In(u, kind, ns) = {o \in All(u, kind) : o.ns = ns}
  BY DEF In, All
<1>3. ASSUME All(t, "ConfigMap") = All(s, "ConfigMap")
      PROVE  names(unusedConfigMaps(t, ns)) = names(unusedConfigMaps(s, ns))
  <2>1. In(t, "ConfigMap", ns) = In(s, "ConfigMap", ns)
    BY <1>2, <1>3
  <2> QED
    BY <1>1, <2>1, Zenon DEF unusedConfigMaps
<1>4. ASSUME All(t, "Secret") = All(s, "Secret")
      PROVE  names(unusedSecrets(t, ns)) = names(unusedSecrets(s, ns))
  <2>1. In(t, "Secret", ns) = In(s, "Secret", ns)
    BY <1>2, <1>4
  <2> QED
    BY <1>1, <2>1, Zenon DEF unusedSecrets
<1>5. ASSUME All(t, "Secret") = {}
      PROVE  names(unusedSecrets(t, ns)) = {}
  <2>1. In(t, "Secret", ns) = {}
    BY <1>2, <1>5
  <2> QED
    BY <2>1 DEF unusedSecrets, names
<1>6. QED
  BY <1>3, <1>4, <1>5

\* TLS findings read Secrets alone of the three kinds.
LEMMA TLSReadsSecrets ==
    ASSUME NEW s, NEW t, SameBesides(s, t), t.HasSecretAccess = s.HasSecretAccess,
           All(t, "Secret") = All(s, "Secret"), NEW covered
    PROVE  tlsFindings(t, covered) = tlsFindings(s, covered)
<1>1. \A u, ns : In(u, "Secret", ns) = {o \in All(u, "Secret") : o.ns = ns}
  BY DEF In, All
<1>2. \A ns : In(t, "Secret", ns) = In(s, "Secret", ns)
  BY <1>1
<1>3. \A key \in tlsKeys(s, covered) : secretsOf(t, key) = secretsOf(s, key)
  BY <1>2, Zenon DEF secretsOf
<1>4. QED
  BY <1>3, TLSFindingsAgree

\* Of any cluster, with any options: a list that is denied hides findings only.
LEMMA DeniedListHides ==
    ASSUME NEW objs, IsCluster(objs), NEW ans, NEW used, IsUsage(used),
           NEW o, IsCost(o.cost), NEW only, NEW denied \in {"Secret", "Node"}
    PROVE  findingKeys(Analyze(Collect(objs, denying(ans, denied), only), used, o))
             \subseteq findingKeys(Analyze(Collect(objs, ans, only), used, o))
<1> DEFINE s == Collect(objs, ans, only)
           t == Collect(objs, denying(ans, denied), only)
           covered == AppNamespaces(s, o.includeSystem, o.only)
<1>1. /\ IsSnapshot(s) /\ s.HasSecretAccess \in BOOLEAN
      /\ IsSnapshot(t) /\ t.HasSecretAccess \in BOOLEAN
  BY CollectIsSnapshot
<1> denied \in setApart
  BY DEF setApart
<1>2. /\ SameBesides(s, t) /\ All(t, denied) = {}
      /\ \A kind : kind # denied => All(t, kind) = All(s, kind)
  BY DenyingHides
<1>3. /\ denied = "Secret" => t.HasSecretAccess = FALSE
      /\ denied # "Secret" => t.HasSecretAccess = s.HasSecretAccess
  BY DenyingAccess, Zenon
<1> HIDE DEF s, t
<1>4. All(t, "ConfigMap") = All(s, "ConfigMap")
  BY <1>2
<1>5. Nodes(t) \subseteq Nodes(s)
  <2>1. CASE denied = "Node"
    BY <1>2, <2>1, NodesWithout
  <2>2. CASE denied = "Secret"
    <3>1. All(t, "Node") = All(s, "Node")
      BY <1>2, <2>2
    <3> QED
      BY <1>2, <3>1, NodesAgree
  <2> QED
    BY <2>1, <2>2
<1>6. tlsFindings(t, covered) \subseteq tlsFindings(s, covered)
  <2> HIDE DEF covered
  <2>1. CASE denied = "Secret"
    BY <1>2, <1>3, <2>1, NoSecretsNoTLS
  <2>2. CASE denied = "Node"
    <3>1. All(t, "Secret") = All(s, "Secret") /\ t.HasSecretAccess = s.HasSecretAccess
      BY <1>2, <1>3, <2>2
    <3> QED
      BY <1>2, <3>1, TLSReadsSecrets
  <2> QED
    BY <2>1, <2>2
<1>7. \A ns : /\ names(unusedConfigMaps(t, ns)) \in {{}, names(unusedConfigMaps(s, ns))}
              /\ names(unusedSecrets(t, ns)) \in {{}, names(unusedSecrets(s, ns))}
  <2> SUFFICES ASSUME NEW ns
               PROVE  /\ names(unusedConfigMaps(t, ns)) = names(unusedConfigMaps(s, ns))
                      /\ \/ names(unusedSecrets(t, ns)) = {}
                         \/ names(unusedSecrets(t, ns)) = names(unusedSecrets(s, ns))
    OBVIOUS
  <2>1. All(t, "Secret") = {} \/ All(t, "Secret") = All(s, "Secret")
    BY <1>2
  <2> QED
    BY <1>2, <1>4, <2>1, UnusedAgree
<1>8. covered = AppNamespaces(s, o.includeSystem, o.only)
  OBVIOUS
<1> HIDE DEF covered
<1>9. findingKeys(Analyze(t, used, o)) \subseteq findingKeys(Analyze(s, used, o))
  BY <1>1, <1>2, <1>5, <1>6, <1>7, <1>8, LessIsReported
<1>10. QED
  BY <1>9 DEF s, t

\* DeniedListsOnlyHide: a hub that is denied the list of Secrets or Nodes finds
\* nothing that one that may read it does not: the lists Collect leaves empty only
\* hide findings.
THEOREM DeniedListsHide == Spec => []DeniedListsOnlyHide
<1>1. ASSUME IInv PROVE DeniedListsOnlyHide
  <2> SUFFICES ASSUME JustScanned, NEW denied \in {"Secret", "Node"}
               PROVE  findingKeys(Analyze(Collect(objects, answered \ {denied}, opts.only),
                                          usage, opts))
                        \subseteq findingKeys(report)
    BY Zenon DEF DeniedListsOnlyHide
  <2> DEFINE only == opts.only
  <2>1. report = Analyze(Collect(objects, answered, only), usage, opts)
    BY <1>1, JustScannedIsLatest DEF snapshot
  <2>2. IsCluster(objects) /\ IsUsage(usage) /\ IsCost(opts.cost)
    BY <1>1, ClusterIsValid, OptionsAreValid DEF IInv
  <2> HIDE DEF only
  <2>3. findingKeys(Analyze(Collect(objects, answered \ {denied}, only), usage, opts))
          \subseteq findingKeys(Analyze(Collect(objects, answered, only), usage, opts))
    BY <2>2, DeniedListHides DEF denying
  <2> QED
    BY <2>1, <2>3 DEF only
<1>2. QED
  BY <1>1, GuardianInvariant, PTL
-----------------------------------------------------------------------------
(***************************************************************************)
(* A cluster without what was reported unused.                             *)
(***************************************************************************)
unusedIn(s, covered) ==
    UNION {unusedConfigMaps(s, ns) \cup unusedSecrets(s, ns) : ns \in covered}

\* The objects that are, by identity, among others, and those that are not.
removedOf(objs, unused) ==
    {o \in objs : \E p \in unused : identity(o) = identity(p)}

cleanedOf(objs, unused) == objs \ removedOf(objs, unused)

spared(o, unused) == \A p \in unused : identity(o) # identity(p)

LEMMA CleanedKeeps ==
    ASSUME NEW objs, NEW unused
    PROVE  \A o : o \in cleanedOf(objs, unused) <=> o \in objs /\ spared(o, unused)
BY DEF cleanedOf, removedOf, spared

\* What is unused is a ConfigMap or Secret of a covered namespace that nothing in
\* the namespace refers to.
LEMMA UnusedIsUnread ==
    ASSUME NEW s, NEW covered, NEW p \in unusedIn(s, covered)
    PROVE  /\ p.kind \in {"ConfigMap", "Secret"} /\ p.ns \in covered
           /\ <<p.kind, p.name>> \notin referencesIn(s, p.ns)
<1>1. PICK ns \in covered : p \in unusedConfigMaps(s, ns) \cup unusedSecrets(s, ns)
  BY DEF unusedIn
<1>2. CASE p \in unusedConfigMaps(s, ns)
  <2>1. /\ p.kind = "ConfigMap" /\ p.ns = ns
        /\ <<"ConfigMap", p.name>> \notin referencesIn(s, ns)
    BY <1>2 DEF unusedConfigMaps, In
  <2> QED
    BY <2>1
<1>3. CASE p \in unusedSecrets(s, ns)
  <2>1. /\ p.kind = "Secret" /\ p.ns = ns
        /\ <<"Secret", p.name>> \notin referencesIn(s, ns)
    BY <1>3 DEF unusedSecrets, In
  <2> QED
    BY <2>1
<1>4. QED
  BY <1>1, <1>2, <1>3

\* So what is referred to is spared.
LEMMA ReferredIsSpared ==
    ASSUME NEW s, NEW covered, NEW o, <<o.kind, o.name>> \in referencesIn(s, o.ns)
    PROVE  spared(o, unusedIn(s, covered))
<1> SUFFICES ASSUME NEW p \in unusedIn(s, covered), identity(o) = identity(p)
             PROVE  FALSE
  BY DEF spared
<1>1. o.kind = p.kind /\ o.ns = p.ns /\ o.name = p.name
  BY DEF identity
<1>2. <<p.kind, p.name>> \notin referencesIn(s, p.ns)
  BY UnusedIsUnread
<1>3. QED
  BY <1>1, <1>2

LEMMA OtherKindsAreSpared ==
    ASSUME NEW s, NEW covered, NEW o, o.kind \notin {"ConfigMap", "Secret"}
    PROVE  spared(o, unusedIn(s, covered))
<1> SUFFICES ASSUME NEW p \in unusedIn(s, covered), identity(o) = identity(p)
             PROVE  FALSE
  BY DEF spared
<1>1. o.kind = p.kind
  BY DEF identity
<1>2. QED
  BY <1>1, UnusedIsUnread

\* The volumes of a pod spec are those that are looked into and those of a driver.
LEMMA MountedApart ==
    ASSUME NEW o, IsPodSpec(o.spec)
    PROVE  mounted(o, volumeTypes) \subseteq volumeRefs(o.spec) \cup mounted(o, driverVolumes)
<1>1. \A v \in o.spec.volumes :
         v.type \in volumeTypes =>
           \/ v.type \in driverVolumes
           \/ v.type \in {"configMap", "secret", "persistentVolumeClaim", "projected"}
  BY DEF volumeTypes
<1>2. QED
  BY <1>1 DEF mounted, volumeRefs

\* A pod spec that could start can start without what is unused, unless that holds
\* what the driver of a volume is given.
LEMMA StartsAfterCleanup ==
    ASSUME NEW objs, IsCluster(objs), NEW ans, NEW only, NEW covered,
           NEW o \in objs, "spec" \in DOMAIN o, o.kind \in ans, canStart(o, objs),
           NEW unused, unused = unusedIn(Collect(objs, ans, only), covered)
    PROVE  \/ canStart(o, cleanedOf(objs, unused))
           \/ \E p \in removedOf(objs, unused) :
                 p.ns = o.ns /\ <<p.kind, p.name>> \in mounted(o, driverVolumes)
<1> DEFINE s == Collect(objs, ans, only)
           driven == mounted(o, driverVolumes)
           needed == mounted(o, volumeTypes) \cup o.spec.initEnv
                      \cup (UNION {c.env : c \in o.spec.containers})
                      \cup {<<"Secret", n>> : n \in o.spec.pullSecrets}
<1>1. o.kind \in podKinds /\ IsPodSpec(o.spec)
  BY DEF IsCluster, IsObject
<1>2. o \in s.objects
  <2>1. stripped(o) = o
    BY <1>1 DEF stripped, podKinds
  <2>2. o \in listedOf(objs, ans)
    BY <1>1, <2>1 DEF listedOf, podKinds
  <2> QED
    BY <2>2, CollectedObjects
<1>3. unused = unusedIn(s, covered)
  OBVIOUS
<1> HIDE DEF s
<1>4. needed \subseteq referencesIn(s, o.ns) \cup driven
  <2>1. o \in In(s, "Pod", o.ns) \cup workloads(s, o.ns) \cup In(s, "Job", o.ns)
    BY <1>1, <1>2 DEF podKinds, In, workloads
  <2>2. specRefs(o.spec) \subseteq referencesIn(s, o.ns)
    BY <2>1 DEF referencesIn
  <2>3. mounted(o, volumeTypes) \subseteq volumeRefs(o.spec) \cup driven
    BY <1>1, MountedApart
  <2> HIDE DEF driven
  <2>4. needed \subseteq specRefs(o.spec) \cup driven
    BY <2>3 DEF specRefs
  <2> HIDE DEF needed
  <2> QED
    BY <2>2, <2>4
<1>5. \A world : canStart(o, world) <=>
         \A ref \in needed : \E p \in world : <<p.kind, p.name>> = ref /\ p.ns = o.ns
  BY Zenon DEF canStart
<1> HIDE DEF needed, driven
<1>6. ASSUME \A p \in removedOf(objs, unused) :
                ~(p.ns = o.ns /\ <<p.kind, p.name>> \in driven),
             NEW ref \in needed
      PROVE  \E p \in cleanedOf(objs, unused) : <<p.kind, p.name>> = ref /\ p.ns = o.ns
  <2>1. PICK p \in objs : <<p.kind, p.name>> = ref /\ p.ns = o.ns
    BY <1>5
  <2>2. CASE ref \in driven
    <3>1. p \notin removedOf(objs, unused)
      BY <1>6, <2>1, <2>2
    <3> QED
      BY <2>1, <3>1 DEF cleanedOf
  <2>3. CASE ref \in referencesIn(s, o.ns)
    <3>1. <<p.kind, p.name>> \in referencesIn(s, p.ns)
      BY <2>1, <2>3
    <3>2. spared(p, unused)
      BY <1>3, <3>1, ReferredIsSpared
    <3>3. p \in cleanedOf(objs, unused)
      BY <3>2, CleanedKeeps
    <3> QED
      BY <2>1, <3>3
  <2> QED
    BY <1>4, <2>2, <2>3
<1>7. ASSUME \A p \in removedOf(objs, unused) :
                ~(p.ns = o.ns /\ <<p.kind, p.name>> \in driven)
      PROVE  canStart(o, cleanedOf(objs, unused))
  BY <1>5, <1>6, <1>7
<1>8. QED
  BY <1>7 DEF driven

LEMMA CleanedIsCluster ==
    ASSUME NEW objs, IsCluster(objs), NEW unused
    PROVE  IsCluster(cleanedOf(objs, unused))
<1>1. cleanedOf(objs, unused) \subseteq objs
  BY CleanedKeeps
<1>2. QED
  BY <1>1, FS_Subset DEF IsCluster

\* Collecting from fewer objects: those of a kind, without what was removed.
LEMMA CleanedOfKind ==
    ASSUME NEW objs, IsCluster(objs), NEW unused, NEW ans, NEW only, NEW kind,
           kind \notin {"Namespace", "CRD", "Constraint"}
    PROVE  All(Collect(cleanedOf(objs, unused), ans, only), kind) =
             {o \in All(Collect(objs, ans, only), kind) : spared(o, unused)}
<1> DEFINE cleaned == cleanedOf(objs, unused)
           s == Collect(objs, ans, only)
           t == Collect(cleaned, ans, only)
           of(world) == {o \in world : o.kind = kind /\ kind \in ans}
<1>1. cleaned \subseteq objs /\ \A o : o \in cleaned <=> o \in objs /\ spared(o, unused)
  BY CleanedKeeps
<1>2. IsCluster(cleaned)
  BY CleanedIsCluster
<1>3. \A o \in objs : spared(stripped(o), unused) <=> spared(o, unused)
  <2> SUFFICES ASSUME NEW o \in objs
               PROVE  spared(stripped(o), unused) <=> spared(o, unused)
    OBVIOUS
  <2>1. identity(stripped(o)) = identity(o)
    BY StrippedIsObject DEF IsCluster, identity
  <2> QED
    BY <2>1 DEF spared
<1> HIDE DEF cleaned
<1>4. of(cleaned) = {o \in of(objs) : spared(o, unused)} /\ of(objs) \subseteq objs
  BY <1>1
<1>5. /\ All(t, kind) = {stripped(o) : o \in of(cleaned)}
      /\ All(s, kind) = {stripped(o) : o \in of(objs)}
  BY <1>2, CollectedOfKind
<1> HIDE DEF of, s, t
<1>6. All(t, kind) = {o \in All(s, kind) : spared(o, unused)}
  BY <1>3, <1>4, <1>5
<1>7. QED
  BY <1>6 DEF s, t, cleaned

\* Nothing but ConfigMaps and Secrets is removed: the rest is collected as before.
LEMMA CleanedIsSameBesides ==
    ASSUME NEW objs, IsCluster(objs), NEW unused, NEW ans, NEW only,
           \A o : o.kind \notin {"ConfigMap", "Secret"} => spared(o, unused)
    PROVE  /\ SameBesides(Collect(objs, ans, only),
                          Collect(cleanedOf(objs, unused), ans, only))
           /\ \A kind : kind \notin {"ConfigMap", "Secret"} =>
                 All(Collect(cleanedOf(objs, unused), ans, only), kind) =
                 All(Collect(objs, ans, only), kind)
<1> DEFINE cleaned == cleanedOf(objs, unused)
           s == Collect(objs, ans, only)
           t == Collect(cleaned, ans, only)
<1>1. IsCluster(cleaned)
  BY CleanedIsCluster
<1>2. \A o : o.kind \notin {"ConfigMap", "Secret"} => (o \in cleaned <=> o \in objs)
  BY CleanedKeeps
<1> HIDE DEF cleaned
<1>3. namespacesOf(cleaned, only) = namespacesOf(objs, only)
  <2>1. {o \in cleaned : o.kind = "Namespace"} = {o \in objs : o.kind = "Namespace"}
    BY <1>2
  <2> QED
    BY <2>1, Zenon DEF namespacesOf
<1>4. {o \in cleaned : o.kind = "CRD"} = {o \in objs : o.kind = "CRD"}
  BY <1>2
<1>5. gatekeeperConstraints(cleaned, ans) = gatekeeperConstraints(objs, ans)
  <2> DEFINE crds(world) == {o \in world : o.kind = "CRD" /\ o.gatekeeper}
             of(world) == {o \in world : /\ o.kind = "Constraint"
                                         /\ \E crd \in crds(world) : crd.served /\ crd.name = o.crd}
  <2>1. crds(cleaned) = crds(objs)
    BY <1>2
  <2>2. of(cleaned) = of(objs)
    <3> HIDE DEF crds
    <3> QED
      BY <1>2, <2>1
  <2>3. \A world : gatekeeperConstraints(world, ans) =
           IF ~({"CRD", "Constraint"} \subseteq ans) THEN {} ELSE of(world)
    BY Zenon DEF gatekeeperConstraints
  <2> HIDE DEF of
  <2> QED
    BY <2>2, <2>3, Zenon
<1>6. ASSUME NEW kind, kind \notin {"ConfigMap", "Secret"}
      PROVE  All(t, kind) = All(s, kind)
  <2>1. CASE kind \in {"Namespace", "CRD", "Constraint"}
    <3>1. /\ All(t, "Namespace") = namespacesOf(cleaned, only) /\ All(t, "CRD") = {}
          /\ All(t, "Constraint") = gatekeeperConstraints(cleaned, ans)
      BY <1>1, CollectedNamespaces, Zenon
    <3>2. /\ All(s, "Namespace") = namespacesOf(objs, only) /\ All(s, "CRD") = {}
          /\ All(s, "Constraint") = gatekeeperConstraints(objs, ans)
      BY CollectedNamespaces, Zenon
    <3> HIDE DEF s, t
    <3> QED
      BY <1>3, <1>5, <2>1, <3>1, <3>2
  <2>2. CASE kind \notin {"Namespace", "CRD", "Constraint"}
    <3>1. All(t, kind) = {o \in All(s, kind) : spared(o, unused)}
      BY <2>2, CleanedOfKind DEF cleaned
    <3>2. \A o \in All(s, kind) : o.kind = kind
      BY DEF All
    <3> HIDE DEF s, t
    <3> QED
      BY <1>6, <3>1, <3>2
  <2> QED
    BY <2>1, <2>2
<1>7. SameFlags(s, t)
  BY <1>4, CollectedFlags, Zenon
<1>8. \A kind : kind \notin {"ConfigMap", "Secret"} => All(t, kind) = All(s, kind)
  BY <1>6
<1>9. SameBesides(s, t)
  <2> HIDE DEF s, t
  <2>1. \A kind : kind \notin setApart => All(t, kind) = All(s, kind)
    BY <1>8 DEF setApart
  <2> QED
    BY <1>7, <2>1, Zenon DEF SameBesides
<1>10. QED
  <2> HIDE DEF s, t
  <2>1. /\ SameBesides(s, t)
        /\ \A kind : kind \notin {"ConfigMap", "Secret"} => All(t, kind) = All(s, kind)
    BY <1>8, <1>9
  <2> QED
    BY <2>1 DEF s, t, cleaned

\* What is left of the two kinds is not unused, and every TLS Secret that is
\* referred to is left.
LEMMA CleanedFindsLess ==
    ASSUME NEW objs, IsCluster(objs), NEW ans, NEW only, NEW used, IsUsage(used),
           NEW o, IsCost(o.cost), NEW covered,
           covered = AppNamespaces(Collect(objs, ans, only), o.includeSystem, o.only),
           NEW cleaned,
           cleaned = cleanedOf(objs, unusedIn(Collect(objs, ans, only), covered))
    PROVE  findingKeys(Analyze(Collect(cleaned, ans, only), used, o))
             \subseteq findingKeys(Analyze(Collect(objs, ans, only), used, o))
<1> DEFINE s == Collect(objs, ans, only)
           t == Collect(cleaned, ans, only)
           unused == unusedIn(s, covered)
<1>1. /\ IsSnapshot(s) /\ s.HasSecretAccess \in BOOLEAN
      /\ IsSnapshot(t) /\ t.HasSecretAccess \in BOOLEAN
  BY CleanedIsCluster, CollectIsSnapshot
<1>2. /\ SameBesides(s, t)
      /\ \A kind : kind \notin {"ConfigMap", "Secret"} => All(t, kind) = All(s, kind)
  <2>1. \A x : x.kind \notin {"ConfigMap", "Secret"} => spared(x, unused)
    BY OtherKindsAreSpared
  <2> HIDE DEF unused
  <2>2. /\ SameBesides(s, Collect(cleanedOf(objs, unused), ans, only))
        /\ \A kind : kind \notin {"ConfigMap", "Secret"} =>
              All(Collect(cleanedOf(objs, unused), ans, only), kind) = All(s, kind)
    BY <2>1, CleanedIsSameBesides
  <2> QED
    BY <2>2 DEF unused
<1>3. /\ All(t, "ConfigMap") = {x \in All(s, "ConfigMap") : spared(x, unused)}
      /\ All(t, "Secret") = {x \in All(s, "Secret") : spared(x, unused)}
  BY CleanedOfKind
<1>4. t.HasSecretAccess = s.HasSecretAccess
  <2>1. \A world : Collect(world, ans, only).HasSecretAccess = ("Secret" \in ans)
    BY CollectedObjects
  <2> QED
    BY <2>1, Zenon
<1>5. covered = AppNamespaces(s, o.includeSystem, o.only)
  OBVIOUS
<1> HIDE DEF s, t
<1>6. Nodes(t) \subseteq Nodes(s)
  BY <1>2, NodesAgree
<1>7. \A ns : referencesIn(t, ns) = referencesIn(s, ns)
  BY <1>2, ReferencesAgree
<1>8. \A u, kind, ns : In(u, kind, ns) = {x \in All(u, kind) : x.ns = ns}
  BY DEF In, All
<1>9. ASSUME NEW ns \in covered
      PROVE  unusedConfigMaps(t, ns) = {} /\ unusedSecrets(t, ns) = {}
  <2>1. ASSUME NEW x \in unusedConfigMaps(t, ns) PROVE FALSE
    <3>1. /\ x \in In(t, "ConfigMap", ns) /\ x.name # "kube-root-ca.crt"
          /\ <<"ConfigMap", x.name>> \notin referencesIn(t, ns)
      BY <2>1 DEF unusedConfigMaps
    <3>2. x \in In(s, "ConfigMap", ns) /\ spared(x, unused)
      BY <1>3, <1>8, <3>1
    <3>3. x \in unusedConfigMaps(s, ns)
      BY <1>7, <3>1, <3>2 DEF unusedConfigMaps
    <3> QED
      BY <3>2, <3>3 DEF unusedIn, spared
  <2>2. ASSUME NEW x \in unusedSecrets(t, ns) PROVE FALSE
    <3>1. /\ x \in In(t, "Secret", ns) /\ ~isGeneratedSecret(x)
          /\ <<"Secret", x.name>> \notin referencesIn(t, ns)
      BY <2>2 DEF unusedSecrets
    <3>2. x \in In(s, "Secret", ns) /\ spared(x, unused)
      BY <1>3, <1>8, <3>1
    <3>3. x \in unusedSecrets(s, ns)
      BY <1>7, <3>1, <3>2 DEF unusedSecrets
    <3> QED
      BY <3>2, <3>3 DEF unusedIn, spared
  <2> QED
    BY <2>1, <2>2
<1>10. \A key \in tlsKeys(s, covered) : secretsOf(t, key) = secretsOf(s, key)
  <2> SUFFICES ASSUME NEW key \in tlsKeys(s, covered)
               PROVE  secretsOf(t, key) = secretsOf(s, key)
    OBVIOUS
  <2>1. PICK user \in tlsUsers(s, covered) : \E n \in tlsNames(user) : key = <<user.ns, n>>
    BY DEF tlsKeys
  <2>2. PICK n \in tlsNames(user) : key = <<user.ns, n>>
    BY <2>1
  <2>3. <<"Secret", n>> \in referencesIn(s, user.ns)
    <3>1. \/ user \in In(s, "Ingress", user.ns) /\ user.kind = "Ingress"
          \/ user \in In(s, "Gateway", user.ns) /\ user.kind = "Gateway"
      BY DEF tlsUsers, All, In
    <3>2. CASE user.kind = "Ingress"
      <4>1. n \in user.tls
        BY <3>2 DEF tlsNames
      <4> QED
        BY <3>1, <3>2, <4>1 DEF referencesIn
    <3>3. CASE user.kind = "Gateway"
      <4>1. n \in gatewayTLSSecretNames(user)
        BY <3>3 DEF tlsNames
      <4> QED
        BY <3>1, <3>3, <4>1 DEF referencesIn
    <3> QED
      BY <3>1, <3>2, <3>3
  <2>4. ASSUME NEW x \in secretsOf(s, key)
        PROVE  x \in secretsOf(t, key)
    <3>1. x \in All(s, "Secret") /\ x.kind = "Secret" /\ x.ns = user.ns /\ x.name = n
      BY <2>2, <2>4 DEF secretsOf, In, All
    <3>2. spared(x, unused)
      BY <2>3, <3>1, ReferredIsSpared
    <3> HIDE DEF unused
    <3>3. x \in All(t, "Secret")
      BY <1>3, <3>1, <3>2
    <3> QED
      BY <2>2, <3>1, <3>3 DEF secretsOf, In, All
  <2>5. ASSUME NEW x \in secretsOf(t, key)
        PROVE  x \in secretsOf(s, key)
    <3> HIDE DEF unused
    <3> QED
      BY <1>3, <1>8, <2>5 DEF secretsOf
  <2> QED
    BY <2>4, <2>5
<1>11. tlsFindings(t, covered) \subseteq tlsFindings(s, covered)
  BY <1>2, <1>4, <1>10, TLSFindingsAgree
<1>12. ASSUME NEW ns \in covered
       PROVE  /\ names(unusedConfigMaps(t, ns)) \in {{}, names(unusedConfigMaps(s, ns))}
              /\ names(unusedSecrets(t, ns)) \in {{}, names(unusedSecrets(s, ns))}
  BY <1>9 DEF names
<1>13. findingKeys(Analyze(t, used, o)) \subseteq findingKeys(Analyze(s, used, o))
  BY <1>1, <1>2, <1>5, <1>6, <1>11, <1>12, LessIsReported
<1>14. QED
  BY <1>13 DEF s, t

\* CleanupBreaksNothing: deleting what a run with all its lists reports unused keeps
\* every pod and template startable, unless it took the Secret the driver of a volume
\* is given, and adds no finding to the next run, whatever the cluster holds.
THEOREM CleanupIsSafe == Spec => []CleanupBreaksNothing
<1>1. ASSUME IInv PROVE CleanupBreaksNothing
  <2> SUFFICES ASSUME JustScanned, Kinds \subseteq answered,
                      NEW removed,
                      removed = {o \in objects : \E p \in reportedUnused :
                                             identity(o) = identity(p)}
               PROVE  /\ \A o \in {o \in objects : "spec" \in DOMAIN o} :
                            canStart(o, objects) =>
                              \/ canStart(o, objects \ removed)
                              \/ \E p \in removed :
                                    /\ p.ns = o.ns
                                    /\ <<p.kind, p.name>> \in mounted(o, driverVolumes)
                      /\ findingKeys(Analyze(Collect(objects \ removed, answered, opts.only),
                                             usage, opts))
                           \subseteq findingKeys(report)
    BY Zenon DEF CleanupBreaksNothing
  <2> DEFINE only == opts.only
             s == Collect(objects, answered, only)
             covered == AppNamespaces(s, opts.includeSystem, opts.only)
             unused == unusedIn(s, covered)
             cleaned == cleanedOf(objects, unused)
  <2>1. /\ answered = Kinds /\ report = Analyze(s, usage, opts)
        /\ IsUsage(usage) /\ IsCost(opts.cost)
    BY <1>1, JustScannedIsLatest DEF snapshot
  <2>2. IsCluster(objects) /\ \A o \in objects : o.kind \in Kinds \cup {"Usage"}
    BY <1>1, ClusterIsValid DEF IInv
  <2>3. reportedUnused = unusedIn(s, covered)
    BY Zenon DEF reportedUnused, unusedIn, snapshot
  <2>4. covered = AppNamespaces(s, opts.includeSystem, opts.only)
    OBVIOUS
  <2> HIDE DEF covered, only
  <2>5. removed = removedOf(objects, unused)
    BY <2>3, Zenon DEF removedOf
  <2>6. objects \ removed = cleaned
    BY <2>5, Zenon DEF cleanedOf
  <2>7. unused = unusedIn(Collect(objects, answered, only), covered)
    OBVIOUS
  <2>8. cleaned = cleanedOf(objects, unusedIn(s, covered))
    OBVIOUS
  <2> HIDE DEF cleaned, unused
  <2>9. ASSUME NEW o \in objects, "spec" \in DOMAIN o, canStart(o, objects)
        PROVE  \/ canStart(o, objects \ removed)
               \/ \E p \in removed :
                     p.ns = o.ns /\ <<p.kind, p.name>> \in mounted(o, driverVolumes)
    <3>1. o.kind \in answered
      <4>1. o.kind \in podKinds
        BY <2>2, <2>9 DEF IsCluster, IsObject
      <4> QED
        BY <2>1, <2>2, <4>1 DEF podKinds
    <3>2. \/ canStart(o, cleanedOf(objects, unused))
          \/ \E p \in removedOf(objects, unused) :
                p.ns = o.ns /\ <<p.kind, p.name>> \in mounted(o, driverVolumes)
      BY <2>2, <2>7, <2>9, <3>1, StartsAfterCleanup
    <3> QED
      BY <2>5, <2>6, <3>2 DEF cleaned
  <2>10. findingKeys(Analyze(Collect(cleaned, answered, only), usage, opts))
          \subseteq findingKeys(Analyze(s, usage, opts))
    BY <2>1, <2>2, <2>4, <2>8, CleanedFindsLess
  <2> QED
    BY <2>1, <2>6, <2>9, <2>10 DEF only
<1>2. QED
  BY <1>1, GuardianInvariant, PTL
-----------------------------------------------------------------------------
(***************************************************************************)
(* Lint, and the analysis of what was linted.                              *)
(***************************************************************************)

\* g says what f says: of the same object, with the same controls, and shows the
\* names that f shows.
foretells(g, f) ==
    /\ g.severity = f.severity /\ g.message = f.message /\ g.object = f.object
    /\ g.controls = f.controls /\ f.shown \subseteq g.shown

Foretold(F, G) == \A f \in F : \E g \in G : foretells(g, f)

LEMMA SameIsForetold ==
    ASSUME NEW F, NEW G, F \subseteq G
    PROVE  Foretold(F, G)
BY DEF Foretold, foretells

LEMMA TogetherForetold ==
    ASSUME NEW E, NEW F, NEW G, NEW H, Foretold(E, G), Foretold(F, H)
    PROVE  Foretold(E \cup F, G \cup H)
BY DEF Foretold

\* A count says the same as long as it is not zero.
LEMMA CountForetold ==
    ASSUME NEW A, IsFiniteSet(A), NEW B, IsFiniteSet(B), B # {} => A # {},
           NEW severity, NEW message, NEW controls
    PROVE  Foretold(Tagged(severity, message, Cardinality(B), controls),
                    Tagged(severity, message, Cardinality(A), controls))
<1> DEFINE m == Cardinality(A)
           n == Cardinality(B)
           of(k) == Finding(severity, message, k, {}, 0, <<>>, controls)
<1>1. n > 0 => m > 0
  <2>1. m \in Nat /\ n \in Nat /\ (m = 0 <=> A = {}) /\ (n = 0 <=> B = {})
    BY FS_CardinalityType, FS_EmptySet
  <2> HIDE DEF m, n
  <2> QED
    BY <2>1
<1>2. \A k : Tagged(severity, message, k, controls) = IF k > 0 THEN {of(k)} ELSE {}
  BY Zenon DEF Tagged
<1>3. foretells(of(m), of(n))
  <2> HIDE DEF m, n
  <2> QED
    BY DEF foretells, Finding
<1>4. QED
  <2> HIDE DEF m, n, of
  <2> QED
    BY <1>1, <1>2, <1>3, Zenon DEF Foretold, m, n

\* What the checks read of a pod, and of a Secret.
samePod(p, q) == p.ns = q.ns /\ p.spec = q.spec /\ p.labels = q.labels

sameSecret(x, y) == x.ns = y.ns /\ x.name = y.name /\ x.type = y.type /\ x.left = y.left

redeployed == {"Pod", "Secret"}

\* t lists what the manifests behind s deploy: pods in place of those their
\* templates stand for, all of them healthy, and Secrets without their data.
Deploys(s, t) ==
    /\ \A kind : kind \notin redeployed => All(t, kind) = All(s, kind)
    /\ \A p \in All(t, "Pod") : \E q \in All(s, "Pod") : samePod(p, q)
    /\ \A q \in All(s, "Pod") : \E p \in All(t, "Pod") : samePod(p, q)
    /\ \A q \in All(s, "Pod") : q.phase # "Succeeded"
    /\ \A p \in All(t, "Pod") : p.phase \notin {"Succeeded", "Pending"} /\ p.statuses = {}
    /\ \A x \in All(t, "Secret") :
          \E y \in All(s, "Secret") : sameSecret(x, y) /\ (x.leaf => y.leaf)
    /\ \A y \in All(s, "Secret") : \E x \in All(t, "Secret") : sameSecret(x, y)
    /\ s.HasSecretAccess = FALSE

LEMMA DeployedLists ==
    ASSUME NEW s, NEW t, Deploys(s, t)
    PROVE  /\ \A ns : \A kind : kind \notin redeployed => In(t, kind, ns) = In(s, kind, ns)
           /\ \A ns : workloads(t, ns) = workloads(s, ns)
<1>1. \A u, kind, ns : In(u, kind, ns) = {o \in All(u, kind) : o.ns = ns}
  BY DEF In, All
<1>2. \A ns : \A kind : kind \notin redeployed => In(t, kind, ns) = In(s, kind, ns)
  <2> SUFFICES ASSUME NEW ns, NEW kind, kind \notin redeployed
               PROVE  In(t, kind, ns) = In(s, kind, ns)
    OBVIOUS
  <2>1. All(t, kind) = All(s, kind)
    BY DEF Deploys
  <2> QED
    BY <1>1, <2>1
<1>3. \A kind \in {"Deployment", "StatefulSet", "DaemonSet", "CronJob"} :
         kind \notin redeployed
  BY DEF redeployed
<1>4. ASSUME NEW ns PROVE workloads(t, ns) = workloads(s, ns)
  <2>1. \A kind \in {"Deployment", "StatefulSet", "DaemonSet", "CronJob"} :
           In(t, kind, ns) = In(s, kind, ns)
    BY <1>2, <1>3
  <2> QED
    BY <2>1 DEF workloads
<1>5. QED
  BY <1>2, <1>4

LEMMA DeployedPods ==
    ASSUME NEW s, NEW t, Deploys(s, t), NEW ns
    PROVE  /\ \A p \in In(t, "Pod", ns) : \E q \in In(s, "Pod", ns) : samePod(p, q)
           /\ \A q \in In(s, "Pod", ns) : \E p \in In(t, "Pod", ns) : samePod(p, q)
<1>1. \A u : In(u, "Pod", ns) = {p \in All(u, "Pod") : p.ns = ns}
  BY DEF In, All
<1>2. \A p, q : samePod(p, q) => p.ns = q.ns
  BY DEF samePod
<1>3. QED
  BY <1>1, <1>2 DEF Deploys

\* The containers of pods that others stand for.
LEMMA ContainersStandFor ==
    ASSUME NEW A, NEW B, \A p \in B : \E q \in A : samePod(p, q),
           NEW x \in containersOf(B)
    PROVE  \E y \in containersOf(A) : y.of.spec = x.of.spec /\ y.c = x.c
<1>1. \A S : containersOf(S) = UNION {{[of |-> o, c |-> c] : c \in o.spec.containers} : o \in S}
  BY Zenon DEF containersOf
<1>2. PICK p \in B : \E c \in p.spec.containers : x = [of |-> p, c |-> c]
  BY <1>1
<1>3. PICK c \in p.spec.containers : x = [of |-> p, c |-> c]
  BY <1>2
<1>4. PICK q \in A : q.spec = p.spec
  BY DEF samePod
<1> DEFINE y == [of |-> q, c |-> c]
<1>5. y \in containersOf(A)
  BY <1>1, <1>4
<1>6. y.of.spec = x.of.spec /\ y.c = x.c
  BY <1>3, <1>4
<1>7. QED
  BY <1>5, <1>6
-----------------------------------------------------------------------------
\* The checks of a namespace.
LEMMA ResourceFindingsForetold ==
    ASSUME NEW s, IsSnapshot(s), NEW t, IsSnapshot(t), Deploys(s, t), NEW ns
    PROVE  Foretold(resourceFindings(t, ns), resourceFindings(s, ns))
<1> DEFINE pods(u) == {p \in In(u, "Pod", ns) : p.phase # "Succeeded"}
           without(u) ==
             {p \in pods(u) : \E c \in p.spec.containers : c.cpu = 0 \/ c.mem = 0}
           unlimited(u) == {p \in pods(u) : \E c \in p.spec.containers : c.memLimit = 0}
           lacking(u) == Tagged(Warning, "missing resource requests",
                                Cardinality(without(u)), {})
           open(u) == Tagged(Info, "missing memory limits", Cardinality(unlimited(u)), {})
<1>1. \A u : resourceFindings(u, ns) = lacking(u) \cup open(u)
  BY Zenon DEF resourceFindings, Counted
<1>2. \A p \in pods(t) : \E q \in pods(s) : samePod(p, q)
  <2>1. \A q \in In(s, "Pod", ns) : q.phase # "Succeeded"
    BY DEF Deploys, In, All
  <2> QED
    BY <2>1, DeployedPods
<1>3. IsFiniteSet(without(s)) /\ IsFiniteSet(without(t))
  <2>1. IsFiniteSet(In(s, "Pod", ns)) /\ IsFiniteSet(In(t, "Pod", ns))
    BY ObjectsOfKind
  <2> QED
    BY <2>1, SubsetIsFinite
<1>4. IsFiniteSet(unlimited(s)) /\ IsFiniteSet(unlimited(t))
  <2>1. IsFiniteSet(In(s, "Pod", ns)) /\ IsFiniteSet(In(t, "Pod", ns))
    BY ObjectsOfKind
  <2> QED
    BY <2>1, SubsetIsFinite
<1>5. without(t) # {} => without(s) # {}
  <2> HIDE DEF pods
  <2> QED
    BY <1>2 DEF samePod
<1>6. unlimited(t) # {} => unlimited(s) # {}
  <2> HIDE DEF pods
  <2> QED
    BY <1>2 DEF samePod
<1>7. Foretold(lacking(t), lacking(s))
  <2> HIDE DEF without
  <2> QED
    BY <1>3, <1>5, CountForetold
<1>8. Foretold(open(t), open(s))
  <2> HIDE DEF unlimited
  <2> QED
    BY <1>4, <1>6, CountForetold
<1>9. QED
  <2> HIDE DEF lacking, open
  <2> QED
    BY <1>1, <1>7, <1>8, TogetherForetold

\* Pods that are up and have no container statuses are healthy.
LEMMA HealthyPods ==
    ASSUME NEW s, NEW t, Deploys(s, t), NEW ns
    PROVE  healthFindings(t, ns) = {}
<1> DEFINE pods == In(t, "Pod", ns)
           statuses == UNION {{<<p, c>> : c \in p.statuses} : p \in pods}
           severity(reason) == IF reason = "CrashLoopBackOff" THEN Critical ELSE Warning
           waiting(reason) == {st \in statuses : st[2].waiting = reason}
           pending == {p \in pods : p.phase = "Pending" /\ ~p.deleting}
           killed == {st \in statuses : st[2].oomKilled}
           often == {st \in statuses : st[2].restarts >= 10}
           counted(reason) == Counted(severity(reason), reason, Cardinality(waiting(reason)))
           stuck == Counted(Warning, "stuck in Pending", Cardinality(pending))
           oom == Counted(Warning, "recently OOMKilled", Cardinality(killed))
           restarted == Counted(Warning, "10+ restarts", Cardinality(often))
<1>1. healthFindings(t, ns) =
        (UNION {counted(reason) : reason \in waitingReasons}) \cup stuck \cup oom
          \cup restarted
  BY Zenon DEF healthFindings
<1>2. \A level, message : Counted(level, message, Cardinality({})) = {}
  <2>1. ~(Cardinality({}) > 0)
    BY FS_EmptySet
  <2> QED
    BY <2>1, Zenon DEF Counted, Tagged
<1>3. \A p \in pods : p.phase # "Pending" /\ p.statuses = {}
  BY DEF Deploys, In, All
<1>4. pending = {}
  <2> HIDE DEF pods
  <2> QED
    BY <1>3
<1>5. statuses = {}
  <2> HIDE DEF pods
  <2> QED
    BY <1>3
<1>6. killed = {} /\ often = {} /\ \A reason : waiting(reason) = {}
  <2> HIDE DEF statuses
  <2> QED
    BY <1>5
<1>7. stuck = {} /\ oom = {} /\ restarted = {} /\ \A reason : counted(reason) = {}
  <2> HIDE DEF pending, killed, often, waiting, severity
  <2> QED
    BY <1>2, <1>4, <1>6, Zenon
<1>8. QED
  <2> HIDE DEF counted, stuck, oom, restarted
  <2> QED
    BY <1>1, <1>7

\* Pods are referred from and selected as their templates are.
LEMMA DeployedReferences ==
    ASSUME NEW s, NEW t, Deploys(s, t), NEW ns
    PROVE  /\ referencesIn(t, ns) = referencesIn(s, ns)
           /\ \A selector : anyPodMatches(t, ns, selector) <=> anyPodMatches(s, ns, selector)
<1>1. /\ In(t, "Job", ns) = In(s, "Job", ns)
      /\ In(t, "ServiceAccount", ns) = In(s, "ServiceAccount", ns)
      /\ In(t, "Ingress", ns) = In(s, "Ingress", ns)
      /\ In(t, "Gateway", ns) = In(s, "Gateway", ns)
      /\ workloads(t, ns) = workloads(s, ns)
  BY DeployedLists DEF redeployed
<1>2. /\ \A p \in In(t, "Pod", ns) : \E q \in In(s, "Pod", ns) : samePod(p, q)
      /\ \A q \in In(s, "Pod", ns) : \E p \in In(t, "Pod", ns) : samePod(p, q)
  BY DeployedPods
<1> DEFINE ofPods(u) == UNION {specRefs(o.spec) : o \in In(u, "Pod", ns)}
           ofTemplates(u) == UNION {specRefs(o.spec) : o \in workloads(u, ns) \cup In(u, "Job", ns)}
           ofOthers(u) == {<<"Secret", n>> : n \in
              UNION ({o.secrets : o \in In(u, "ServiceAccount", ns)}
                \cup {o.tls : o \in In(u, "Ingress", ns)}
                \cup {gatewayTLSSecretNames(o) : o \in In(u, "Gateway", ns)})}
           ofAll(u) == UNION {specRefs(o.spec) :
                                o \in In(u, "Pod", ns) \cup workloads(u, ns) \cup In(u, "Job", ns)}
<1>3. \A u : referencesIn(u, ns) = ofAll(u) \cup ofOthers(u)
  BY Zenon DEF referencesIn
<1>4. \A u : ofAll(u) = ofPods(u) \cup ofTemplates(u)
  OBVIOUS
<1>5. ofPods(t) = ofPods(s)
  BY <1>2 DEF samePod
<1>6. ofTemplates(t) = ofTemplates(s)
  BY <1>1, Zenon
<1>7. ofOthers(t) = ofOthers(s)
  BY <1>1, Zenon
<1>8. referencesIn(t, ns) = referencesIn(s, ns)
  <2> HIDE DEF ofAll, ofOthers, ofPods, ofTemplates
  <2> QED
    BY <1>3, <1>4, <1>5, <1>6, <1>7
<1>9. ASSUME NEW selector
      PROVE  anyPodMatches(t, ns, selector) <=> anyPodMatches(s, ns, selector)
  <2>1. /\ \A p \in In(t, "Pod", ns) : p.phase # "Succeeded"
        /\ \A q \in In(s, "Pod", ns) : q.phase # "Succeeded"
    BY DEF Deploys, In, All
  <2> QED
    BY <1>2, <2>1 DEF anyPodMatches, samePod
<1>10. QED
  BY <1>8, <1>9

LEMMA DeployedUnused ==
    ASSUME NEW s, NEW t, Deploys(s, t), NEW ns
    PROVE  unusedFindings(t, ns) = unusedFindings(s, ns)
<1>1. /\ In(t, "PVC", ns) = In(s, "PVC", ns)
      /\ In(t, "ConfigMap", ns) = In(s, "ConfigMap", ns)
      /\ In(t, "Service", ns) = In(s, "Service", ns)
      /\ In(t, "HPA", ns) = In(s, "HPA", ns)
      /\ In(t, "PDB", ns) = In(s, "PDB", ns)
      /\ In(t, "Ingress", ns) = In(s, "Ingress", ns)
      /\ In(t, "HTTPRoute", ns) = In(s, "HTTPRoute", ns)
      /\ workloads(t, ns) = workloads(s, ns)
  BY DeployedLists DEF redeployed
<1>2. /\ referencesIn(t, ns) = referencesIn(s, ns)
      /\ \A selector : anyPodMatches(t, ns, selector) <=> anyPodMatches(s, ns, selector)
  BY DeployedReferences
<1>3. /\ unboundFindings(t, ns) = unboundFindings(s, ns)
      /\ otherUnused(t, ns) = otherUnused(s, ns)
  <2>1. unboundFindings(t, ns) = unboundFindings(s, ns)
    BY <1>1, Zenon DEF unboundFindings
  <2>2. targetsIn(t, ns) = targetsIn(s, ns)
    BY <1>1, Zenon DEF targetsIn
  <2> QED
    BY <1>1, <1>2, <2>1, <2>2, OtherUnusedReads
<1>4. unusedConfigMaps(t, ns) = unusedConfigMaps(s, ns)
  BY <1>1, <1>2, Zenon DEF unusedConfigMaps
<1>5. names(unusedSecrets(t, ns)) = names(unusedSecrets(s, ns))
  <2>1. /\ \A x \in All(t, "Secret") : \E y \in All(s, "Secret") : sameSecret(x, y)
        /\ \A y \in All(s, "Secret") : \E x \in All(t, "Secret") : sameSecret(x, y)
    BY DEF Deploys
  <2>2. \A u : In(u, "Secret", ns) = {x \in All(u, "Secret") : x.ns = ns}
    BY DEF In, All
  <2>3. ASSUME NEW x \in unusedSecrets(t, ns)
        PROVE  \E y \in unusedSecrets(s, ns) : y.name = x.name
    <3>1. /\ x \in All(t, "Secret") /\ x.ns = ns /\ ~isGeneratedSecret(x)
          /\ <<"Secret", x.name>> \notin referencesIn(t, ns)
      BY <2>2, <2>3 DEF unusedSecrets
    <3>2. PICK y \in All(s, "Secret") : sameSecret(x, y)
      BY <2>1, <3>1
    <3>3. y.ns = ns /\ y.name = x.name /\ y.type = x.type
      BY <3>1, <3>2 DEF sameSecret
    <3>4. ~isGeneratedSecret(y) /\ <<"Secret", y.name>> \notin referencesIn(s, ns)
      BY <1>2, <3>1, <3>3 DEF isGeneratedSecret
    <3> QED
      BY <2>2, <3>2, <3>3, <3>4 DEF unusedSecrets
  <2>4. ASSUME NEW y \in unusedSecrets(s, ns)
        PROVE  \E x \in unusedSecrets(t, ns) : x.name = y.name
    <3>1. /\ y \in All(s, "Secret") /\ y.ns = ns /\ ~isGeneratedSecret(y)
          /\ <<"Secret", y.name>> \notin referencesIn(s, ns)
      BY <2>2, <2>4 DEF unusedSecrets
    <3>2. PICK x \in All(t, "Secret") : sameSecret(x, y)
      BY <2>1, <3>1
    <3>3. x.ns = ns /\ x.name = y.name /\ x.type = y.type
      BY <3>1, <3>2 DEF sameSecret
    <3>4. ~isGeneratedSecret(x) /\ <<"Secret", x.name>> \notin referencesIn(t, ns)
      BY <1>2, <3>1, <3>3 DEF isGeneratedSecret
    <3> QED
      BY <2>2, <3>2, <3>3, <3>4 DEF unusedSecrets
  <2> QED
    BY <2>3, <2>4 DEF names
<1> DEFINE maps(found) == Listed(Info, "unused ConfigMap", names(found), 4)
           secrets(unused) == Listed(Info, "unused Secret", unused, 4)
<1>6. \A u : unusedFindings(u, ns) = maps(unusedConfigMaps(u, ns))
               \cup secrets(names(unusedSecrets(u, ns))) \cup unboundFindings(u, ns)
               \cup otherUnused(u, ns)
  BY UnusedIs
<1>7. QED
  <2> HIDE DEF maps, secrets
  <2> QED
    BY <1>3, <1>4, <1>5, <1>6

LEMMA NamespaceForetold ==
    ASSUME NEW s, IsSnapshot(s), NEW t, IsSnapshot(t), Deploys(s, t), NEW ns
    PROVE  Foretold(namespaceFindings(t, ns), namespaceFindings(s, ns))
<1>1. /\ In(t, "Deployment", ns) = In(s, "Deployment", ns)
      /\ In(t, "StatefulSet", ns) = In(s, "StatefulSet", ns)
      /\ In(t, "HPA", ns) = In(s, "HPA", ns)
      /\ In(t, "PDB", ns) = In(s, "PDB", ns)
      /\ workloads(t, ns) = workloads(s, ns)
  BY DeployedLists DEF redeployed
<1> DEFINE workload(u) == imageFindings(u, ns) \cup probeFindings(u, ns)
                            \cup availabilityFindings(u, ns) \cup disruptionFindings(u, ns)
           others(u) == workload(u) \cup unusedFindings(u, ns)
<1>2. others(t) = others(s)
  <2>1. workload(t) = workload(s)
    BY <1>1, WorkloadChecksRead
  <2>2. unusedFindings(t, ns) = unusedFindings(s, ns)
    BY DeployedUnused
  <2> HIDE DEF workload
  <2> QED
    BY <2>1, <2>2
<1>3. \A u : namespaceFindings(u, ns) =
        resourceFindings(u, ns) \cup (healthFindings(u, ns) \cup others(u))
  <2>1. \A u : namespaceFindings(u, ns) =
          UNION {resourceFindings(u, ns), healthFindings(u, ns), imageFindings(u, ns),
                 probeFindings(u, ns), availabilityFindings(u, ns),
                 disruptionFindings(u, ns), unusedFindings(u, ns)}
    BY Zenon DEF namespaceFindings
  <2> QED
    BY <2>1
<1> HIDE DEF others
<1>4. Foretold(healthFindings(t, ns) \cup others(t), healthFindings(s, ns) \cup others(s))
  <2>1. healthFindings(t, ns) = {}
    BY HealthyPods
  <2>2. healthFindings(t, ns) \cup others(t) \subseteq healthFindings(s, ns) \cup others(s)
    BY <1>2, <2>1
  <2> QED
    BY <2>2, SameIsForetold
<1>5. Foretold(resourceFindings(t, ns), resourceFindings(s, ns))
  BY ResourceFindingsForetold
<1>6. QED
  BY <1>3, <1>4, <1>5, TogetherForetold
-----------------------------------------------------------------------------
\* The checks of the security section.
LEMMA AnalyzedStandFor ==
    ASSUME NEW s, IsSnapshot(s), NEW t, IsSnapshot(t), Deploys(s, t), NEW covered
    PROVE  /\ \A p \in analyzedPods(t, covered) : \E q \in analyzedPods(s, covered) : samePod(p, q)
           /\ IsFiniteSet(analyzedPods(s, covered)) /\ IsFiniteSet(analyzedPods(t, covered))
           /\ IsFiniteSet(containersOf(analyzedPods(s, covered)))
           /\ IsFiniteSet(containersOf(analyzedPods(t, covered)))
<1>1. \A u : analyzedPods(u, covered) =
               {p \in All(u, "Pod") : p.ns \in covered /\ p.phase # "Succeeded"}
  BY DEF analyzedPods
<1>2. \A p \in analyzedPods(t, covered) : \E q \in analyzedPods(s, covered) : samePod(p, q)
  <2>1. /\ \A p \in All(t, "Pod") : \E q \in All(s, "Pod") : samePod(p, q)
        /\ \A q \in All(s, "Pod") : q.phase # "Succeeded"
    BY DEF Deploys
  <2>2. \A p, q : samePod(p, q) => p.ns = q.ns
    BY DEF samePod
  <2> QED
    BY <1>1, <2>1, <2>2
<1>3. ASSUME NEW u, IsSnapshot(u)
      PROVE  /\ IsFiniteSet(analyzedPods(u, covered))
             /\ IsFiniteSet(containersOf(analyzedPods(u, covered)))
  <2>1. analyzedPods(u, covered) \subseteq All(u, "Pod")
    BY <1>1
  <2>2. IsFiniteSet(All(u, "Pod")) /\ \A p \in All(u, "Pod") : p.kind = "Pod" /\ IsObject(p)
    BY <1>3, ObjectsOfKind
  <2>3. IsFiniteSet(analyzedPods(u, covered))
    BY <2>1, <2>2, SubsetIsFinite
  <2>4. \A p \in analyzedPods(u, covered) : IsObject(p) /\ p.kind \in podKinds
    BY <2>1, <2>2 DEF podKinds
  <2> QED
    BY <2>3, <2>4, ContainersAreFinite
<1>4. QED
  BY <1>2, <1>3

LEMMA PodSecurityForetold ==
    ASSUME NEW s, IsSnapshot(s), NEW t, IsSnapshot(t), Deploys(s, t), NEW covered
    PROVE  Foretold(podSecurityFindings(t, covered), podSecurityFindings(s, covered))
<1> DEFINE pods(u) == analyzedPods(u, covered)
           all(u) == containersOf(pods(u))
           root(u) == {x \in all(u) : runsAsRoot(x.of.spec, x.c)}
           privileged(u) == {x \in all(u) : x.c.privileged}
           capable(u) == {x \in all(u) : x.c.caps \cap dangerousCapabilities # {}}
           onHost(u) == {p \in pods(u) : p.spec.hostNamespaces}
           A(u) == Tagged(Warning, "containers running as root",
                          Cardinality(root(u)), {ctrlRunAsNonRoot})
           B(u) == Tagged(Critical, "privileged containers",
                          Cardinality(privileged(u)), {ctrlPrivileged})
           C(u) == Tagged(Warning, "containers with dangerous capabilities",
                          Cardinality(capable(u)), {ctrlCapabilities})
           D(u) == Tagged(Warning, "Pods using host network/PID/IPC",
                          Cardinality(onHost(u)), {ctrlHostNamespaces})
<1>1. \A u : podSecurityFindings(u, covered) = (A(u) \cup B(u)) \cup (C(u) \cup D(u))
  <2>1. \A u : podSecurityFindings(u, covered) = UNION {A(u), B(u), C(u), D(u)}
    BY Zenon DEF podSecurityFindings
  <2> HIDE DEF A, B, C, D
  <2> QED
    BY <2>1
<1>2. /\ \A p \in pods(t) : \E q \in pods(s) : samePod(p, q)
      /\ IsFiniteSet(pods(s)) /\ IsFiniteSet(pods(t))
      /\ IsFiniteSet(all(s)) /\ IsFiniteSet(all(t))
  BY AnalyzedStandFor
<1>3. \A x \in all(t) : \E y \in all(s) : y.of.spec = x.of.spec /\ y.c = x.c
  <2> HIDE DEF pods
  <2> QED
    BY <1>2, ContainersStandFor
<1> HIDE DEF pods, all
<1>4. root(t) # {} => root(s) # {}
  BY <1>3
<1>5. privileged(t) # {} => privileged(s) # {}
  BY <1>3
<1>6. capable(t) # {} => capable(s) # {}
  BY <1>3
<1>7. onHost(t) # {} => onHost(s) # {}
  BY <1>2 DEF samePod
<1>8. /\ IsFiniteSet(root(s)) /\ IsFiniteSet(root(t))
      /\ IsFiniteSet(privileged(s)) /\ IsFiniteSet(privileged(t))
      /\ IsFiniteSet(capable(s)) /\ IsFiniteSet(capable(t))
      /\ IsFiniteSet(onHost(s)) /\ IsFiniteSet(onHost(t))
  BY <1>2, SubsetIsFinite
<1> HIDE DEF root, privileged, capable, onHost
<1>9. /\ Foretold(A(t), A(s)) /\ Foretold(B(t), B(s))
      /\ Foretold(C(t), C(s)) /\ Foretold(D(t), D(s))
  BY <1>4, <1>5, <1>6, <1>7, <1>8, CountForetold
<1>10. QED
  <2> HIDE DEF A, B, C, D
  <2>1. Foretold(A(t) \cup B(t), A(s) \cup B(s)) /\ Foretold(C(t) \cup D(t), C(s) \cup D(s))
    BY <1>9, TogetherForetold
  <2> QED
    BY <1>1, <2>1, TogetherForetold

LEMMA HardeningForetold ==
    ASSUME NEW s, IsSnapshot(s), NEW t, IsSnapshot(t), Deploys(s, t), NEW covered
    PROVE  Foretold(hardeningFindings(t, covered), hardeningFindings(s, covered))
<1> DEFINE pods(u) == analyzedPods(u, covered)
           all(u) == containersOf(pods(u))
           noAutomount(u) == {<<o.ns, o.name>> : o \in
                                {o \in All(u, "ServiceAccount") : ~o.automount}}
           noSeccomp(u) == {p \in pods(u) : /\ ~p.spec.seccomp
                                            /\ \E c \in p.spec.containers : ~c.seccomp}
           writable(u) == {x \in all(u) : ~x.c.readOnlyRoot}
           mounting(u) == {p \in pods(u) :
                             /\ p.spec.automount
                             /\ <<p.ns, p.spec.serviceAccount>> \notin noAutomount(u)}
           receiving(u) == {x \in all(u) : usesSecretEnv(x.c)}
           A(u) == Tagged(Warning, "Pods without a seccomp profile",
                          Cardinality(noSeccomp(u)), {ctrlSeccomp})
           B(u) == Tagged(Info, "containers without readOnlyRootFilesystem",
                          Cardinality(writable(u)), {})
           C(u) == Tagged(Info, "Pods automounting ServiceAccount tokens",
                          Cardinality(mounting(u)), {})
           D(u) == Tagged(Info, "containers receiving Secrets via environment",
                          Cardinality(receiving(u)), {})
<1>1. \A u : hardeningFindings(u, covered) = (A(u) \cup B(u)) \cup (C(u) \cup D(u))
  <2>1. \A u : hardeningFindings(u, covered) = UNION {A(u), B(u), C(u), D(u)}
    BY Zenon DEF hardeningFindings, Counted
  <2> HIDE DEF A, B, C, D
  <2> QED
    BY <2>1
<1>2. /\ \A p \in pods(t) : \E q \in pods(s) : samePod(p, q)
      /\ IsFiniteSet(pods(s)) /\ IsFiniteSet(pods(t))
      /\ IsFiniteSet(all(s)) /\ IsFiniteSet(all(t))
  BY AnalyzedStandFor
<1>3. \A x \in all(t) : \E y \in all(s) : y.of.spec = x.of.spec /\ y.c = x.c
  <2> HIDE DEF pods
  <2> QED
    BY <1>2, ContainersStandFor
<1>4. noAutomount(t) = noAutomount(s)
  <2>1. All(t, "ServiceAccount") = All(s, "ServiceAccount")
    BY DEF Deploys, redeployed
  <2> QED
    BY <2>1, Zenon
<1> HIDE DEF pods, all, noAutomount
<1>5. noSeccomp(t) # {} => noSeccomp(s) # {}
  BY <1>2 DEF samePod
<1>6. writable(t) # {} => writable(s) # {}
  BY <1>3
<1>7. mounting(t) # {} => mounting(s) # {}
  BY <1>2, <1>4 DEF samePod
<1>8. receiving(t) # {} => receiving(s) # {}
  BY <1>3
<1>9. /\ IsFiniteSet(noSeccomp(s)) /\ IsFiniteSet(noSeccomp(t))
      /\ IsFiniteSet(writable(s)) /\ IsFiniteSet(writable(t))
      /\ IsFiniteSet(mounting(s)) /\ IsFiniteSet(mounting(t))
      /\ IsFiniteSet(receiving(s)) /\ IsFiniteSet(receiving(t))
  BY <1>2, SubsetIsFinite
<1> HIDE DEF noSeccomp, writable, mounting, receiving
<1>10. /\ Foretold(A(t), A(s)) /\ Foretold(B(t), B(s))
       /\ Foretold(C(t), C(s)) /\ Foretold(D(t), D(s))
  BY <1>5, <1>6, <1>7, <1>8, <1>9, CountForetold
<1>11. QED
  <2> HIDE DEF A, B, C, D
  <2>1. Foretold(A(t) \cup B(t), A(s) \cup B(s)) /\ Foretold(C(t) \cup D(t), C(s) \cup D(s))
    BY <1>10, TogetherForetold
  <2> QED
    BY <1>1, <2>1, TogetherForetold

LEMMA SecurityFindingsForetold ==
    ASSUME NEW s, IsSnapshot(s), NEW t, IsSnapshot(t), Deploys(s, t), NEW covered
    PROVE  Foretold(securityFindings(t, covered), securityFindings(s, covered))
<1> DEFINE others(u) == (networkPolicyFindings(u, covered) \cup pssLabelFindings(u, covered))
                          \cup rbacFindings(u)
<1>1. \A u : securityFindings(u, covered) =
        (podSecurityFindings(u, covered) \cup hardeningFindings(u, covered)) \cup others(u)
  <2>1. \A u : securityFindings(u, covered) =
          UNION {podSecurityFindings(u, covered), networkPolicyFindings(u, covered),
                 hardeningFindings(u, covered), pssLabelFindings(u, covered),
                 rbacFindings(u)}
    BY Zenon DEF securityFindings
  <2> QED
    BY <2>1
<1>2. others(t) = others(s)
  <2>1. /\ All(t, "Namespace") = All(s, "Namespace")
        /\ All(t, "ClusterRole") = All(s, "ClusterRole")
        /\ All(t, "ClusterRoleBinding") = All(s, "ClusterRoleBinding")
    BY DEF Deploys, redeployed
  <2>2. pssLabelFindings(t, covered) = pssLabelFindings(s, covered)
    BY <2>1, Zenon DEF pssLabelFindings
  <2>3. rbacFindings(t) = rbacFindings(s)
    BY <2>1, Zenon DEF rbacFindings
  <2>4. \A ns : /\ In(t, "NetworkPolicy", ns) = In(s, "NetworkPolicy", ns)
                /\ namespaceHasPods(t, ns) <=> namespaceHasPods(s, ns)
    <3>1. \A ns : In(t, "NetworkPolicy", ns) = In(s, "NetworkPolicy", ns)
      BY DeployedLists DEF redeployed
    <3>2. \A ns : namespaceHasPods(t, ns) <=> namespaceHasPods(s, ns)
      BY DeployedPods DEF namespaceHasPods
    <3> QED
      BY <3>1, <3>2
  <2>5. networkPolicyFindings(t, covered) = networkPolicyFindings(s, covered)
    BY <2>4, NetworkPoliciesRead
  <2> QED
    BY <2>2, <2>3, <2>5
<1> HIDE DEF others
<1>3. Foretold(others(t), others(s))
  BY <1>2, SameIsForetold
<1>4. Foretold(podSecurityFindings(t, covered) \cup hardeningFindings(t, covered),
               podSecurityFindings(s, covered) \cup hardeningFindings(s, covered))
  BY PodSecurityForetold, HardeningForetold, TogetherForetold
<1>5. QED
  BY <1>1, <1>3, <1>4, TogetherForetold

\* The severity of the summary apart, each finding of the section is foretold.
tells(g, f) == g.message = f.message /\ g.object = f.object /\ f.shown \subseteq g.shown

LEMMA SecurityTold ==
    ASSUME NEW s, IsSnapshot(s), NEW t, IsSnapshot(t), Deploys(s, t), NEW covered,
           NEW f \in Security(t, covered)
    PROVE  \E g \in Security(s, covered) : tells(g, f)
<1> DEFINE found(u) == securityFindings(u, covered)
           failing(fs) == pssControls \cap failingControls(fs)
           told(fs) == {c[2] : c \in failing(fs)}
           severity(fs) == IF failing(fs) = {} THEN Ok ELSE Info
<1>1. Foretold(found(t), found(s))
  BY SecurityFindingsForetold
<1>2. \A u : Security(u, covered) = found(u) \cup {complianceSummary(found(u))}
  BY SecurityIs
<1> HIDE DEF found
<1>3. CASE f \in found(t)
  <2>1. PICK g \in found(s) : foretells(g, f)
    BY <1>1, <1>3 DEF Foretold
  <2> QED
    BY <1>2, <2>1 DEF foretells, tells
<1>4. CASE f = complianceSummary(found(t))
  <2>1. failingControls(found(t)) \subseteq failingControls(found(s))
    <3>1. \A fs : failingControls(fs) = UNION {x.controls : x \in {x \in fs : x.severity >= Warning}}
      BY Zenon DEF failingControls
    <3>2. \A x \in found(t) : \E g \in found(s) : g.severity = x.severity /\ g.controls = x.controls
      BY <1>1 DEF Foretold, foretells
    <3> QED
      BY <3>1, <3>2
  <2>2. told(found(t)) \subseteq told(found(s))
    BY <2>1
  <2>3. \A fs : complianceSummary(fs) =
                  Finding(severity(fs), "Pod Security Standards", 0, told(fs), 0, <<>>, pssControls)
    BY Zenon DEF complianceSummary
  <2> HIDE DEF told, severity
  <2>4. tells(complianceSummary(found(s)), f)
    BY <1>4, <2>2, <2>3 DEF tells, Finding
  <2> QED
    BY <1>2, <2>4
<1>5. QED
  BY <1>2, <1>3, <1>4
-----------------------------------------------------------------------------
\* The certificates and deprecations sections.

\* Of finitely many ranks one is the least.
LEMMA LeastExists ==
    ASSUME NEW S, IsFiniteSet(S), S # {}, NEW f, \A x \in S : f[x] \in Int
    PROVE  \E m \in S : \A x \in S : f[m] <= f[x]
<1> DEFINE Bad == {T \in SUBSET S : T # {} /\ ~ \E m \in T : \A x \in T : f[m] <= f[x]}
<1>1. Bad = {}
  <2> SUFFICES ASSUME Bad # {} PROVE FALSE
    OBVIOUS
  <2>1. PICK T \in Bad : \A U \in Bad : ~ (U \subseteq T /\ U # T)
    <3> Bad \subseteq SUBSET S
      OBVIOUS
    <3> HIDE DEF Bad
    <3> QED
      BY SmallestSubset
  <2>2. PICK x \in T : TRUE
    OBVIOUS
  <2>3. T \ {x} \notin Bad /\ T \ {x} \in SUBSET S
    BY <2>1, <2>2, Zenon
  <2>4. CASE T \ {x} = {}
    <3>1. \A y \in T : y = x
      BY <2>4
    <3> QED
      BY <2>2, <3>1
  <2>5. CASE T \ {x} # {}
    <3>1. PICK m \in T \ {x} : \A y \in T \ {x} : f[m] <= f[y]
      BY <2>3, <2>5
    <3> QED
      BY <3>1, <2>2
  <2> QED
    BY <2>4, <2>5
<1>2. QED
  BY <1>1

Ranked(users) == IsFiniteSet(users) /\ \A o \in users : Rank(o.name) \in Nat

LEMMA FirstIsOne ==
    ASSUME NEW users, Ranked(users), users # {}
    PROVE  firstReference(users) \in users
<1> DEFINE ingresses == {o \in users : o.kind = "Ingress"}
           candidates == IF ingresses # {} THEN ingresses ELSE users
           f == [o \in candidates |-> Rank(o.name)]
<1>1. candidates \subseteq users /\ candidates # {}
  OBVIOUS
<1>2. firstReference(users) =
        CHOOSE o \in candidates : \A u \in candidates : Rank(o.name) <= Rank(u.name)
  BY Zenon DEF firstReference
<1> HIDE DEF candidates
<1>3. IsFiniteSet(candidates) /\ \A o \in candidates : f[o] \in Int /\ f[o] = Rank(o.name)
  BY <1>1, SubsetIsFinite DEF Ranked
<1> HIDE DEF f
<1>4. \E m \in candidates : \A u \in candidates : f[m] <= f[u]
  BY <1>1, <1>3, LeastExists
<1>5. \E o \in candidates : \A u \in candidates : Rank(o.name) <= Rank(u.name)
  BY <1>3, <1>4
<1>6. firstReference(users) \in candidates
  BY <1>2, <1>5, Zenon
<1>7. QED
  BY <1>1, <1>6

\* What is said of a TLS Secret once deployed was said before, or is that the
\* Secret is not there.
LEMMA AboutTLSTold ==
    ASSUME NEW s, NEW t, Deploys(s, t), t.HasSecretAccess \in BOOLEAN, NEW covered,
           Ranked(tlsUsers(s, covered)), NEW key \in tlsKeys(s, covered),
           NEW f \in aboutTLS(t, covered, key)
    PROVE  f.message \in missingTLS \/ f \in aboutTLS(s, covered, key)
<1> DEFINE users(u) == {o \in tlsUsers(u, covered) : o.ns = key[1] /\ key[2] \in tlsNames(o)}
           leaves(u) == {o \in secretsOf(u, key) : o.leaf}
           expiring(u) == UNION {expiryFinding(o) : o \in leaves(u)}
           missing(u) == missingTLSFinding(firstReference(users(u)), key[2])
<1>1. \A u : aboutTLS(u, covered, key) =
        CASE secretsOf(u, key) = {} /\ u.HasSecretAccess -> {missing(u)}
          [] secretsOf(u, key) = {} /\ ~u.HasSecretAccess -> {}
          [] secretsOf(u, key) # {} -> expiring(u)
  BY Zenon DEF aboutTLS, secretsOf
<1>2. tlsUsers(t, covered) = tlsUsers(s, covered)
  <2>1. All(t, "Ingress") = All(s, "Ingress") /\ All(t, "Gateway") = All(s, "Gateway")
    BY DEF Deploys, redeployed
  <2> QED
    BY <2>1, Zenon DEF tlsUsers
<1>3. \A u : secretsOf(u, key) = {o \in All(u, "Secret") : o.ns = key[1] /\ o.name = key[2]}
  BY DEF secretsOf, In, All
<1>4. CASE secretsOf(t, key) = {}
  <2>1. f = missing(t)
    <3> HIDE DEF missing, expiring
    <3> QED
      BY <1>1, <1>4
  <2>2. users(t) # {} /\ Ranked(users(t))
    <3>1. PICK o \in tlsUsers(s, covered) : \E n \in tlsNames(o) : key = <<o.ns, n>>
      BY DEF tlsKeys
    <3>2. o \in users(t)
      BY <1>2, <3>1
    <3>3. users(t) \subseteq tlsUsers(s, covered)
      BY <1>2
    <3> HIDE DEF users
    <3> QED
      BY <3>2, <3>3, SubsetIsFinite DEF Ranked
  <2> DEFINE o == firstReference(users(t))
  <2>3. o \in users(t)
    <3> HIDE DEF users
    <3> QED
      BY <2>2, FirstIsOne
  <2>4. o.kind \in {"Ingress", "Gateway"}
    BY <2>3 DEF tlsUsers, All
  <2>5. f.message = o.kind \o " references missing TLS secret"
    <3> HIDE DEF o
    <3> QED
      BY <2>1 DEF o, missingTLSFinding, Finding
  <2> HIDE DEF o
  <2> QED
    BY <2>4, <2>5 DEF missingTLS
<1>5. CASE secretsOf(t, key) # {}
  <2>1. f \in expiring(t)
    <3> HIDE DEF missing, expiring
    <3> QED
      BY <1>1, <1>5
  <2>2. PICK x \in leaves(t) : f \in expiryFinding(x)
    <3> HIDE DEF leaves
    <3> QED
      BY <2>1
  <2>3. PICK y \in All(s, "Secret") : sameSecret(x, y) /\ (x.leaf => y.leaf)
    BY <1>3, <2>2 DEF Deploys
  <2>4. y.ns = x.ns /\ y.name = x.name /\ y.left = x.left /\ y.leaf
    BY <2>2, <2>3 DEF sameSecret
  <2>5. y \in leaves(s)
    BY <1>3, <2>2, <2>3, <2>4
  <2>6. expiryFinding(y) = expiryFinding(x)
    BY <2>4, Zenon DEF expiryFinding
  <2>7. f \in expiring(s) /\ secretsOf(s, key) # {}
    BY <2>2, <2>5, <2>6
  <2> HIDE DEF missing, expiring
  <2> QED
    BY <1>1, <2>7
<1>6. QED
  BY <1>4, <1>5

LEMMA CertificatesTold ==
    ASSUME NEW s, NEW t, Deploys(s, t), t.HasSecretAccess \in BOOLEAN, NEW covered,
           Ranked(tlsUsers(s, covered)), NEW f \in Certificates(t, covered)
    PROVE  f.message \in missingTLS \/ f \in Certificates(s, covered)
<1>1. \A u : Certificates(u, covered) = tlsFindings(u, covered) \cup notReady(u, covered)
  BY CertificatesAre
<1>2. notReady(t, covered) = notReady(s, covered)
  <2>1. All(t, "Certificate") = All(s, "Certificate")
    BY DEF Deploys, redeployed
  <2> QED
    BY <2>1, Zenon DEF notReady
<1>3. tlsKeys(t, covered) = tlsKeys(s, covered)
  <2>1. All(t, "Ingress") = All(s, "Ingress") /\ All(t, "Gateway") = All(s, "Gateway")
    BY DEF Deploys, redeployed
  <2>2. tlsUsers(t, covered) = tlsUsers(s, covered)
    BY <2>1, Zenon DEF tlsUsers
  <2> QED
    BY <2>2, Zenon DEF tlsKeys
<1>4. CASE f \in tlsFindings(t, covered)
  <2>1. PICK key \in tlsKeys(s, covered) : f \in aboutTLS(t, covered, key)
    BY <1>3, <1>4, TlsFindingsAre
  <2>2. f.message \in missingTLS \/ f \in aboutTLS(s, covered, key)
    BY <2>1, AboutTLSTold
  <2>3. f \in aboutTLS(s, covered, key) => f \in tlsFindings(s, covered)
    BY TlsFindingsAre
  <2> QED
    BY <1>1, <2>2, <2>3
<1>5. QED
  BY <1>1, <1>2, <1>4

LEMMA DeployedDeprecations ==
    ASSUME NEW s, NEW t, Deploys(s, t), NEW covered
    PROVE  Deprecations(t, covered) = Deprecations(s, covered)
<1>1. \A kind \in versionedKinds : All(t, kind) = All(s, kind)
  BY DEF versionedKinds, Deploys, redeployed
<1>2. All(t, "Version") = All(s, "Version")
  BY DEF Deploys, redeployed
<1>3. clusterMinor(t) = clusterMinor(s)
  BY <1>2, Zenon DEF clusterMinor
<1>4. \A kind \in versionedKinds :
         /\ \A x \in All(t, kind) : \E y \in All(s, kind) : sameAPIs(x, y)
         /\ \A y \in All(s, kind) : \E x \in All(t, kind) : sameAPIs(x, y)
  BY <1>1 DEF sameAPIs
<1>5. QED
  BY <1>3, <1>4, DeprecationsRead
-----------------------------------------------------------------------------
(***************************************************************************)
(* What manifests leave out to the API server, and the status they do not  *)
(* have.                                                                   *)
(***************************************************************************)
mayOmit(o) == \/ o.kind \in {"Deployment", "StatefulSet"} /\ o.replicas = 1
              \/ o.kind = "Secret" /\ o.leaf

filledIn == {"replicas", "leaf", "bound"}

partial == {"Deployment", "StatefulSet", "Secret", "PVC"}

\* Only what the API server fills in tells an object from what is declared of it.
LEMMA DeclaredFields ==
    ASSUME NEW o, IsObject(o), NEW omitted
    PROVE  /\ DOMAIN declared(o, omitted) = DOMAIN o
           /\ \A field \in DOMAIN o \ filledIn : declared(o, omitted)[field] = o[field]
           /\ declared(o, omitted).kind = o.kind
           /\ declared(o, omitted).ns = o.ns
           /\ declared(o, omitted).name = o.name
           /\ o.kind = "PVC" => ~declared(o, omitted).bound
           /\ o \in omitted /\ "replicas" \in DOMAIN o =>
                declared(o, omitted).replicas = NoReplicas
           /\ o \notin omitted /\ o.kind # "PVC" => declared(o, omitted) = o
<1> DEFINE value(field) ==
             CASE field = "bound" -> FALSE
               [] field = "replicas" /\ o \in omitted -> NoReplicas
               [] field = "leaf" /\ o \in omitted -> FALSE
               [] OTHER -> o[field]
           d == [field \in DOMAIN o |-> value(field)]
<1>1. declared(o, omitted) = d
  BY Zenon DEF declared
<1>2. IsRecord(o) /\ {"kind", "ns", "name"} \subseteq DOMAIN o
  BY DEF IsObject
<1>3. "bound" \in DOMAIN o <=> o.kind = "PVC"
  BY Zenon DEF IsObject
<1>4. DOMAIN d = DOMAIN o /\ \A field \in DOMAIN o : d[field] = value(field)
  <2> HIDE DEF value
  <2> QED
    OBVIOUS
<1>5. \A field \in DOMAIN o \ filledIn : value(field) = o[field]
  BY DEF filledIn
<1>6. value("bound") = FALSE
  OBVIOUS
<1>7. o \in omitted => value("replicas") = NoReplicas
  OBVIOUS
<1>8. ASSUME o \notin omitted, o.kind # "PVC" PROVE d = o
  <2>1. \A field \in DOMAIN o : value(field) = o[field]
    BY <1>3, <1>8
  <2> HIDE DEF value
  <2>2. d = [field \in DOMAIN o |-> o[field]]
    BY <2>1
  <2> QED
    BY <1>2, <2>2 DEF IsRecord
<1>9. {"kind", "ns", "name"} \cap filledIn = {}
  BY DEF filledIn
<1> HIDE DEF d, value
<1>10. d.kind = o.kind /\ d.ns = o.ns /\ d.name = o.name
  BY <1>2, <1>4, <1>5, <1>9
<1>11. o.kind = "PVC" => ~d.bound
  BY <1>3, <1>4, <1>6
<1>12. o \in omitted /\ "replicas" \in DOMAIN o => d.replicas = NoReplicas
  BY <1>4, <1>7
<1>13. \A field \in DOMAIN o \ filledIn : d[field] = o[field]
  BY <1>4, <1>5
<1>14. QED
  BY <1>1, <1>4, <1>8, <1>10, <1>11, <1>12, <1>13

LEMMA DeclaredIsObject ==
    ASSUME NEW o, IsObject(o), NEW omitted, \A p \in omitted : mayOmit(p)
    PROVE  /\ IsObject(declared(o, omitted))
           /\ o.kind \notin partial => declared(o, omitted) = o
           /\ o.kind \in podKinds =>
                /\ declared(o, omitted).spec = o.spec
                /\ declared(o, omitted).labels = o.labels
           /\ "apis" \in DOMAIN o => declared(o, omitted).apis = o.apis
<1> DEFINE d == declared(o, omitted)
<1>1. /\ DOMAIN d = DOMAIN o
      /\ \A field \in DOMAIN o \ filledIn : d[field] = o[field]
      /\ d.kind = o.kind /\ d.ns = o.ns
      /\ o \in omitted /\ "replicas" \in DOMAIN o => d.replicas = NoReplicas
      /\ o \notin omitted /\ o.kind # "PVC" => d = o
  BY DeclaredFields
<1>2. d = [field \in DOMAIN o |-> d[field]]
  BY Zenon DEF declared
<1> HIDE DEF d
<1>3. ASSUME o.kind \notin partial PROVE d = o
  <2>1. o \notin omitted
    BY <1>3 DEF mayOmit, partial
  <2> QED
    BY <1>1, <1>3, <2>1 DEF partial
<1>4. o.kind \in podKinds => {"spec", "labels"} \subseteq DOMAIN o /\ IsPodSpec(o.spec)
  BY Zenon DEF IsObject
<1>5. o.kind \in podKinds => d.spec = o.spec /\ d.labels = o.labels
  <2>1. {"spec", "labels"} \cap filledIn = {}
    BY DEF filledIn
  <2> QED
    BY <1>1, <1>4, <2>1
<1>6. "apis" \in DOMAIN o => d.apis = o.apis
  BY <1>1 DEF filledIn
<1>7. ASSUME o.kind \in partial PROVE IsObject(d)
  <2>1. IsRecord(d)
    BY <1>1, <1>2 DEF IsRecord
  <2>2. /\ {"kind", "ns", "name"} \subseteq DOMAIN d
        /\ d.ns = "" <=> d.kind \in unscoped
        /\ "spec" \in DOMAIN d <=> d.kind \in podKinds
    BY <1>1, Zenon DEF IsObject
  <2>3. d.kind \in podKinds => "labels" \in DOMAIN d /\ IsPodSpec(d.spec)
    BY <1>1, <1>4, <1>5
  <2>4. d.kind \in {"Deployment", "StatefulSet", "DaemonSet"} =>
          {"selects", "selector", "apis"} \subseteq DOMAIN d
    BY <1>1, Zenon DEF IsObject
  <2>5. "bound" \in DOMAIN d <=> d.kind = "PVC"
    BY <1>1, Zenon DEF IsObject
  <2>6. d.kind \in {"Deployment", "StatefulSet"} =>
          "replicas" \in DOMAIN d /\ d.replicas \in Nat \cup {NoReplicas}
    <3> SUFFICES ASSUME o.kind \in {"Deployment", "StatefulSet"}
                 PROVE  "replicas" \in DOMAIN d /\ d.replicas \in Nat \cup {NoReplicas}
      BY <1>1
    <3>1. "replicas" \in DOMAIN o /\ o.replicas \in Nat \cup {NoReplicas}
      BY Zenon DEF IsObject
    <3>2. o \notin omitted => d = o
      BY <1>1
    <3> QED
      BY <1>1, <3>1, <3>2
  <2>7. d.kind = "Secret" => {"type", "leaf", "left"} \subseteq DOMAIN d /\ d.left \in Int
    <3> SUFFICES ASSUME o.kind = "Secret"
                 PROVE  {"type", "leaf", "left"} \subseteq DOMAIN d /\ d.left \in Int
      BY <1>1
    <3>1. {"type", "leaf", "left"} \subseteq DOMAIN o /\ o.left \in Int
      BY DEF IsObject
    <3> QED
      BY <1>1, <3>1 DEF filledIn
  <2>8. d.kind \notin {"Pod", "PDB", "Ingress", "Gateway", "HTTPRoute",
                       "ClusterRoleBinding", "PolicyReport", "Constraint", "Usage"}
    BY <1>1, <1>7 DEF partial
  <2> QED
    BY <2>1, <2>2, <2>3, <2>4, <2>5, <2>6, <2>7, <2>8 DEF IsObject
<1>8. QED
  BY <1>3, <1>5, <1>6, <1>7 DEF d

\* s lists what is declared of the objects of t, in which every number of replicas is
\* filled in; no two Deployments of t have the same name.
Omits(s, t, omitted) ==
    /\ IsSnapshot(s) /\ IsSnapshot(t)
    /\ s.objects = {declared(o, omitted) : o \in t.objects}
    /\ \A o \in omitted : mayOmit(o)
    /\ \A o \in t.objects : o.kind \in {"Deployment", "StatefulSet"} => o.replicas # NoReplicas
    /\ \A o, p \in All(t, "Deployment") : o.ns = p.ns /\ o.name = p.name => o = p
    /\ s.HasSecretAccess = FALSE /\ t.HasSecretAccess = FALSE

\* Both ways, for the objects of a kind in a namespace.
LEMMA DeclaredOf ==
    ASSUME NEW s, NEW t, NEW omitted, Omits(s, t, omitted), NEW kind, NEW ns
    PROVE  /\ \A o \in In(t, kind, ns) : declared(o, omitted) \in In(s, kind, ns)
           /\ \A d \in In(s, kind, ns) : \E o \in In(t, kind, ns) : d = declared(o, omitted)
           /\ \A o \in All(t, kind) : declared(o, omitted) \in All(s, kind)
           /\ \A d \in All(s, kind) : \E o \in All(t, kind) : d = declared(o, omitted)
           /\ \A o \in All(t, kind) : IsObject(o) /\ o.kind = kind
<1>1. \A o \in t.objects : IsObject(o)
  BY DEF Omits, IsSnapshot
<1>2. \A o \in t.objects : declared(o, omitted).kind = o.kind /\ declared(o, omitted).ns = o.ns
  BY <1>1, DeclaredFields
<1>3. s.objects = {declared(o, omitted) : o \in t.objects}
  BY DEF Omits
<1>4. QED
  BY <1>1, <1>2, <1>3 DEF In, All

\* What no manifest leaves anything out of is listed by both, and so are all names.
LEMMA DeclaredLists ==
    ASSUME NEW s, NEW t, NEW omitted, Omits(s, t, omitted)
    PROVE  /\ \A kind : kind \notin partial => All(s, kind) = All(t, kind)
           /\ \A kind, ns : kind \notin partial => In(s, kind, ns) = In(t, kind, ns)
           /\ \A kind, ns : names(In(s, kind, ns)) = names(In(t, kind, ns))
<1>1. \A o : IsObject(o) /\ o.kind \notin partial => declared(o, omitted) = o
  BY DeclaredIsObject DEF Omits
<1>2. \A o : IsObject(o) => declared(o, omitted).name = o.name
  BY DeclaredFields
<1>3. ASSUME NEW kind, kind \notin partial PROVE All(s, kind) = All(t, kind)
  <2>1. /\ \A o \in All(t, kind) : declared(o, omitted) \in All(s, kind)
        /\ \A d \in All(s, kind) : \E o \in All(t, kind) : d = declared(o, omitted)
        /\ \A o \in All(t, kind) : IsObject(o) /\ o.kind = kind
    BY DeclaredOf
  <2>2. \A o \in All(t, kind) : declared(o, omitted) = o
    BY <1>1, <1>3, <2>1
  <2> QED
    BY <2>1, <2>2
<1>4. ASSUME NEW kind, NEW ns, kind \notin partial PROVE In(s, kind, ns) = In(t, kind, ns)
  <2>1. \A u : In(u, kind, ns) = {o \in All(u, kind) : o.ns = ns}
    BY DEF In, All
  <2> QED
    BY <1>3, <1>4, <2>1
<1>5. ASSUME NEW kind, NEW ns PROVE names(In(s, kind, ns)) = names(In(t, kind, ns))
  <2>1. /\ \A o \in In(t, kind, ns) : declared(o, omitted) \in In(s, kind, ns)
        /\ \A d \in In(s, kind, ns) : \E o \in In(t, kind, ns) : d = declared(o, omitted)
        /\ \A o \in All(t, kind) : IsObject(o)
    BY DeclaredOf
  <2>2. In(t, kind, ns) \subseteq All(t, kind)
    BY DEF In, All
  <2>3. \A o \in In(t, kind, ns) : declared(o, omitted).name = o.name
    BY <1>2, <2>1, <2>2
  <2> QED
    BY <2>1, <2>3 DEF names
<1>6. QED
  BY <1>3, <1>4, <1>5

\* Workloads keep their templates.
LEMMA DeclaredWorkloads ==
    ASSUME NEW s, NEW t, NEW omitted, Omits(s, t, omitted), NEW ns
    PROVE  /\ \A w \in workloads(t, ns) : \E v \in workloads(s, ns) :
                 samePod(w, v) /\ v.kind = w.kind /\ v.name = w.name
           /\ \A v \in workloads(s, ns) : \E w \in workloads(t, ns) :
                 samePod(v, w) /\ v.kind = w.kind /\ v.name = w.name
<1> DEFINE kinds == {"Deployment", "StatefulSet", "DaemonSet", "CronJob"}
<1>1. \A u : workloads(u, ns) = UNION {In(u, kind, ns) : kind \in kinds}
  BY DEF workloads
<1>2. kinds \subseteq podKinds
  BY DEF podKinds
<1>3. ASSUME NEW o, IsObject(o), o.kind \in kinds
      PROVE  LET d == declared(o, omitted)
             IN /\ samePod(o, d) /\ samePod(d, o) /\ d.kind = o.kind /\ d.name = o.name
  <2> DEFINE d == declared(o, omitted)
  <2>1. d.kind = o.kind /\ d.ns = o.ns /\ d.name = o.name
    BY <1>3, DeclaredFields
  <2>2. d.spec = o.spec /\ d.labels = o.labels
    BY <1>2, <1>3, DeclaredIsObject DEF Omits
  <2> HIDE DEF d
  <2>3. samePod(o, d) /\ samePod(d, o) /\ d.kind = o.kind /\ d.name = o.name
    BY <2>1, <2>2 DEF samePod
  <2> QED
    BY <2>3, Zenon DEF d
<1> HIDE DEF kinds
<1>4. ASSUME NEW w \in workloads(t, ns)
      PROVE  \E v \in workloads(s, ns) : samePod(w, v) /\ v.kind = w.kind /\ v.name = w.name
  <2>1. PICK kind \in kinds : w \in In(t, kind, ns)
    BY <1>1
  <2>2. w \in All(t, kind)
    BY <2>1 DEF In, All
  <2>3. IsObject(w) /\ w.kind \in kinds /\ declared(w, omitted) \in In(s, kind, ns)
    BY <2>1, <2>2, DeclaredOf
  <2>4. declared(w, omitted) \in workloads(s, ns)
    BY <1>1, <2>3
  <2> QED
    BY <1>3, <2>3, <2>4
<1>5. ASSUME NEW v \in workloads(s, ns)
      PROVE  \E w \in workloads(t, ns) : samePod(v, w) /\ v.kind = w.kind /\ v.name = w.name
  <2>1. PICK kind \in kinds : v \in In(s, kind, ns)
    BY <1>1
  <2>2. PICK w \in In(t, kind, ns) : v = declared(w, omitted)
    BY <2>1, DeclaredOf
  <2>3. w \in All(t, kind)
    BY <2>2 DEF In, All
  <2>4. IsObject(w) /\ w.kind \in kinds
    BY <2>3, DeclaredOf
  <2>5. w \in workloads(t, ns)
    BY <1>1, <2>2
  <2> QED
    BY <1>3, <2>2, <2>4, <2>5
<1>6. QED
  BY <1>4, <1>5

\* The checks that do not read replicas, and the one that reads them where they are
\* two at least.
LEMMA DeclaredChecks ==
    ASSUME NEW s, NEW t, NEW omitted, Omits(s, t, omitted), NEW ns
    PROVE  /\ resourceFindings(s, ns) = resourceFindings(t, ns)
           /\ healthFindings(s, ns) = healthFindings(t, ns)
           /\ imageFindings(s, ns) = imageFindings(t, ns)
           /\ disruptionFindings(s, ns) = disruptionFindings(t, ns)
<1>1. In(s, "Pod", ns) = In(t, "Pod", ns) /\ In(s, "PDB", ns) = In(t, "PDB", ns)
  BY DeclaredLists DEF partial
<1>2. /\ resourceFindings(s, ns) = resourceFindings(t, ns)
      /\ healthFindings(s, ns) = healthFindings(t, ns)
  BY <1>1, PodChecksRead
<1>3. imageFindings(s, ns) = imageFindings(t, ns)
  <2> DEFINE message(w) == About(Warning, "uses :latest tag", <<w.kind, w.name>>)
             latest(u) == {w \in workloads(u, ns) : \E c \in w.spec.containers : isLatestImage(c)}
  <2>1. \A u : imageFindings(u, ns) = {message(w) : w \in latest(u)}
    BY Zenon DEF imageFindings
  <2>2. \A v, w : v.kind = w.kind /\ v.name = w.name => message(v) = message(w)
    OBVIOUS
  <2> HIDE DEF message
  <2>3. \A w \in latest(t) : \E v \in latest(s) : v.kind = w.kind /\ v.name = w.name
    BY DeclaredWorkloads DEF samePod
  <2>4. \A v \in latest(s) : \E w \in latest(t) : v.kind = w.kind /\ v.name = w.name
    BY DeclaredWorkloads DEF samePod
  <2> HIDE DEF latest
  <2>5. \A w \in latest(t) : \E v \in latest(s) : message(v) = message(w)
    BY <2>2, <2>3
  <2>6. \A v \in latest(s) : \E w \in latest(t) : message(v) = message(w)
    BY <2>2, <2>4
  <2>7. {message(w) : w \in latest(t)} = {message(w) : w \in latest(s)}
    BY <2>5, <2>6
  <2> QED
    BY <2>1, <2>7
<1>4. multiReplica(s, ns) = multiReplica(t, ns)
  <2> DEFINE scaled(u) == In(u, "Deployment", ns) \cup In(u, "StatefulSet", ns)
             several(w) == w.replicas # NoReplicas /\ w.replicas >= 2
  <2>1. \A u : multiReplica(u, ns) = {w \in scaled(u) : several(w)}
    BY DEF multiReplica
  <2>2. ASSUME NEW o \in scaled(t)
        PROVE  /\ o.kind # "PVC" /\ IsObject(o) /\ "replicas" \in DOMAIN o
               /\ declared(o, omitted) \in scaled(s)
    <3>1. o \in All(t, "Deployment") \/ o \in All(t, "StatefulSet")
      BY DEF In, All
    <3>2. IsObject(o) /\ o.kind \in {"Deployment", "StatefulSet"}
      BY <3>1, DeclaredOf
    <3>3. declared(o, omitted) \in scaled(s)
      BY DeclaredOf
    <3>4. "replicas" \in DOMAIN o
      BY <3>2, Zenon DEF IsObject
    <3> QED
      BY <3>2, <3>3, <3>4
  <2>3. ASSUME NEW d \in scaled(s) PROVE \E o \in scaled(t) : d = declared(o, omitted)
    BY DeclaredOf
  <2> HIDE DEF scaled
  <2>4. ASSUME NEW o \in scaled(t)
        PROVE  /\ o \notin omitted => declared(o, omitted) = o
               /\ o \in omitted => declared(o, omitted).replicas = NoReplicas
    BY <2>2, <2>4, DeclaredFields
  <2>5. \A o \in scaled(t) : o \in omitted => o.replicas = 1
    <3>1. \A o \in scaled(t) : o.kind # "Secret"
      BY DEF scaled, In
    <3> QED
      BY <3>1 DEF Omits, mayOmit
  <2>6. {w \in scaled(s) : several(w)} = {w \in scaled(t) : several(w)}
    BY <2>2, <2>3, <2>4, <2>5
  <2> QED
    BY <2>1, <2>6
<1>5. disruptionFindings(s, ns) = disruptionFindings(t, ns)
  BY <1>1, <1>4, Zenon DEF disruptionFindings
<1>6. QED
  BY <1>2, <1>3, <1>5

LEMMA DeclaredProbes ==
    ASSUME NEW s, NEW t, NEW omitted, Omits(s, t, omitted), NEW ns
    PROVE  Foretold(probeFindings(t, ns), probeFindings(s, ns))
<1> DEFINE servants(u) == {w \in workloads(u, ns) : w.kind # "CronJob"}
           serving(u) == containersOf(servants(u))
           unready(u) == {x \in serving(u) : ~x.c.readiness /\ ~x.c.startup}
           unchecked(u) == {x \in serving(u) : ~x.c.liveness}
           A(u) == Tagged(Warning, "without readiness or startup probes",
                          Cardinality(unready(u)), {})
           B(u) == Tagged(Info, "without liveness probes", Cardinality(unchecked(u)), {})
<1>1. \A u : probeFindings(u, ns) = A(u) \cup B(u)
  BY Zenon DEF probeFindings, Counted
<1>2. \A w \in servants(t) : \E v \in servants(s) : samePod(w, v)
  BY DeclaredWorkloads
<1>3. \A x \in serving(t) : \E y \in serving(s) : y.of.spec = x.of.spec /\ y.c = x.c
  <2> HIDE DEF servants
  <2> QED
    BY <1>2, ContainersStandFor
<1>4. ASSUME NEW u, IsSnapshot(u) PROVE IsFiniteSet(serving(u))
  <2>1. /\ IsFiniteSet(workloads(u, ns))
        /\ \A w \in workloads(u, ns) : IsObject(w) /\ w.kind \in podKinds
    BY <1>4, WorkloadsAreFinite
  <2>2. servants(u) \subseteq workloads(u, ns)
    OBVIOUS
  <2> HIDE DEF servants
  <2> QED
    BY <2>1, <2>2, SubsetIsFinite, ContainersAreFinite
<1> HIDE DEF servants, serving
<1>5. /\ unready(t) # {} => unready(s) # {}
      /\ unchecked(t) # {} => unchecked(s) # {}
  BY <1>3
<1>6. /\ IsFiniteSet(unready(s)) /\ IsFiniteSet(unready(t))
      /\ IsFiniteSet(unchecked(s)) /\ IsFiniteSet(unchecked(t))
  BY <1>4, SubsetIsFinite DEF Omits
<1> HIDE DEF unready, unchecked
<1>7. Foretold(A(t), A(s)) /\ Foretold(B(t), B(s))
  BY <1>5, <1>6, CountForetold
<1>8. QED
  <2> HIDE DEF A, B
  <2> QED
    BY <1>1, <1>7, TogetherForetold

\* A finding about the Deployments of a single replica, where some leave that out.
ofFilledReplicas(f, omitted, ns) ==
    /\ f.message = "single-replica Deployments"
    /\ \E o \in omitted : o.kind = "Deployment" /\ o.ns = ns

LEMMA DeclaredAvailability ==
    ASSUME NEW s, NEW t, NEW omitted, Omits(s, t, omitted), NEW ns,
           NEW f \in availabilityFindings(t, ns)
    PROVE  f \in availabilityFindings(s, ns) \/ ofFilledReplicas(f, omitted, ns)
<1> DEFINE deployments(u) == In(u, "Deployment", ns)
           single(u) == names({d \in deployments(u) :
                                 d.replicas # NoReplicas /\ d.replicas = 1})
           noHPA(u) == names({d \in deployments(u) :
                         ~\E h \in In(u, "HPA", ns) : h.target = <<"Deployment", d.name>>})
           A(u) == Listed(Info, "single-replica Deployments", single(u), 4)
           B(none, n) == IF none = {} THEN {}
                         ELSE IF n > 1
                         THEN {Named(Info, "Missing HorizontalPodAutoscaler for", 0, none, 4)}
                         ELSE {Plain(Info, "Missing HorizontalPodAutoscaler")}
<1>1. \A u : availabilityFindings(u, ns) =
               A(u) \cup B(noHPA(u), Cardinality(deployments(u)))
  BY Zenon DEF availabilityFindings
<1>2. /\ \A o \in deployments(t) : declared(o, omitted) \in deployments(s)
      /\ \A d \in deployments(s) : \E o \in deployments(t) : d = declared(o, omitted)
  BY DeclaredOf
<1>3. ASSUME NEW o \in deployments(t)
      PROVE  /\ o.kind = "Deployment" /\ o.ns = ns
             /\ declared(o, omitted).name = o.name
             /\ o \notin omitted => declared(o, omitted) = o
  <2>1. o \in All(t, "Deployment") /\ o.ns = ns
    BY DEF In, All
  <2>2. IsObject(o) /\ o.kind = "Deployment"
    BY <2>1, DeclaredOf
  <2> QED
    BY <2>1, <2>2, DeclaredFields
<1>4. noHPA(s) = noHPA(t)
  <2>1. In(s, "HPA", ns) = In(t, "HPA", ns)
    BY DeclaredLists DEF partial
  <2>2. names(deployments(s)) = names(deployments(t))
    BY DeclaredLists
  <2>3. \A u : noHPA(u) = {n \in names(deployments(u)) :
                             ~\E h \in In(u, "HPA", ns) : h.target = <<"Deployment", n>>}
    BY DEF names
  <2> HIDE DEF noHPA, deployments
  <2> QED
    BY <2>1, <2>2, <2>3
<1>5. Cardinality(deployments(s)) = Cardinality(deployments(t))
  <2> DEFINE g == [o \in deployments(t) |-> declared(o, omitted)]
             D == deployments(t)
             E == deployments(s)
  <2>1. IsFiniteSet(D)
    BY ObjectsOfKind DEF Omits
  <2>2. \A o, p \in D : o.name = p.name => o = p
    <3>1. \A o \in D : o \in All(t, "Deployment") /\ o.ns = ns
      BY DEF In, All
    <3> HIDE DEF D
    <3> QED
      BY <3>1 DEF Omits
  <2>3. \A o \in D : g[o].name = o.name /\ g[o] \in E
    BY <1>2, <1>3
  <2>4. \A d \in E : \E o \in D : d = g[o]
    BY <1>2
  <2>5. g = [o \in D |-> g[o]]
    OBVIOUS
  <2> HIDE DEF g, D, E
  <2>6. g \in Bijection(D, E)
    <3>1. \A o, p \in D : g[o] = g[p] => o = p
      BY <2>2, <2>3
    <3>2. g \in [D -> E]
      BY <2>3, <2>5
    <3>3. g \in Injection(D, E)
      BY <3>1, <3>2 DEF Injection, IsInjective
    <3>4. g \in Surjection(D, E)
      BY <2>4, <3>2 DEF Surjection
    <3> QED
      BY <3>3, <3>4 DEF Bijection
  <2>7. ExistsBijection(D, E)
    BY <2>6 DEF ExistsBijection
  <2>8. Cardinality(E) = Cardinality(D)
    BY <2>1, <2>7, FS_Bijection
  <2> QED
    BY <2>8 DEF D, E
<1>6. CASE \E o \in omitted : o.kind = "Deployment" /\ o.ns = ns
  <2>1. \A g \in A(t) : g.message = "single-replica Deployments"
    <3>1. \A S : Listed(Info, "single-replica Deployments", S, 4) =
            IF S = {} THEN {}
            ELSE {Named(Info, "single-replica Deployments", Cardinality(S), S, 4)}
      BY Zenon DEF Listed
    <3>2. \A S, n : Named(Info, "single-replica Deployments", n, S, 4).message =
                      "single-replica Deployments"
      BY DEF Named, Finding
    <3> DEFINE of(S) == Named(Info, "single-replica Deployments", Cardinality(S), S, 4)
    <3>3. A(t) = IF single(t) = {} THEN {} ELSE {of(single(t))}
      <4> HIDE DEF single
      <4> QED
        BY <3>1, Zenon
    <3>4. of(single(t)).message = "single-replica Deployments"
      <4> HIDE DEF single
      <4> QED
        BY <3>2, Zenon
    <3> HIDE DEF A, of, single
    <3> QED
      BY <3>3, <3>4
  <2> HIDE DEF A, B, noHPA, deployments
  <2> QED
    BY <1>1, <1>4, <1>5, <1>6, <2>1 DEF ofFilledReplicas
<1>7. CASE ~\E o \in omitted : o.kind = "Deployment" /\ o.ns = ns
  <2>1. \A o \in deployments(t) : declared(o, omitted) = o
    BY <1>3, <1>7
  <2>2. deployments(s) = deployments(t)
    <3> HIDE DEF deployments
    <3> QED
      BY <1>2, <2>1
  <2>3. A(s) = A(t)
    BY <2>2, Zenon
  <2> HIDE DEF A, B, noHPA, deployments
  <2> QED
    BY <1>1, <1>4, <1>5, <2>3
<1>8. QED
  BY <1>6, <1>7

LEMMA DeclaredReferences ==
    ASSUME NEW s, NEW t, NEW omitted, Omits(s, t, omitted), NEW ns
    PROVE  /\ referencesIn(s, ns) = referencesIn(t, ns)
           /\ targetsIn(s, ns) = targetsIn(t, ns)
           /\ \A selector : anyPodMatches(s, ns, selector) <=> anyPodMatches(t, ns, selector)
<1>1. /\ In(s, "Pod", ns) = In(t, "Pod", ns)
      /\ In(s, "Job", ns) = In(t, "Job", ns)
      /\ In(s, "ServiceAccount", ns) = In(t, "ServiceAccount", ns)
      /\ In(s, "Ingress", ns) = In(t, "Ingress", ns)
      /\ In(s, "Gateway", ns) = In(t, "Gateway", ns)
  BY DeclaredLists DEF partial
<1>2. /\ \A w \in workloads(t, ns) : \E v \in workloads(s, ns) :
            samePod(w, v) /\ v.kind = w.kind /\ v.name = w.name
      /\ \A v \in workloads(s, ns) : \E w \in workloads(t, ns) :
            samePod(v, w) /\ v.kind = w.kind /\ v.name = w.name
  BY DeclaredWorkloads
<1> DEFINE ofWorkloads(u) == UNION {specRefs(o.spec) : o \in workloads(u, ns)}
           ofPods(u) == UNION {specRefs(o.spec) : o \in In(u, "Pod", ns) \cup In(u, "Job", ns)}
           ofOthers(u) == {<<"Secret", n>> : n \in
              UNION ({o.secrets : o \in In(u, "ServiceAccount", ns)}
                \cup {o.tls : o \in In(u, "Ingress", ns)}
                \cup {gatewayTLSSecretNames(o) : o \in In(u, "Gateway", ns)})}
           ofAll(u) == UNION {specRefs(o.spec) :
                                o \in In(u, "Pod", ns) \cup workloads(u, ns) \cup In(u, "Job", ns)}
<1>3. \A u : referencesIn(u, ns) = ofAll(u) \cup ofOthers(u)
  BY Zenon DEF referencesIn
<1>4. \A u : ofAll(u) = ofPods(u) \cup ofWorkloads(u)
  OBVIOUS
<1>5. ofWorkloads(s) = ofWorkloads(t)
  BY <1>2 DEF samePod
<1>6. ofPods(s) = ofPods(t) /\ ofOthers(s) = ofOthers(t)
  BY <1>1, Zenon
<1>7. referencesIn(s, ns) = referencesIn(t, ns)
  <2> HIDE DEF ofAll, ofOthers, ofPods, ofWorkloads
  <2> QED
    BY <1>3, <1>4, <1>5, <1>6
<1>8. targetsIn(s, ns) = targetsIn(t, ns)
  BY <1>2 DEF targetsIn
<1>9. \A selector : anyPodMatches(s, ns, selector) <=> anyPodMatches(t, ns, selector)
  BY <1>1, Zenon DEF anyPodMatches
<1>10. QED
  BY <1>7, <1>8, <1>9

\* g reports what f does, and shows the names that f shows, or as many as it may.
reports(g, f) ==
    /\ g.message = f.message /\ g.object = f.object
    /\ f.shown \subseteq g.shown \/ g.more > 0

\* A list of more names shows the same ones, or as many as it may.
LEMMA LongerListReports ==
    ASSUME NEW A, NEW B, A \subseteq B, IsFiniteSet(B), NEW message,
           NEW f \in Listed(Info, message, A, 4)
    PROVE  \E g \in Listed(Info, message, B, 4) : reports(g, f)
<1> DEFINE shown(S) == shownOf(S, 4)
           of(S) == Finding(Info, message, Cardinality(S), shown(S),
                            Cardinality(S \ shown(S)), <<>>, {})
<1>1. \A S : Listed(Info, message, S, 4) = IF S = {} THEN {} ELSE {of(S)}
  BY Zenon DEF Listed, Named
<1>2. \A S : shown(S) \subseteq S
  BY DEF shownOf
<1> HIDE DEF shown
<1>3. \A S : /\ of(S).message = message /\ of(S).object = <<>>
             /\ of(S).shown = shown(S) /\ of(S).more = Cardinality(S \ shown(S))
  BY DEF Finding
<1>4. shown(B) = B \/ Cardinality(B \ shown(B)) > 0
  <2>1. IsFiniteSet(B \ shown(B))
    BY SubsetIsFinite
  <2>2. /\ Cardinality(B \ shown(B)) \in Nat
        /\ Cardinality(B \ shown(B)) = 0 <=> B \ shown(B) = {}
    BY <2>1, FS_CardinalityType, FS_EmptySet
  <2> QED
    BY <1>2, <2>2
<1> HIDE DEF of
<1>5. f = of(A) /\ A # {}
  BY <1>1
<1>6. of(B) \in Listed(Info, message, B, 4)
  BY <1>1, <1>5
<1>7. reports(of(B), f)
  BY <1>2, <1>3, <1>4, <1>5 DEF reports
<1>8. QED
  BY <1>6, <1>7

LEMMA DeclaredUnused ==
    ASSUME NEW s, NEW t, NEW omitted, Omits(s, t, omitted), NEW ns,
           NEW f \in unusedFindings(t, ns)
    PROVE  \E g \in unusedFindings(s, ns) : reports(g, f)
<1>1. /\ In(s, "ConfigMap", ns) = In(t, "ConfigMap", ns)
      /\ In(s, "Service", ns) = In(t, "Service", ns)
      /\ In(s, "HPA", ns) = In(t, "HPA", ns)
      /\ In(s, "PDB", ns) = In(t, "PDB", ns)
      /\ In(s, "Ingress", ns) = In(t, "Ingress", ns)
      /\ In(s, "HTTPRoute", ns) = In(t, "HTTPRoute", ns)
      /\ names(In(s, "PVC", ns)) = names(In(t, "PVC", ns))
  BY DeclaredLists DEF partial
<1>2. /\ referencesIn(s, ns) = referencesIn(t, ns)
      /\ targetsIn(s, ns) = targetsIn(t, ns)
      /\ \A selector : anyPodMatches(s, ns, selector) <=> anyPodMatches(t, ns, selector)
  BY DeclaredReferences
<1>3. otherUnused(s, ns) = otherUnused(t, ns)
  BY <1>1, <1>2, OtherUnusedReads
<1>4. unusedConfigMaps(s, ns) = unusedConfigMaps(t, ns)
  BY <1>1, <1>2, Zenon DEF unusedConfigMaps
<1>5. names(unusedSecrets(s, ns)) = names(unusedSecrets(t, ns))
  <2> DEFINE generated == {"service-account-token", "helm.sh/release", "bootstrap"}
             free(o) == o.type \notin generated /\ <<"Secret", o.name>> \notin referencesIn(t, ns)
  <2>1. \A u : referencesIn(u, ns) = referencesIn(t, ns) =>
                 unusedSecrets(u, ns) = {o \in In(u, "Secret", ns) : free(o)}
    BY Zenon DEF unusedSecrets, isGeneratedSecret
  <2>2. ASSUME NEW o \in In(t, "Secret", ns)
        PROVE  /\ declared(o, omitted).name = o.name
               /\ declared(o, omitted).type = o.type
    <3>1. o \in All(t, "Secret")
      BY DEF In, All
    <3>2. IsObject(o) /\ o.kind = "Secret"
      BY <3>1, DeclaredOf
    <3>3. "type" \in DOMAIN o /\ "type" \notin filledIn
      BY <3>2 DEF IsObject, filledIn
    <3> QED
      BY <3>2, <3>3, DeclaredFields
  <2>3. \A o \in In(t, "Secret", ns) : free(declared(o, omitted)) <=> free(o)
    BY <2>2
  <2>4. /\ \A o \in In(t, "Secret", ns) : declared(o, omitted) \in In(s, "Secret", ns)
        /\ \A d \in In(s, "Secret", ns) : \E o \in In(t, "Secret", ns) : d = declared(o, omitted)
    BY DeclaredOf
  <2>5. /\ unusedSecrets(s, ns) = {o \in In(s, "Secret", ns) : free(o)}
        /\ unusedSecrets(t, ns) = {o \in In(t, "Secret", ns) : free(o)}
    BY <1>2, <2>1
  <2> HIDE DEF free
  <2>6. \A o \in unusedSecrets(t, ns) : \E d \in unusedSecrets(s, ns) : d.name = o.name
    BY <2>2, <2>3, <2>4, <2>5
  <2>7. \A d \in unusedSecrets(s, ns) : \E o \in unusedSecrets(t, ns) : d.name = o.name
    BY <2>2, <2>3, <2>4, <2>5
  <2> QED
    BY <2>6, <2>7 DEF names
<1> DEFINE maps(found) == Listed(Info, "unused ConfigMap", names(found), 4)
           secrets(unused) == Listed(Info, "unused Secret", unused, 4)
           unbound(u) == names({o \in In(u, "PVC", ns) : ~o.bound})
<1>6. \A u : unusedFindings(u, ns) = maps(unusedConfigMaps(u, ns))
               \cup secrets(names(unusedSecrets(u, ns))) \cup unboundFindings(u, ns)
               \cup otherUnused(u, ns)
  BY UnusedIs
<1>7. CASE f \in unboundFindings(t, ns)
  <2>1. \A u : unboundFindings(u, ns) = Listed(Info, "unbound PVC", unbound(u), 4)
    BY Zenon DEF unboundFindings
  <2>2. unbound(t) \subseteq unbound(s)
    <3>1. ASSUME NEW o \in In(t, "PVC", ns)
          PROVE  /\ declared(o, omitted) \in In(s, "PVC", ns)
                 /\ declared(o, omitted).name = o.name
                 /\ ~declared(o, omitted).bound
      <4>1. o \in All(t, "PVC")
        BY DEF In, All
      <4>2. IsObject(o) /\ o.kind = "PVC"
        BY <4>1, DeclaredOf
      <4> QED
        BY <4>2, DeclaredOf, DeclaredFields
    <3> QED
      BY <3>1 DEF names
  <2>3. IsFiniteSet(unbound(s))
    <3>1. IsFiniteSet(In(s, "PVC", ns))
      BY ObjectsOfKind DEF Omits
    <3>2. IsFiniteSet({o \in In(s, "PVC", ns) : ~o.bound})
      BY <3>1, SubsetIsFinite
    <3> QED
      BY <3>2, NamesAreFinite
  <2> HIDE DEF unbound
  <2>4. f \in Listed(Info, "unbound PVC", unbound(t), 4)
    BY <1>7, <2>1
  <2>5. PICK g \in Listed(Info, "unbound PVC", unbound(s), 4) : reports(g, f)
    BY <2>2, <2>3, <2>4, LongerListReports
  <2>6. g \in unboundFindings(s, ns)
    BY <2>1, <2>5
  <2> HIDE DEF maps, secrets
  <2> QED
    BY <1>6, <2>5, <2>6
<1>8. CASE f \notin unboundFindings(t, ns)
  <2>1. f \in unusedFindings(s, ns)
    <3> HIDE DEF maps, secrets
    <3> QED
      BY <1>3, <1>4, <1>5, <1>6, <1>8
  <2> QED
    BY <2>1 DEF reports
<1>9. QED
  BY <1>7, <1>8

\* What is found in a namespace of what the API server filled in is reported of what is
\* declared, Deployments of a single replica apart.
LEMMA DeclaredNamespace ==
    ASSUME NEW s, NEW t, NEW omitted, Omits(s, t, omitted), NEW ns,
           NEW f \in namespaceFindings(t, ns)
    PROVE  \/ \E g \in namespaceFindings(s, ns) : reports(g, f)
           \/ ofFilledReplicas(f, omitted, ns)
<1>1. \A u : namespaceFindings(u, ns) =
        UNION {resourceFindings(u, ns), healthFindings(u, ns), imageFindings(u, ns),
               probeFindings(u, ns), availabilityFindings(u, ns),
               disruptionFindings(u, ns), unusedFindings(u, ns)}
  BY Zenon DEF namespaceFindings
<1>2. reports(f, f)
  BY DEF reports
<1>3. CASE f \in probeFindings(t, ns)
  <2>1. PICK g \in probeFindings(s, ns) : foretells(g, f)
    BY <1>3, DeclaredProbes DEF Foretold
  <2>2. reports(g, f)
    BY <2>1 DEF foretells, reports
  <2> QED
    BY <1>1, <2>1, <2>2
<1>4. CASE f \in availabilityFindings(t, ns)
  <2>1. f \in availabilityFindings(s, ns) \/ ofFilledReplicas(f, omitted, ns)
    BY <1>4, DeclaredAvailability
  <2> QED
    BY <1>1, <1>2, <2>1
<1>5. CASE f \in unusedFindings(t, ns)
  <2>1. PICK g \in unusedFindings(s, ns) : reports(g, f)
    BY <1>5, DeclaredUnused
  <2> QED
    BY <1>1, <2>1
<1>6. CASE f \in UNION {resourceFindings(t, ns), healthFindings(t, ns), imageFindings(t, ns),
                        disruptionFindings(t, ns)}
  <2>1. f \in UNION {resourceFindings(s, ns), healthFindings(s, ns), imageFindings(s, ns),
                     disruptionFindings(s, ns)}
    BY <1>6, DeclaredChecks
  <2> QED
    BY <1>1, <1>2, <2>1
<1>7. \/ f \in probeFindings(t, ns) \/ f \in availabilityFindings(t, ns)
      \/ f \in unusedFindings(t, ns)
      \/ f \in UNION {resourceFindings(t, ns), healthFindings(t, ns), imageFindings(t, ns),
                      disruptionFindings(t, ns)}
  BY <1>1
<1>8. QED
  BY <1>3, <1>4, <1>5, <1>6, <1>7

LEMMA DeclaredSecurity ==
    ASSUME NEW s, NEW t, NEW omitted, Omits(s, t, omitted), NEW covered
    PROVE  Security(s, covered) = Security(t, covered)
<1>1. \A kind \in {"Pod", "Namespace", "ServiceAccount", "ClusterRole",
                   "ClusterRoleBinding", "NetworkPolicy"} : All(s, kind) = All(t, kind)
  BY DeclaredLists DEF partial
<1>2. QED
  BY <1>1, SecurityReads

\* A certificate is reported of a Secret that declares it.
LEMMA DeclaredCertificates ==
    ASSUME NEW s, NEW t, NEW omitted, Omits(s, t, omitted), NEW covered,
           NEW f \in Certificates(t, covered)
    PROVE  \/ f \in Certificates(s, covered)
           \/ \E o \in omitted : o.kind = "Secret" /\ f.object = <<"secret", o.ns, o.name>>
<1>1. \A u : Certificates(u, covered) = tlsFindings(u, covered) \cup notReady(u, covered)
  BY CertificatesAre
<1>2. /\ All(s, "Certificate") = All(t, "Certificate")
      /\ All(s, "Ingress") = All(t, "Ingress")
      /\ All(s, "Gateway") = All(t, "Gateway")
  BY DeclaredLists DEF partial
<1>3. notReady(s, covered) = notReady(t, covered)
  BY <1>2, Zenon DEF notReady
<1>4. tlsKeys(s, covered) = tlsKeys(t, covered)
  <2>1. tlsUsers(s, covered) = tlsUsers(t, covered)
    BY <1>2, Zenon DEF tlsUsers
  <2> QED
    BY <2>1, Zenon DEF tlsKeys
<1>5. CASE f \in tlsFindings(t, covered)
  <2>1. PICK key \in tlsKeys(t, covered) : f \in aboutTLS(t, covered, key)
    BY <1>5, TlsFindingsAre
  <2> DEFINE users(u) == {o \in tlsUsers(u, covered) : o.ns = key[1] /\ key[2] \in tlsNames(o)}
             leaves(u) == {o \in secretsOf(u, key) : o.leaf}
             expiring(u) == UNION {expiryFinding(o) : o \in leaves(u)}
             missing(u) == missingTLSFinding(firstReference(users(u)), key[2])
  <2>2. \A u : aboutTLS(u, covered, key) =
          CASE secretsOf(u, key) = {} /\ u.HasSecretAccess -> {missing(u)}
            [] secretsOf(u, key) = {} /\ ~u.HasSecretAccess -> {}
            [] secretsOf(u, key) # {} -> expiring(u)
    BY Zenon DEF aboutTLS, secretsOf
  <2>3. secretsOf(t, key) # {} /\ f \in expiring(t)
    <3> HIDE DEF missing, expiring
    <3> QED
      BY <2>1, <2>2 DEF Omits
  <2>4. PICK o \in leaves(t) : f \in expiryFinding(o)
    <3> HIDE DEF leaves
    <3> QED
      BY <2>3
  <2>5. \A u : secretsOf(u, key) = {p \in All(u, "Secret") : p.ns = key[1] /\ p.name = key[2]}
    BY DEF secretsOf, In, All
  <2>6. o \in All(t, "Secret") /\ o.leaf
    BY <2>4, <2>5
  <2>7. IsObject(o) /\ o.kind = "Secret" /\ declared(o, omitted) \in All(s, "Secret")
    BY <2>6, DeclaredOf
  <2>8. CASE o \in omitted
    <3>1. o.left \in Int
      BY <2>7, Zenon DEF IsObject
    <3>2. f.object = <<"secret", o.ns, o.name>>
      BY <2>4, <3>1 DEF expiryFinding, About, Finding
    <3> QED
      BY <2>7, <2>8, <3>2
  <2>9. CASE o \notin omitted
    <3>1. declared(o, omitted) = o
      BY <2>7, <2>9, DeclaredFields
    <3>2. o \in leaves(s) /\ secretsOf(s, key) # {}
      BY <2>4, <2>5, <2>7, <3>1
    <3>3. f \in expiring(s)
      <4> HIDE DEF leaves
      <4> QED
        BY <2>4, <3>2
    <3>4. f \in aboutTLS(s, covered, key)
      <4> HIDE DEF missing, expiring
      <4> QED
        BY <2>2, <3>2, <3>3
    <3> QED
      BY <1>1, <1>4, <2>1, <3>4, TlsFindingsAre
  <2> QED
    BY <2>8, <2>9
<1>6. QED
  BY <1>1, <1>3, <1>5

LEMMA DeclaredDeprecations ==
    ASSUME NEW s, NEW t, NEW omitted, Omits(s, t, omitted), NEW covered
    PROVE  Deprecations(s, covered) = Deprecations(t, covered)
<1>1. clusterMinor(s) = clusterMinor(t)
  <2>1. All(s, "Version") = All(t, "Version")
    BY DeclaredLists DEF partial
  <2> QED
    BY <2>1, Zenon DEF clusterMinor
<1>2. ASSUME NEW kind \in versionedKinds
      PROVE  /\ \A x \in All(s, kind) : \E y \in All(t, kind) : sameAPIs(x, y)
             /\ \A y \in All(t, kind) : \E x \in All(s, kind) : sameAPIs(x, y)
  <2>1. /\ \A o \in All(t, kind) : declared(o, omitted) \in All(s, kind)
        /\ \A d \in All(s, kind) : \E o \in All(t, kind) : d = declared(o, omitted)
        /\ \A o \in All(t, kind) : IsObject(o) /\ o.kind = kind
    BY DeclaredOf
  <2>2. ASSUME NEW o \in All(t, kind)
        PROVE  sameAPIs(declared(o, omitted), o)
    <3>1. IsObject(o) /\ o.kind = kind
      BY <2>1
    <3>2. CASE kind \notin partial
      <4>1. declared(o, omitted) = o
        BY <3>1, <3>2, DeclaredIsObject DEF Omits
      <4> QED
        BY <4>1 DEF sameAPIs
    <3>3. CASE kind \in partial
      <4>1. kind \in {"Deployment", "StatefulSet"}
        BY <3>3 DEF partial, versionedKinds
      <4>2. "apis" \in DOMAIN o
        BY <3>1, <4>1, Zenon DEF IsObject
      <4> QED
        BY <3>1, <4>2, DeclaredIsObject, DeclaredFields DEF Omits, sameAPIs
    <3> QED
      BY <3>2, <3>3
  <2>3. \A x, y : sameAPIs(x, y) => sameAPIs(y, x)
    BY DEF sameAPIs
  <2> QED
    BY <2>1, <2>2
<1>3. QED
  BY <1>1, <1>2, DeprecationsRead
-----------------------------------------------------------------------------
\* The manifests of a cluster, and what is loaded of them.
writtenIn(objs) == {o \in objs : o.kind \in knownKinds /\ o.kind # "Pod"}

documentsOf(objs) == {document(o) : o \in objs}

services(docs) == [kind |-> "List", items |-> {o \in docs : o.kind = "Service"}]

LEMMA PlacedBack ==
    ASSUME NEW o, IsObject(o), o.kind \in knownKinds
    PROVE  document(o).kind = o.kind /\ placed(document(o)) = o
<1>1. IsRecord(o) /\ {"kind", "ns", "name"} \subseteq DOMAIN o
  BY DEF IsObject
<1>2. o.ns = "" <=> o.kind \in unscoped
  BY DEF IsObject
<1>3. o.kind \in unscoped <=> o.kind \in clusterScoped
  BY DEF unscoped, clusterScoped, knownKinds
<1>4. CASE o.ns # "default"
  <2>1. document(o) = o
    BY <1>4 DEF document
  <2>2. placed(o) = o
    BY <1>2, <1>3 DEF placed
  <2> QED
    BY <2>1, <2>2
<1>5. CASE o.ns = "default"
  <2> DEFINE d == [o EXCEPT !.ns = ""]
             e == [d EXCEPT !.ns = "default"]
  <2>1. document(o) = d
    BY <1>5 DEF document
  <2>2. d.ns = "" /\ d.kind = o.kind
    BY <1>1
  <2>3. placed(d) = e
    <3> HIDE DEF d
    <3> QED
      BY <1>2, <1>3, <1>5, <2>2 DEF placed
  <2>4. e = o
    <3>1. DOMAIN e = DOMAIN o
      OBVIOUS
    <3>2. \A field \in DOMAIN o : e[field] = o[field]
      BY <1>1, <1>5
    <3>3. IsRecord(e)
      BY DEF IsRecord
    <3> HIDE DEF e, d
    <3> QED
      BY <1>1, <3>1, <3>2, <3>3 DEF IsRecord
  <2> QED
    BY <2>1, <2>2, <2>3, <2>4
<1>6. QED
  BY <1>4, <1>5

\* add finds the documents again, those of the List included.
LEMMA AddedAgain ==
    ASSUME NEW docs, \A d \in docs : d.kind \in knownKinds
    PROVE  add({o \in docs : o.kind # "Service"} \cup {services(docs)}) = docs
<1> DEFINE A == {o \in docs : o.kind # "Service"}
           B == {o \in docs : o.kind = "Service"}
           L == services(docs)
<1>1. L.kind = "List" /\ L.items = B
  BY DEF services
<1>2. "List" \notin knownKinds
  BY DEF knownKinds
<1>3. \A D : opened(D) = D \cup UNION {d.items : d \in {d \in D : d.kind = "List"}}
  BY DEF opened
<1>4. \A d \in A \cup B : d.kind # "List"
  BY <1>2
<1> HIDE DEF L
<1>5. opened(A \cup {L}) = (A \cup {L}) \cup B
  <2>1. {d \in A \cup {L} : d.kind = "List"} = {L}
    BY <1>1, <1>4
  <2>2. UNION {d.items : d \in {L}} = B
    BY <1>1
  <2> HIDE DEF A, B
  <2> QED
    BY <1>3, <2>1, <2>2
<1>6. opened((A \cup {L}) \cup B) = (A \cup {L}) \cup B
  <2>1. {d \in (A \cup {L}) \cup B : d.kind = "List"} = {L}
    BY <1>1, <1>4
  <2>2. UNION {d.items : d \in {L}} = B
    BY <1>1
  <2> HIDE DEF A, B
  <2> QED
    BY <1>3, <2>1, <2>2
<1>7. {d \in (A \cup {L}) \cup B : d.kind \in knownKinds} = docs
  BY <1>1, <1>2
<1>8. QED
  <2>1. add(A \cup {L}) = {d \in opened(opened(A \cup {L})) : d.kind \in knownKinds}
    BY Zenon DEF add
  <2> HIDE DEF A, B
  <2>2. add(A \cup {L}) = docs
    BY <1>5, <1>6, <1>7, <2>1
  <2> QED
    BY <2>2 DEF A, L

manifestsOf(objs) ==
    {o \in documentsOf(objs) : o.kind # "Service"} \cup {services(documentsOf(objs))}

\* What is declared of the objects that are written.
declaredIn(omitted) == {declared(o, omitted) : o \in writtenIn(objects)}

LEMMA ManifestsAre ==
    ASSUME NEW omitted
    PROVE  manifests(omitted) = manifestsOf(declaredIn(omitted))
<1> DEFINE docs == {document(declared(o, omitted)) : o \in writtenIn(objects)}
<1>1. manifests(omitted) = {o \in docs : o.kind # "Service"} \cup {services(docs)}
  BY Zenon DEF manifests, written, writtenIn, services
<1>2. docs = documentsOf(declaredIn(omitted))
  BY DEF documentsOf, declaredIn
<1> HIDE DEF docs
<1>3. QED
  BY <1>1, <1>2 DEF manifestsOf

LEMMA DeclaredAre ==
    ASSUME TypeOK, NEW omitted, \A o \in omitted : mayOmit(o)
    PROVE  /\ IsCluster(declaredIn(omitted))
           /\ \A o \in declaredIn(omitted) : o.kind \in knownKinds /\ o.kind # "Pod"
<1> DEFINE W == writtenIn(objects)
           f == [o \in W |-> declared(o, omitted)]
<1>1. IsFiniteSet(objects) /\ \A o \in objects : IsObject(o)
  BY ClusterIsValid DEF IsCluster
<1>2. W \subseteq objects /\ \A o \in W : o.kind \in knownKinds /\ o.kind # "Pod"
  BY DEF writtenIn
<1>3. IsFiniteSet(W) /\ \A o \in W : IsObject(o)
  BY <1>1, <1>2, SubsetIsFinite
<1>4. \A d \in declaredIn(omitted) : \E o \in W : d = declared(o, omitted) /\ d = f[o]
  BY DEF declaredIn
<1> HIDE DEF W, f
<1>5. IsFiniteSet(declaredIn(omitted))
  BY <1>3, <1>4, CoveredIsFinite
<1>6. ASSUME NEW d \in declaredIn(omitted)
      PROVE  IsObject(d) /\ d.kind \in knownKinds /\ d.kind # "Pod"
  <2>1. PICK o \in W : d = declared(o, omitted)
    BY <1>4
  <2>2. IsObject(o)
    BY <1>3
  <2>3. IsObject(d) /\ d.kind = o.kind
    BY <2>1, <2>2, DeclaredIsObject, DeclaredFields
  <2> QED
    BY <1>2, <2>3
<1>7. QED
  BY <1>5, <1>6 DEF IsCluster

LEMMA LoadedBack ==
    ASSUME NEW objs, \A o \in objs : IsObject(o) /\ o.kind \in knownKinds
    PROVE  {placed(o) : o \in add(manifestsOf(objs))} = objs
<1> DEFINE D == documentsOf(objs)
<1>1. \A o \in objs : document(o).kind = o.kind /\ placed(document(o)) = o
  BY PlacedBack
<1>2. D = {document(o) : o \in objs}
  BY DEF documentsOf
<1> HIDE DEF D
<1>3. \A d \in D : d.kind \in knownKinds
  BY <1>1, <1>2
<1>4. add(manifestsOf(objs)) = D
  BY <1>3, AddedAgain DEF manifestsOf, D
<1>5. {placed(d) : d \in D} = objs
  BY <1>1, <1>2
<1>6. QED
  BY <1>4, <1>5

-----------------------------------------------------------------------------
\* The snapshot that is loaded, and the one that is collected once the manifests are
\* applied.
templates == {"Deployment", "StatefulSet", "DaemonSet", "Job", "CronJob"}

podIn(w, phase) ==
    [kind |-> "Pod", ns |-> w.ns, name |-> w.name \o "-template",
     labels |-> w.labels, spec |-> w.spec, phase |-> phase, statuses |-> {},
     node |-> "", deleting |-> FALSE]

podsIn(objs, phase) == {podIn(w, phase) : w \in {w \in objs : w.kind \in templates}}

LEMMA PodOfTemplate ==
    ASSUME NEW w, IsObject(w), w.kind \in templates, NEW phase
    PROVE  IsObject(podIn(w, phase)) /\ podIn(w, phase).kind = "Pod"
<1> DEFINE p == podIn(w, phase)
<1>1. w.ns # "" /\ IsPodSpec(w.spec)
  BY DEF IsObject, templates, unscoped, podKinds
<1>2. /\ DOMAIN p = {"kind", "ns", "name", "labels", "spec", "phase", "statuses", "node",
                     "deleting"}
      /\ p.kind = "Pod" /\ p.ns = w.ns /\ p.spec = w.spec /\ p.statuses = {}
  BY DEF podIn
<1>3. IsRecord(p)
  <2>1. \A field \in DOMAIN p : [f \in DOMAIN p |-> p[f]][field] = p[field]
    OBVIOUS
  <2> QED
    BY DEF IsRecord, podIn
<1> HIDE DEF p
<1>4. IsFiniteSet(p.statuses)
  BY <1>2, FS_EmptySet
<1>5. "Pod" \in podKinds /\ "Pod" \notin unscoped
  BY DEF podKinds, unscoped
<1>6. IsObject(p)
  BY <1>1, <1>2, <1>3, <1>4, <1>5 DEF IsObject
<1>7. QED
  BY <1>2, <1>6 DEF p

LEMMA TemplatePods ==
    /\ \A objs : synthesizePods(objs) = podsIn(objs, "")
    /\ \A w : [templatePod(w) EXCEPT !.phase = "Running"] = podIn(w, "Running")
<1>1. \A w : templatePod(w) = podIn(w, "")
  BY Zenon DEF templatePod, podIn
<1>2. ASSUME NEW objs PROVE synthesizePods(objs) = podsIn(objs, "")
  <2>1. synthesizePods(objs) =
          {templatePod(w) : w \in {w \in objs : w.kind \in templates}}
    BY Zenon DEF synthesizePods, templates
  <2> QED
    BY <1>1, <2>1 DEF podsIn
<1>3. ASSUME NEW w PROVE [podIn(w, "") EXCEPT !.phase = "Running"] = podIn(w, "Running")
  <2> DEFINE p == podIn(w, "")
             q == [p EXCEPT !.phase = "Running"]
             r == podIn(w, "Running")
  <2>1. DOMAIN q = DOMAIN r
    BY DEF podIn
  <2>2. \A field \in DOMAIN r : q[field] = r[field]
    <3> DEFINE name == w.name \o "-template"
               ns == w.ns
               labels == w.labels
               spec == w.spec
    <3>1. \A phase : podIn(w, phase) =
            [kind |-> "Pod", ns |-> ns, name |-> name, labels |-> labels, spec |-> spec,
             phase |-> phase, statuses |-> {}, node |-> "", deleting |-> FALSE]
      BY Zenon DEF podIn
    <3> HIDE DEF name, ns, labels, spec
    <3>2. /\ r = [kind |-> "Pod", ns |-> ns, name |-> name, labels |-> labels, spec |-> spec,
                   phase |-> "Running", statuses |-> {}, node |-> "", deleting |-> FALSE]
          /\ p = [kind |-> "Pod", ns |-> ns, name |-> name, labels |-> labels, spec |-> spec,
                   phase |-> "", statuses |-> {}, node |-> "", deleting |-> FALSE]
      BY <3>1
    <3> HIDE DEF p, r
    <3>3. \A field \in DOMAIN p : q[field] = IF field = "phase" THEN "Running" ELSE p[field]
      OBVIOUS
    <3>4. DOMAIN r = DOMAIN p /\ r.phase = "Running"
      BY <3>2
    <3>5. \A field \in DOMAIN p \ {"phase"} : r[field] = p[field]
      <4>1. DOMAIN p = {"kind", "ns", "name", "labels", "spec", "phase", "statuses",
                        "node", "deleting"}
        BY <3>2
      <4>2. /\ r.kind = p.kind /\ r.ns = p.ns /\ r.name = p.name /\ r.labels = p.labels
            /\ r.spec = p.spec /\ r.statuses = p.statuses /\ r.node = p.node
            /\ r.deleting = p.deleting
        BY <3>2
      <4> QED
        BY <4>1, <4>2
    <3> QED
      BY <3>3, <3>4, <3>5
  <2>3. r = [field \in DOMAIN r |-> r[field]]
    BY DEF podIn
  <2>4. q = [field \in DOMAIN q |-> q[field]]
    OBVIOUS
  <2> QED
    <3> HIDE DEF q, r
    <3>1. q = r
      BY <2>1, <2>2, <2>3, <2>4
    <3> QED
      BY <3>1 DEF q, r
<1>4. QED
  BY <1>1, <1>2, <1>3

LEMMA DeployedIs ==
    deployed = writtenIn(objects) \cup podsIn(writtenIn(objects), "Running")
<1> DEFINE W == writtenIn(objects)
<1>1. deployed = W \cup {[templatePod(w) EXCEPT !.phase = "Running"] :
                           w \in {w \in W : w.kind \in templates}}
  BY Zenon DEF deployed, written, writtenIn, templates
<1> HIDE DEF W
<1>2. {[templatePod(w) EXCEPT !.phase = "Running"] : w \in {w \in W : w.kind \in templates}}
        = podsIn(W, "Running")
  <2>1. \A w : [templatePod(w) EXCEPT !.phase = "Running"] = podIn(w, "Running")
    BY TemplatePods
  <2> QED
    BY <2>1 DEF podsIn
<1>3. QED
  BY <1>1, <1>2 DEF W

\* The objects of manifests, with the pods of their templates.
LEMMA WithPodsIsCluster ==
    ASSUME NEW W, IsCluster(W), \A o \in W : o.kind # "Pod", NEW phase
    PROVE  /\ IsCluster(W \cup podsIn(W, phase))
           /\ \A kind : kind # "Pod" => {o \in W \cup podsIn(W, phase) : o.kind = kind}
                                          = {o \in W : o.kind = kind}
           /\ {o \in W \cup podsIn(W, phase) : o.kind = "Pod"} = podsIn(W, phase)
<1> DEFINE T == {w \in W : w.kind \in templates}
           f == [w \in T |-> podIn(w, phase)]
           P == podsIn(W, phase)
<1>1. IsFiniteSet(W) /\ \A o \in W : IsObject(o)
  BY DEF IsCluster
<1>2. IsFiniteSet(T)
  BY <1>1, SubsetIsFinite
<1>3. \A p \in P : \E w \in T : p = podIn(w, phase) /\ p = f[w]
  BY DEF podsIn
<1>4. ASSUME NEW p \in P PROVE IsObject(p) /\ p.kind = "Pod"
  <2>1. PICK w \in T : p = podIn(w, phase)
    BY <1>3
  <2>2. IsObject(w) /\ w.kind \in templates
    BY <1>1, <2>1
  <2>3. IsObject(podIn(w, phase)) /\ podIn(w, phase).kind = "Pod"
    BY <2>2, PodOfTemplate
  <2> QED
    BY <2>1, <2>3
<1>5. IsFiniteSet(P)
  <2> HIDE DEF P, T, f
  <2> QED
    BY <1>2, <1>3, CoveredIsFinite
<1> HIDE DEF P
<1>6. IsCluster(W \cup P)
  BY <1>1, <1>4, <1>5, FS_Union DEF IsCluster
<1>7. /\ \A kind : kind # "Pod" => {o \in W \cup P : o.kind = kind} = {o \in W : o.kind = kind}
      /\ {o \in W \cup P : o.kind = "Pod"} = P
  BY <1>4
<1>8. QED
  BY <1>6, <1>7 DEF P

loadedSnapshot(omitted) == Load(manifests(omitted)).snapshot

\* What would be loaded of manifests that leave nothing out, the status included.
writtenSnapshot ==
    [objects |-> writtenIn(objects) \cup podsIn(writtenIn(objects), ""),
     HasSecretAccess |-> FALSE]

liveSnapshot == Collect(deployed, Kinds \ {"Version"}, {})

LEMMA LoadedIs ==
    ASSUME TypeOK, NEW omitted, \A o \in omitted : mayOmit(o)
    PROVE  /\ loadedSnapshot(omitted).objects =
                 declaredIn(omitted) \cup podsIn(declaredIn(omitted), "")
           /\ loadedSnapshot(omitted).HasSecretAccess = FALSE
           /\ Load(manifests(omitted)).namespaces = loadedNamespaces(declaredIn(omitted))
<1> DEFINE docs == manifests(omitted)
           objs == {placed(o) : o \in add(docs)}
           A == objs \cup synthesizePods(objs)
           B == \E o \in objs : o.kind \in {"Gateway", "HTTPRoute"}
           s == [objects |-> A, HasSecretAccess |-> FALSE, HasServiceMonitorCRD |-> FALSE,
                 HasArgoCD |-> FALSE, HasFlux |-> FALSE, HasCertManager |-> FALSE,
                 HasGatewayAPI |-> B, HasKyverno |-> FALSE, HasGatekeeper |-> FALSE]
           N == loadedNamespaces(objs)
<1>1. Load(docs) = [snapshot |-> s, namespaces |-> N]
  BY Zenon DEF Load
<1>2. objs = declaredIn(omitted)
  <2>1. \A o \in declaredIn(omitted) : IsObject(o) /\ o.kind \in knownKinds
    BY DeclaredAre DEF IsCluster
  <2>2. {placed(o) : o \in add(manifestsOf(declaredIn(omitted)))} = declaredIn(omitted)
    BY <2>1, LoadedBack
  <2>3. docs = manifestsOf(declaredIn(omitted))
    BY ManifestsAre
  <2> QED
    BY <2>2, <2>3, Zenon
<1>3. A = declaredIn(omitted) \cup podsIn(declaredIn(omitted), "")
  <2> HIDE DEF objs
  <2>1. synthesizePods(objs) = podsIn(objs, "")
    BY TemplatePods
  <2> QED
    BY <1>2, <2>1
<1>4. s.objects = A /\ s.HasSecretAccess = FALSE
  <2> HIDE DEF A, B
  <2> QED
    OBVIOUS
<1> HIDE DEF s
<1>5. loadedSnapshot(omitted) = s /\ Load(docs).namespaces = N
  <2> HIDE DEF N, docs
  <2>1. Load(docs).snapshot = s /\ Load(docs).namespaces = N
    BY <1>1
  <2> QED
    BY <2>1 DEF loadedSnapshot, docs
<1>6. QED
  <2> HIDE DEF A, objs
  <2> QED
    BY <1>2, <1>3, <1>4, <1>5 DEF N

\* Of each kind Pods and Secrets apart, both list what is written.
LEMMA BothListWritten ==
    ASSUME TypeOK
    PROVE  /\ IsCluster(writtenIn(objects)) /\ IsCluster(deployed)
           /\ IsSnapshot(writtenSnapshot) /\ IsSnapshot(liveSnapshot)
           /\ liveSnapshot.HasSecretAccess \in BOOLEAN
           /\ \A kind : kind # "Pod" =>
                 All(writtenSnapshot, kind) = {o \in writtenIn(objects) : o.kind = kind}
           /\ All(writtenSnapshot, "Pod") = podsIn(writtenIn(objects), "")
           /\ \A kind : kind \notin {"Pod", "Secret"} =>
                 All(liveSnapshot, kind) = {o \in writtenIn(objects) : o.kind = kind}
           /\ All(liveSnapshot, "Pod") = podsIn(writtenIn(objects), "Running")
           /\ All(liveSnapshot, "Secret") =
                 {stripped(o) : o \in {o \in writtenIn(objects) : o.kind = "Secret"}}
<1> DEFINE W == writtenIn(objects)
           D == W \cup podsIn(W, "Running")
           L == W \cup podsIn(W, "")
           s == writtenSnapshot
           t == liveSnapshot
           ans == Kinds \ {"Version"}
<1>1. IsCluster(objects) /\ \A o \in objects : o.kind \in Kinds \cup {"Usage"}
  BY ClusterIsValid
<1>2. W \subseteq objects /\ \A o \in W : o.kind \in knownKinds /\ o.kind # "Pod"
  BY DEF writtenIn
<1>3. IsCluster(W)
  <2> HIDE DEF W
  <2> QED
    BY <1>1, <1>2, SubsetIsFinite DEF IsCluster
<1>4. \A o \in W : o.kind \in ans /\ o.kind \notin {"CRD", "Constraint"}
  <2>1. \A kind \in knownKinds : kind \notin {"Usage", "Version", "CRD", "Constraint"}
    BY DEF knownKinds
  <2> HIDE DEF W
  <2> QED
    BY <1>1, <1>2, <2>1
<1> HIDE DEF W
<1>5. /\ IsCluster(D)
      /\ \A kind : kind # "Pod" => {o \in D : o.kind = kind} = {o \in W : o.kind = kind}
      /\ {o \in D : o.kind = "Pod"} = podsIn(W, "Running")
  BY <1>2, <1>3, WithPodsIsCluster
<1>6. /\ IsCluster(L)
      /\ \A kind : kind # "Pod" => {o \in L : o.kind = kind} = {o \in W : o.kind = kind}
      /\ {o \in L : o.kind = "Pod"} = podsIn(W, "")
  BY <1>2, <1>3, WithPodsIsCluster
<1>7. s.objects = L /\ s.HasSecretAccess = FALSE
  BY DEF writtenSnapshot, W
<1>8. deployed = D
  BY DeployedIs DEF W
<1> HIDE DEF D, L
<1>9. \A kind : All(s, kind) = {o \in L : o.kind = kind}
  BY <1>7 DEF All
<1>10. IsSnapshot(s)
  BY <1>6, <1>7 DEF IsSnapshot, IsCluster
<1>11. t = Collect(D, ans, {})
  BY <1>8, Zenon DEF liveSnapshot
<1>12. IsSnapshot(t) /\ t.HasSecretAccess \in BOOLEAN
  <2>1. /\ IsSnapshot(Collect(D, ans, {}))
        /\ Collect(D, ans, {}).HasSecretAccess \in BOOLEAN
    BY <1>5, CollectIsSnapshot
  <2> QED
    BY <1>11, <2>1
<1>13. /\ All(t, "Namespace") = namespacesOf(D, {})
       /\ All(t, "CRD") = {}
       /\ All(t, "Constraint") = gatekeeperConstraints(D, ans)
  <2> HIDE DEF ans
  <2> QED
    BY <1>5, <1>11, CollectedNamespaces
<1>14. \A kind : kind \notin {"Namespace", "CRD", "Constraint"} =>
          All(t, kind) = {stripped(o) : o \in {o \in D : o.kind = kind /\ kind \in ans}}
  <2> HIDE DEF ans
  <2> QED
    BY <1>5, <1>11, CollectedOfKind
<1> HIDE DEF s, t
<1>15. ASSUME NEW kind, kind \notin {"Pod", "Secret"}
       PROVE  All(t, kind) = {o \in W : o.kind = kind}
  <2>1. {o \in D : o.kind = kind} = {o \in W : o.kind = kind}
    BY <1>5, <1>15
  <2>2. CASE kind = "Namespace"
    <3>1. namespacesOf(D, {}) = {o \in D : o.kind = "Namespace"}
      BY DEF namespacesOf, filterNamespaces
    <3> QED
      BY <1>13, <2>1, <2>2, <3>1
  <2>3. CASE kind \in {"CRD", "Constraint"}
    <3>1. {o \in W : o.kind = kind} = {}
      BY <1>4, <2>3
    <3>2. gatekeeperConstraints(D, ans) \subseteq {o \in D : o.kind = "Constraint"}
      BY DEF gatekeeperConstraints
    <3> QED
      BY <1>13, <2>1, <2>3, <3>1, <3>2
  <2>4. CASE kind \notin {"Namespace", "CRD", "Constraint"}
    <3>1. \A o \in W : o.kind = kind => kind \in ans
      BY <1>4
    <3>2. {o \in D : o.kind = kind /\ kind \in ans} = {o \in W : o.kind = kind}
      <4> HIDE DEF ans
      <4> QED
        BY <2>1, <3>1
    <3>3. \A o \in W : o.kind = kind => stripped(o) = o
      BY <1>15 DEF stripped
    <3>4. {stripped(o) : o \in {o \in W : o.kind = kind}} = {o \in W : o.kind = kind}
      BY <3>3
    <3>5. All(t, kind) = {stripped(o) : o \in {o \in D : o.kind = kind /\ kind \in ans}}
      BY <1>14, <2>4
    <3> HIDE DEF ans
    <3> QED
      BY <3>2, <3>4, <3>5
  <2> QED
    BY <2>2, <2>3, <2>4
<1>16. All(t, "Pod") = podsIn(W, "Running")
  <2>1. "Pod" \in ans
    BY KindsAssumption DEF Core
  <2>2. {o \in D : o.kind = "Pod" /\ "Pod" \in ans} = podsIn(W, "Running")
    <3> HIDE DEF ans
    <3> QED
      BY <1>5, <2>1
  <2>3. \A o \in D : o.kind = "Pod" => stripped(o) = o
    BY DEF stripped
  <2>4. \A o \in podsIn(W, "Running") : stripped(o) = o
    <3> HIDE DEF ans
    <3> QED
      BY <2>2, <2>3
  <2>5. {stripped(o) : o \in podsIn(W, "Running")} = podsIn(W, "Running")
    BY <2>4
  <2>6. All(t, "Pod") = {stripped(o) : o \in {o \in D : o.kind = "Pod" /\ "Pod" \in ans}}
    BY <1>14
  <2> HIDE DEF ans
  <2> QED
    BY <2>2, <2>5, <2>6
<1>17. All(t, "Secret") = {stripped(o) : o \in {o \in W : o.kind = "Secret"}}
  <2>1. \A o \in W : o.kind = "Secret" => "Secret" \in ans
    BY <1>4
  <2>2. {o \in D : o.kind = "Secret"} = {o \in W : o.kind = "Secret"}
    BY <1>5
  <2>3. {o \in D : o.kind = "Secret" /\ "Secret" \in ans} = {o \in W : o.kind = "Secret"}
    <3> HIDE DEF ans
    <3> QED
      BY <2>1, <2>2
  <2>4. All(t, "Secret") =
          {stripped(o) : o \in {o \in D : o.kind = "Secret" /\ "Secret" \in ans}}
    BY <1>14
  <2> HIDE DEF ans
  <2> QED
    BY <2>3, <2>4
<1>18. /\ \A kind : kind # "Pod" => All(s, kind) = {o \in W : o.kind = kind}
       /\ All(s, "Pod") = podsIn(W, "")
  BY <1>6, <1>9
<1>19. QED
  BY <1>3, <1>5, <1>8, <1>10, <1>12, <1>15, <1>16, <1>17, <1>18 DEF W, s, t

LEMMA WrittenDeploys ==
    ASSUME TypeOK
    PROVE  Deploys(writtenSnapshot, liveSnapshot)
<1> DEFINE W == writtenIn(objects)
           s == writtenSnapshot
           t == liveSnapshot
<1>1. /\ IsCluster(W)
      /\ \A kind : kind # "Pod" => All(s, kind) = {o \in W : o.kind = kind}
      /\ All(s, "Pod") = podsIn(W, "")
      /\ \A kind : kind \notin {"Pod", "Secret"} => All(t, kind) = {o \in W : o.kind = kind}
      /\ All(t, "Pod") = podsIn(W, "Running")
      /\ All(t, "Secret") = {stripped(o) : o \in {o \in W : o.kind = "Secret"}}
  BY BothListWritten
<1>2. s.HasSecretAccess = FALSE
  BY DEF writtenSnapshot
<1> HIDE DEF W, s, t
<1>3. \A kind : kind \notin redeployed => All(t, kind) = All(s, kind)
  BY <1>1 DEF redeployed
<1> DEFINE T == {w \in W : w.kind \in templates}
<1>4. /\ All(s, "Pod") = {podIn(w, "") : w \in T}
      /\ All(t, "Pod") = {podIn(w, "Running") : w \in T}
  <2>1. /\ podsIn(W, "") = {podIn(w, "") : w \in T}
        /\ podsIn(W, "Running") = {podIn(w, "Running") : w \in T}
    BY Zenon DEF podsIn
  <2> HIDE DEF T
  <2> QED
    BY <1>1, <2>1, Zenon
<1> HIDE DEF T
<1>5. ASSUME NEW w, NEW phase
      PROVE  /\ podIn(w, phase).phase = phase /\ podIn(w, phase).statuses = {}
             /\ \A other : samePod(podIn(w, phase), podIn(w, other))
  BY DEF podIn, samePod
<1>6. ASSUME NEW p \in All(t, "Pod")
      PROVE  /\ \E q \in All(s, "Pod") : samePod(p, q)
             /\ p.phase \notin {"Succeeded", "Pending"} /\ p.statuses = {}
  <2>1. PICK w \in T : p = podIn(w, "Running")
    BY <1>4
  <2>2. podIn(w, "") \in All(s, "Pod")
    BY <1>4
  <2>3. samePod(p, podIn(w, "")) /\ p.phase = "Running" /\ p.statuses = {}
    BY <1>5, <2>1
  <2> QED
    BY <2>2, <2>3
<1>7. ASSUME NEW q \in All(s, "Pod")
      PROVE  (\E p \in All(t, "Pod") : samePod(p, q)) /\ q.phase # "Succeeded"
  <2>1. PICK w \in T : q = podIn(w, "")
    BY <1>4
  <2>2. podIn(w, "Running") \in All(t, "Pod")
    BY <1>4
  <2>3. samePod(podIn(w, "Running"), q) /\ q.phase = ""
    BY <1>5, <2>1
  <2> QED
    BY <2>2, <2>3
<1>10. ASSUME NEW y \in W, y.kind = "Secret"
       PROVE  sameSecret(stripped(y), y) /\ (stripped(y).leaf => y.leaf)
  <2> DEFINE x == [y EXCEPT !.leaf = @ /\ y.type = "tls"]
  <2>1. {"kind", "ns", "name", "type", "leaf", "left"} \subseteq DOMAIN y
    BY <1>1, <1>10 DEF IsCluster, IsObject
  <2>2. x.ns = y.ns /\ x.name = y.name /\ x.type = y.type /\ x.left = y.left
    BY <2>1
  <2>3. x.leaf => y.leaf
    BY <2>1
  <2>4. stripped(y) = x
    BY <1>10 DEF stripped
  <2> HIDE DEF x
  <2> QED
    BY <2>2, <2>3, <2>4 DEF sameSecret
<1>11. ASSUME NEW x \in All(t, "Secret")
       PROVE  \E y \in All(s, "Secret") : sameSecret(x, y) /\ (x.leaf => y.leaf)
  <2>1. PICK y \in {o \in W : o.kind = "Secret"} : x = stripped(y)
    BY <1>1
  <2>2. y \in All(s, "Secret")
    BY <1>1
  <2> QED
    BY <1>10, <2>1, <2>2
<1>12. ASSUME NEW y \in All(s, "Secret")
       PROVE  \E x \in All(t, "Secret") : sameSecret(x, y)
  <2>1. y \in W /\ y.kind = "Secret"
    BY <1>1
  <2>2. stripped(y) \in All(t, "Secret")
    BY <1>1, <2>1
  <2> QED
    BY <1>10, <2>1, <2>2
<1>13. Deploys(s, t)
  BY <1>2, <1>3, <1>6, <1>7, <1>11, <1>12 DEF Deploys
<1>14. QED
  BY <1>13 DEF s, t

\* What manifests leave out neither moves a template nor a namespace.
LEMMA DeclaredPods ==
    ASSUME TypeOK, NEW omitted, \A o \in omitted : mayOmit(o)
    PROVE  podsIn(declaredIn(omitted), "") = podsIn(writtenIn(objects), "")
<1> DEFINE W == writtenIn(objects)
           T(objs) == {w \in objs : w.kind \in templates}
<1>1. \A objs : podsIn(objs, "") = {podIn(w, "") : w \in T(objs)}
  BY Zenon DEF podsIn
<1>2. ASSUME NEW o \in W
      PROVE  /\ declared(o, omitted).kind = o.kind
             /\ o.kind \in templates => podIn(declared(o, omitted), "") = podIn(o, "")
  <2> DEFINE d == declared(o, omitted)
  <2>1. IsObject(o)
    BY ClusterIsValid DEF writtenIn, IsCluster
  <2>2. d.kind = o.kind /\ d.ns = o.ns /\ d.name = o.name
    BY <2>1, DeclaredFields
  <2>3. o.kind \in templates => d.spec = o.spec /\ d.labels = o.labels
    BY <2>1, DeclaredIsObject DEF templates, podKinds
  <2> HIDE DEF d
  <2>4. o.kind \in templates => podIn(d, "") = podIn(o, "")
    BY <2>2, <2>3, Zenon DEF podIn
  <2> QED
    BY <2>2, <2>4 DEF d
<1>3. declaredIn(omitted) = {declared(o, omitted) : o \in W}
  BY DEF declaredIn
<1> HIDE DEF W
<1> DEFINE pod(w) == podIn(w, "")
           D == T(declaredIn(omitted))
           E == T(W)
<1>4. \A d \in D : \E w \in E : pod(d) = pod(w)
  BY <1>2, <1>3
<1>5. \A w \in E : \E d \in D : pod(d) = pod(w)
  BY <1>2, <1>3
<1>6. podsIn(declaredIn(omitted), "") = {pod(d) : d \in D} /\ podsIn(W, "") = {pod(w) : w \in E}
  BY <1>1
<1>7. {pod(d) : d \in D} = {pod(w) : w \in E}
  <2> HIDE DEF pod, D, E
  <2>1. \A p \in {pod(d) : d \in D} : p \in {pod(w) : w \in E}
    BY <1>4
  <2>2. \A p \in {pod(w) : w \in E} : p \in {pod(d) : d \in D}
    BY <1>5
  <2> QED
    BY <2>1, <2>2
<1>8. QED
  BY <1>6, <1>7 DEF W

LEMMA DeclaredCover ==
    ASSUME TypeOK, NEW omitted
    PROVE  loadedNamespaces(declaredIn(omitted)) = loadedNamespaces(writtenIn(objects))
<1> DEFINE W == writtenIn(objects)
           D == declaredIn(omitted)
           spaces(objs) == names({o \in objs : o.kind = "Namespace"})
           homes(objs) == {o.ns : o \in {o \in objs : o.kind \notin clusterScoped}}
<1>1. \A objs : loadedNamespaces(objs) = spaces(objs) \cup homes(objs)
  BY Zenon DEF loadedNamespaces
<1>2. ASSUME NEW o \in W
      PROVE  /\ declared(o, omitted).kind = o.kind /\ declared(o, omitted).ns = o.ns
             /\ declared(o, omitted).name = o.name
  <2>1. IsObject(o)
    BY ClusterIsValid DEF writtenIn, IsCluster
  <2> QED
    BY <2>1, DeclaredFields
<1>3. D = {declared(o, omitted) : o \in W}
  BY DEF declaredIn
<1> HIDE DEF W, D
<1>4. spaces(D) = spaces(W)
  BY <1>2, <1>3 DEF names
<1>5. homes(D) = homes(W)
  BY <1>2, <1>3
<1>6. QED
  <2> HIDE DEF spaces, homes
  <2> QED
    BY <1>1, <1>4, <1>5 DEF W, D

LEMMA LoadOmits ==
    ASSUME TypeOK, UniqueNames, NEW omitted, \A o \in omitted : mayOmit(o)
    PROVE  Omits(loadedSnapshot(omitted), writtenSnapshot, omitted)
<1> DEFINE W == writtenIn(objects)
           D == declaredIn(omitted)
           P == podsIn(W, "")
           s == loadedSnapshot(omitted)
           t == writtenSnapshot
<1>1. /\ s.objects = D \cup P /\ s.HasSecretAccess = FALSE
      /\ t.objects = W \cup P /\ t.HasSecretAccess = FALSE
  <2>1. s.objects = D \cup podsIn(D, "") /\ s.HasSecretAccess = FALSE
    BY LoadedIs
  <2>2. podsIn(D, "") = P
    BY DeclaredPods
  <2>3. t.objects = W \cup P /\ t.HasSecretAccess = FALSE
    BY DEF writtenSnapshot
  <2> QED
    BY <2>1, <2>2, <2>3
<1>2. IsSnapshot(t) /\ IsCluster(W)
  BY BothListWritten
<1>3. IsSnapshot(s)
  <2>1. IsCluster(D) /\ \A o \in D : o.kind # "Pod"
    BY DeclaredAre
  <2>2. IsCluster(D \cup podsIn(D, ""))
    <3> HIDE DEF D
    <3> QED
      BY <2>1, WithPodsIsCluster
  <2>3. podsIn(D, "") = P
    BY DeclaredPods
  <2> HIDE DEF s, D, P
  <2> QED
    BY <1>1, <2>2, <2>3 DEF IsSnapshot, IsCluster
<1>4. s.objects = {declared(o, omitted) : o \in t.objects}
  <2>1. ASSUME NEW p \in P PROVE declared(p, omitted) = p
    <3>1. PICK w \in W : w.kind \in templates /\ p = podIn(w, "")
      BY DEF podsIn
    <3>2. IsObject(w)
      BY <1>2 DEF IsCluster
    <3>3. IsObject(p) /\ p.kind = "Pod"
      BY <3>1, <3>2, PodOfTemplate
    <3>4. p.kind \notin partial
      BY <3>3 DEF partial
    <3> QED
      BY <3>3, <3>4, DeclaredIsObject
  <2>2. D = {declared(o, omitted) : o \in W}
    BY DEF declaredIn
  <2> HIDE DEF s, t, D, P, W
  <2> QED
    BY <1>1, <2>1, <2>2
<1>5. \A o \in t.objects : o.kind \in {"Deployment", "StatefulSet"} => o \in objects
  <2>1. ASSUME NEW p \in P PROVE p.kind = "Pod"
    <3>1. PICK w \in W : p = podIn(w, "")
      BY DEF podsIn
    <3>2. podIn(w, "").kind = "Pod"
      BY DEF podIn
    <3> QED
      BY <3>1, <3>2
  <2>2. W \subseteq objects
    BY DEF writtenIn
  <2> HIDE DEF t, P, W
  <2> QED
    BY <1>1, <2>1, <2>2
<1>6. \A o \in t.objects : o.kind \in {"Deployment", "StatefulSet"} => o.replicas # NoReplicas
  <2>1. \A o \in objects : o.kind \in {"Deployment", "StatefulSet"} => o.replicas # NoReplicas
    BY ObjectsAssumption DEF TypeOK
  <2> HIDE DEF t
  <2> QED
    BY <1>5, <2>1
<1>7. \A o, p \in All(t, "Deployment") : o.ns = p.ns /\ o.name = p.name => o = p
  <2>1. \A o \in All(t, "Deployment") : o \in objects /\ o.kind = "Deployment"
    <3> HIDE DEF t
    <3> QED
      BY <1>5 DEF All
  <2> HIDE DEF t
  <2> QED
    BY <2>1 DEF UniqueNames, identity
<1>8. QED
  <2> HIDE DEF s, t, W, D, P
  <2>1. Omits(s, t, omitted)
    BY <1>1, <1>2, <1>3, <1>4, <1>6, <1>7 DEF Omits
  <2> QED
    BY <2>1 DEF s, t

\* Both cover the namespaces that are declared.
LEMMA LoadCovers ==
    ASSUME TypeOK, Housed, NEW omitted, \A o \in omitted : mayOmit(o)
    PROVE  Load(manifests(omitted)).namespaces = AppNamespaces(liveSnapshot, TRUE, {})
<1> DEFINE W == writtenIn(objects)
           spaces == {o \in W : o.kind = "Namespace"}
<1>1. Load(manifests(omitted)).namespaces = loadedNamespaces(W)
  <2>1. Load(manifests(omitted)).namespaces = loadedNamespaces(declaredIn(omitted))
    BY LoadedIs
  <2>2. loadedNamespaces(declaredIn(omitted)) = loadedNamespaces(W)
    BY DeclaredCover
  <2> QED
    BY <2>1, <2>2
<1>2. All(liveSnapshot, "Namespace") = spaces
  BY BothListWritten
<1>3. AppNamespaces(liveSnapshot, TRUE, {}) = names(spaces)
  <2>1. AppNamespaces(liveSnapshot, TRUE, {}) = names(All(liveSnapshot, "Namespace"))
    BY DEF AppNamespaces
  <2> QED
    BY <1>2, <2>1
<1>4. {o.ns : o \in {o \in W : o.kind \notin clusterScoped}} \subseteq names(spaces)
  <2> SUFFICES ASSUME NEW o \in W, o.kind \notin clusterScoped
               PROVE  o.ns \in names(spaces)
    OBVIOUS
  <2>1. o \in objects /\ o.kind \in knownKinds /\ IsObject(o)
    BY ClusterIsValid DEF writtenIn, IsCluster
  <2>2. o.ns # ""
    <3>1. o.kind \notin unscoped
      BY <2>1 DEF unscoped, clusterScoped, knownKinds
    <3> QED
      BY <2>1, <3>1 DEF IsObject
  <2>3. PICK p \in objects : p.kind = "Namespace" /\ p.name = o.ns
    BY <2>1, <2>2 DEF Housed, inNamespace
  <2>4. p \in spaces
    BY <2>3 DEF writtenIn, knownKinds
  <2> QED
    BY <2>3, <2>4 DEF names
<1>5. loadedNamespaces(W) =
        names(spaces) \cup {o.ns : o \in {o \in W : o.kind \notin clusterScoped}}
  BY Zenon DEF loadedNamespaces
<1>6. QED
  <2> HIDE DEF W, spaces
  <2> QED
    BY <1>1, <1>3, <1>4, <1>5

\* References are shown in the order of their names.
LEMMA WrittenAreRanked ==
    ASSUME TypeOK, NEW covered
    PROVE  Ranked(tlsUsers(writtenSnapshot, covered))
<1> DEFINE W == writtenIn(objects)
<1>1. \A o \in objects : Rank(o.name) \in Nat
  BY ObjectsAssumption DEF TypeOK
<1>2. W \subseteq objects /\ IsFiniteSet(W)
  BY BothListWritten DEF writtenIn, IsCluster
<1>3. tlsUsers(writtenSnapshot, covered) \subseteq
        All(writtenSnapshot, "Ingress") \cup All(writtenSnapshot, "Gateway")
  BY DEF tlsUsers
<1>4. All(writtenSnapshot, "Ingress") \subseteq W /\ All(writtenSnapshot, "Gateway") \subseteq W
  <2>1. \A kind : kind # "Pod" => All(writtenSnapshot, kind) = {o \in W : o.kind = kind}
    BY BothListWritten
  <2> QED
    BY <2>1
<1> HIDE DEF W
<1>5. QED
  BY <1>1, <1>2, <1>3, <1>4, SubsetIsFinite DEF Ranked

LEMMA AnalysisSays ==
    ASSUME NEW s, IsSnapshot(s), s.HasSecretAccess \in BOOLEAN, NEW used, IsUsage(used),
           NEW o, IsCost(o.cost),
           NEW covered, covered = AppNamespaces(s, o.includeSystem, o.only)
    PROVE  /\ Analyze(s, used, o).namespaces = AssignTeams(Namespaces(s, covered), s, o)
           /\ Analyze(s, used, o).sections = sectionsOf(s, covered, used, o)
<1> DEFINE r == Analyze(s, used, o)
           C == AppNamespaces(s, o.includeSystem, o.only)
<1>1. /\ HasShape(r)
      /\ r.summary = [severity \in Ok..Critical |-> number(r, severity)]
      /\ r.namespaces = AssignTeams(Namespaces(s, C), s, o)
      /\ r.sections = sectionsOf(s, C, used, o)
  BY AnalysisShape
<1> HIDE DEF r
<1>2. /\ r.namespaces = AssignTeams(Namespaces(s, covered), s, o)
      /\ r.sections = sectionsOf(s, covered, used, o)
  BY <1>1
<1>3. QED
  BY <1>2 DEF r

LEMMA LintIs ==
    ASSUME NEW o, NEW omitted
    PROVE  LET r == Lint(manifests(omitted), o)
               s == loadedSnapshot(omitted)
               covered == Load(manifests(omitted)).namespaces
           IN /\ r.namespaces = AssignTeams(Namespaces(s, covered), s, o)
              /\ r.sections = [security |-> Security(s, covered),
                               certificates |-> Certificates(s, covered),
                               deprecations |-> Deprecations(s, covered)]
<1> DEFINE s == loadedSnapshot(omitted)
           covered == Load(manifests(omitted)).namespaces
           namespaces == AssignTeams(Namespaces(s, covered), s, o)
           sections == [security |-> Security(s, covered),
                        certificates |-> Certificates(s, covered),
                        deprecations |-> Deprecations(s, covered)]
<1>1. Lint(manifests(omitted), o) = Finalize(namespaces, sections)
  BY Zenon DEF Lint, loadedSnapshot
<1> HIDE DEF namespaces, sections
<1>2. /\ Lint(manifests(omitted), o).namespaces = namespaces
      /\ Lint(manifests(omitted), o).sections = sections
  <2>1. /\ Finalize(namespaces, sections).namespaces = namespaces
        /\ Finalize(namespaces, sections).sections = sections
    BY FinalizeCounts
  <2> QED
    BY <1>1, <2>1
<1>3. QED
  BY <1>2 DEF namespaces, sections

\* What lint says of a section is found in its report.
lintSays(o, omitted, id, g) ==
    \E m \in located(Lint(manifests(omitted), o)) : m.at = <<"section", id>> /\ m.finding = g

LEMMA LintSection ==
    ASSUME NEW o, NEW omitted, NEW covered,
           covered = Load(manifests(omitted)).namespaces, NEW g
    PROVE  /\ g \in Security(loadedSnapshot(omitted), covered) =>
                lintSays(o, omitted, "security", g)
           /\ g \in Certificates(loadedSnapshot(omitted), covered) =>
                lintSays(o, omitted, "certificates", g)
           /\ g \in Deprecations(loadedSnapshot(omitted), covered) =>
                lintSays(o, omitted, "deprecations", g)
<1> DEFINE r == Lint(manifests(omitted), o)
           A == Security(loadedSnapshot(omitted), covered)
           B == Certificates(loadedSnapshot(omitted), covered)
           C == Deprecations(loadedSnapshot(omitted), covered)
<1>1. r.sections = [security |-> A, certificates |-> B, deprecations |-> C]
  BY LintIs
<1> HIDE DEF r, A, B, C
<1>2. ASSUME NEW id \in DOMAIN r.sections, g \in r.sections[id]
      PROVE  lintSays(o, omitted, id, g)
  <2>1. placedAt(<<"section", id>>, "", r.sections[id]) \subseteq located(r)
    BY LocatedContains
  <2>2. [at |-> <<"section", id>>, team |-> "", finding |-> g] \in located(r)
    BY <1>2, <2>1 DEF placedAt
  <2> QED
    BY <2>2 DEF r, lintSays
<1>3. /\ {"security", "certificates", "deprecations"} \subseteq DOMAIN r.sections
      /\ r.sections["security"] = A /\ r.sections["certificates"] = B
      /\ r.sections["deprecations"] = C
  BY <1>1
<1>4. QED
  BY <1>2, <1>3 DEF A, B, C

\* Each finding of the deployed cluster is told by lint of the same place, in the
\* sections both have: TLS Secrets that are missing apart, and what the manifests leave
\* out.
lintTold(l, o, omitted) ==
    \/ l.at[1] = "section" /\ l.at[2] \notin {"security", "certificates", "deprecations"}
    \/ l.finding.message \in missingTLS
    \/ isFilledIn(l, omitted)
    \/ \E m \in located(Lint(manifests(omitted), o)) : foretold(l, m)

LEMMA SectionTold ==
    ASSUME NEW l, NEW o, NEW omitted, NEW id, l.at = <<"section", id>>, NEW g,
           lintSays(o, omitted, id, g), tells(g, l.finding)
    PROVE  lintTold(l, o, omitted)
<1>1. PICK m \in located(Lint(manifests(omitted), o)) :
         m.at = <<"section", id>> /\ m.finding = g
  BY DEF lintSays
<1>2. foretold(l, m)
  BY <1>1 DEF foretold, tells
<1>3. QED
  BY <1>2 DEF lintTold

LEMMA LintTells ==
    ASSUME TypeOK, UniqueNames, Housed, NEW omitted, \A p \in omitted : mayOmit(p),
           NEW o, o.only = {}, o.includeSystem = TRUE, IsCost(o.cost),
           NEW l \in located(Analyze(liveSnapshot, {}, o))
    PROVE  lintTold(l, o, omitted)
<1> DEFINE s == loadedSnapshot(omitted)
           w == writtenSnapshot
           t == liveSnapshot
           covered == Load(manifests(omitted)).namespaces
           r == Analyze(t, {}, o)
           q == Lint(manifests(omitted), o)
<1>1. IsSnapshot(w) /\ IsSnapshot(t) /\ t.HasSecretAccess \in BOOLEAN
  BY BothListWritten
<1>2. Deploys(w, t)
  BY WrittenDeploys
<1>2a. Omits(s, w, omitted)
  BY LoadOmits
<1>2b. IsSnapshot(s)
  BY <1>2a DEF Omits
<1>3. covered = AppNamespaces(t, o.includeSystem, o.only)
  BY LoadCovers
<1>4. Ranked(tlsUsers(w, covered))
  BY WrittenAreRanked
<1>5. IsFiniteSet(covered)
  <2> HIDE DEF s, w, t, covered
  <2> QED
    BY <1>1, <1>3, CoveredAreFinite
<1>6. IsUsage({})
  BY FS_EmptySet DEF IsUsage
<1>7. /\ r.namespaces = AssignTeams(Namespaces(t, covered), t, o)
      /\ r.sections = sectionsOf(t, covered, {}, o)
  <2> DEFINE none == {}
  <2>1. IsUsage(none)
    BY <1>6
  <2> HIDE DEF t, covered, none
  <2>2. /\ Analyze(t, none, o).namespaces = AssignTeams(Namespaces(t, covered), t, o)
        /\ Analyze(t, none, o).sections = sectionsOf(t, covered, none, o)
    BY <1>1, <1>3, <2>1, AnalysisSays
  <2> QED
    BY <2>2, Zenon DEF none
<1>8. q.namespaces = AssignTeams(Namespaces(s, covered), s, o)
  BY LintIs
<1>9. /\ r.namespaces = {[name |-> ns, team |-> teamOfNamespace(t, ns, o),
                          findings |-> namespaceFindings(t, ns)] : ns \in covered}
      /\ q.namespaces = {[name |-> ns, team |-> teamOfNamespace(s, ns, o),
                          findings |-> namespaceFindings(s, ns)] : ns \in covered}
  <2> HIDE DEF s, w, t, covered, r, q
  <2>1. \A u : IsSnapshot(u) =>
          AssignTeams(Namespaces(u, covered), u, o) =
            {[name |-> ns, team |-> teamOfNamespace(u, ns, o),
              findings |-> namespaceFindings(u, ns)] : ns \in covered}
    BY <1>5, NamespacesShape
  <2>2. /\ AssignTeams(Namespaces(t, covered), t, o) =
             {[name |-> ns, team |-> teamOfNamespace(t, ns, o),
               findings |-> namespaceFindings(t, ns)] : ns \in covered}
        /\ AssignTeams(Namespaces(s, covered), s, o) =
             {[name |-> ns, team |-> teamOfNamespace(s, ns, o),
               findings |-> namespaceFindings(s, ns)] : ns \in covered}
    BY <1>1, <1>2b, <2>1
  <2> QED
    BY <1>7, <1>8, <2>2, Zenon
<1>10. CASE \E space \in r.namespaces :
              l.at = <<"namespace", space.name>> /\ l.finding \in space.findings
  <2>1. PICK space \in r.namespaces :
              l.at = <<"namespace", space.name>> /\ l.finding \in space.findings
    BY <1>10
  <2> HIDE DEF s, w, t, covered, r, q
  <2>2. PICK ns \in covered : space = [name |-> ns, team |-> teamOfNamespace(t, ns, o),
                                       findings |-> namespaceFindings(t, ns)]
    BY <1>9, <2>1
  <2>3. l.at = <<"namespace", ns>> /\ l.finding \in namespaceFindings(t, ns)
    BY <2>1, <2>2
  <2>4. Foretold(namespaceFindings(t, ns), namespaceFindings(w, ns))
    BY <1>1, <1>2, NamespaceForetold
  <2>5. PICK f \in namespaceFindings(w, ns) : foretells(f, l.finding)
    BY <2>3, <2>4 DEF Foretold
  <2>6. \/ \E g \in namespaceFindings(s, ns) : reports(g, f)
        \/ ofFilledReplicas(f, omitted, ns)
    BY <1>2a, DeclaredNamespace
  <2>7. CASE ofFilledReplicas(f, omitted, ns)
    <3>1. isFilledIn(l, omitted)
      BY <2>3, <2>5, <2>7 DEF ofFilledReplicas, foretells, isFilledIn
    <3> QED
      BY <3>1 DEF lintTold
  <2>8. CASE \E g \in namespaceFindings(s, ns) : reports(g, f)
    <3>1. PICK g \in namespaceFindings(s, ns) : reports(g, f)
      BY <2>8
    <3> DEFINE home == [name |-> ns, team |-> teamOfNamespace(s, ns, o),
                        findings |-> namespaceFindings(s, ns)]
               m == [at |-> <<"namespace", ns>>, team |-> home.team, finding |-> g]
    <3>2. home \in q.namespaces /\ home.name = ns /\ home.findings = namespaceFindings(s, ns)
      BY <1>9
    <3> HIDE DEF home
    <3>3. placedAt(<<"namespace", home.name>>, home.team, home.findings) \subseteq located(q)
      BY <3>2, LocatedContains
    <3>4. m \in located(q)
      BY <3>1, <3>2, <3>3 DEF placedAt
    <3>5. m.at = l.at /\ m.finding = g
      BY <2>3
    <3> HIDE DEF m
    <3>6. foretold(l, m)
      BY <2>5, <3>1, <3>5 DEF foretells, reports, foretold
    <3> QED
      BY <3>4, <3>6 DEF lintTold, q
  <2> QED
    BY <2>6, <2>7, <2>8
<1>11. CASE \E id \in DOMAIN r.sections :
              l.at = <<"section", id>> /\ l.finding \in r.sections[id]
  <2>1. PICK id \in DOMAIN r.sections :
              l.at = <<"section", id>> /\ l.finding \in r.sections[id]
    BY <1>11
  <2>2. l.at[1] = "section" /\ l.at[2] = id
    BY <2>1
  <2>3. ASSUME NEW g
        PROVE  /\ g \in Security(s, covered) => lintSays(o, omitted, "security", g)
               /\ g \in Certificates(s, covered) => lintSays(o, omitted, "certificates", g)
               /\ g \in Deprecations(s, covered) => lintSays(o, omitted, "deprecations", g)
    <3> DEFINE spaces == covered
    <3>1. spaces = Load(manifests(omitted)).namespaces
      OBVIOUS
    <3> HIDE DEF spaces
    <3> QED
      BY <3>1, LintSection
  <2> HIDE DEF s, w, t, covered, r, q
  <2>4. /\ analyzed(t, covered, {}, o)["security"] = Security(t, covered)
        /\ analyzed(t, covered, {}, o)["certificates"] = Certificates(t, covered)
        /\ analyzed(t, covered, {}, o)["deprecations"] = Deprecations(t, covered)
    BY DEF analyzed
  <2>5. ASSUME NEW i \in SectionIds \ {"optimization"}
        PROVE  r.sections[i] = analyzed(t, covered, {}, o)[i]
    BY <1>7, <2>5, SectionsAreAnalyzed
  <2>6. CASE id = "security"
    <3>1. l.finding \in Security(t, covered)
      BY <2>1, <2>4, <2>5, <2>6 DEF SectionIds
    <3>2. PICK g \in Security(w, covered) : tells(g, l.finding)
      BY <1>1, <1>2, <3>1, SecurityTold
    <3>3. g \in Security(s, covered)
      BY <1>2a, <3>2, DeclaredSecurity
    <3>4. lintSays(o, omitted, id, g)
      BY <2>3, <2>6, <3>3
    <3> QED
      BY <2>1, <3>2, <3>4, SectionTold
  <2>7. CASE id = "certificates"
    <3>1. l.finding \in Certificates(t, covered)
      BY <2>1, <2>4, <2>5, <2>7 DEF SectionIds
    <3>2. l.finding.message \in missingTLS \/ l.finding \in Certificates(w, covered)
      BY <1>1, <1>2, <1>4, <3>1, CertificatesTold
    <3>3. CASE l.finding.message \in missingTLS
      BY <3>3 DEF lintTold
    <3>4. CASE l.finding \in Certificates(s, covered)
      <4>1. lintSays(o, omitted, id, l.finding)
        BY <2>3, <2>7, <3>4
      <4>2. tells(l.finding, l.finding)
        BY DEF tells
      <4> QED
        BY <2>1, <4>1, <4>2, SectionTold
    <3>5. CASE \E p \in omitted : /\ p.kind = "Secret"
                                  /\ l.finding.object = <<"secret", p.ns, p.name>>
      <4>1. isFilledIn(l, omitted)
        BY <2>1, <2>7, <3>5 DEF isFilledIn
      <4> QED
        BY <4>1 DEF lintTold
    <3>6. l.finding \in Certificates(w, covered) =>
             \/ l.finding \in Certificates(s, covered)
             \/ \E p \in omitted : /\ p.kind = "Secret"
                                    /\ l.finding.object = <<"secret", p.ns, p.name>>
      BY <1>2a, DeclaredCertificates
    <3> QED
      BY <3>2, <3>3, <3>4, <3>5, <3>6
  <2>8. CASE id = "deprecations"
    <3>1. l.finding \in Deprecations(t, covered)
      BY <2>1, <2>4, <2>5, <2>8 DEF SectionIds
    <3>2. l.finding \in Deprecations(w, covered)
      BY <1>2, <3>1, DeployedDeprecations
    <3>3. l.finding \in Deprecations(s, covered)
      BY <1>2a, <3>2, DeclaredDeprecations
    <3>4. lintSays(o, omitted, id, l.finding)
      BY <2>3, <2>8, <3>3
    <3>5. tells(l.finding, l.finding)
      BY DEF tells
    <3> QED
      BY <2>1, <3>4, <3>5, SectionTold
  <2>9. CASE id \notin {"security", "certificates", "deprecations"}
    BY <2>2, <2>9 DEF lintTold
  <2> QED
    BY <2>6, <2>7, <2>8, <2>9
<1>12. QED
  <2>1. l \in located(r)
    OBVIOUS
  <2> HIDE DEF r
  <2>2. \/ \E space \in r.namespaces :
              l.at = <<"namespace", space.name>> /\ l.finding \in space.findings
        \/ \E id \in DOMAIN r.sections :
              l.at = <<"section", id>> /\ l.finding \in r.sections[id]
    BY <2>1, LocatedWhere
  <2> QED
    BY <1>10, <1>11, <2>2

\* LintPredictsLive: whatever the cluster holds, and whatever its manifests leave to the
\* API server, lint of them reports each finding that an analysis of the deployed, healthy
\* cluster reports in the sections they share.  Apart are TLS Secrets that are missing,
\* and what is read off a value left out: single replicas and certificates.
THEOREM LintForetells == Spec => []LintPredictsLive
<1>1. ASSUME IInv PROVE LintPredictsLive
  <2> DEFINE all == [opts EXCEPT !.only = {}, !.includeSystem = TRUE]
  <2>1. /\ {"only", "includeSystem", "cost"} \subseteq DOMAIN opts
        /\ opts.cost.cpu \in Nat /\ opts.cost.gib \in Nat
    BY <1>1, OptionsAssumption DEF IInv, TypeOK
  <2>2. all.only = {} /\ all.includeSystem = TRUE /\ all.cost = opts.cost
    BY <2>1
  <2> HIDE DEF all
  <2>3. IsCost(all.cost)
    BY <2>1, <2>2 DEF IsCost
  <2>4. TypeOK /\ UniqueNames /\ Housed
    BY <1>1 DEF IInv
  <2>5. \A o \in omissible : mayOmit(o)
    BY DEF omissible, mayOmit
  <2>6. ASSUME NEW omitted \in SUBSET omissible,
               NEW l \in located(Analyze(liveSnapshot, {}, all))
        PROVE  lintTold(l, all, omitted)
    <3>1. \A p \in omitted : mayOmit(p)
      BY <2>5
    <3> QED
      BY <2>2, <2>3, <2>4, <3>1, LintTells
  <2>7. \A a \in {all}, omitted \in SUBSET omissible :
          \A lint \in {located(Lint(manifests(omitted), a))},
             l \in located(Analyze(liveSnapshot, {}, a)) :
               \/ l.finding.severity = Ok
               \/ l.at[1] = "section"
                    /\ l.at[2] \notin {"security", "certificates", "deprecations"}
               \/ l.finding.message \in missingTLS
               \/ isFilledIn(l, omitted)
               \/ \E m \in lint : foretold(l, m)
    <3> SUFFICES ASSUME NEW a \in {all}, NEW omitted \in SUBSET omissible,
                        NEW lint \in {located(Lint(manifests(omitted), a))},
                        NEW l \in located(Analyze(liveSnapshot, {}, a))
                 PROVE  \/ l.finding.severity = Ok
                        \/ l.at[1] = "section"
                             /\ l.at[2] \notin {"security", "certificates", "deprecations"}
                        \/ l.finding.message \in missingTLS
                        \/ isFilledIn(l, omitted)
                        \/ \E m \in lint : foretold(l, m)
      OBVIOUS
    <3>1. a = all /\ lint = located(Lint(manifests(omitted), all))
      OBVIOUS
    <3>2. l \in located(Analyze(liveSnapshot, {}, all))
      BY <3>1, Zenon
    <3>3. lintTold(l, all, omitted)
      BY <2>6, <3>2
    <3> QED
      BY <3>1, <3>3, Zenon DEF lintTold
  <2> QED
    BY <2>7, Zenon DEF LintPredictsLive, liveSnapshot, all
<1>2. QED
  BY <1>1, GuardianInvariant, PTL
=============================================================================
