--------------------------- MODULE AnalysisProofs ---------------------------
(***************************************************************************)
(* What the analysis of one snapshot promises, whatever the cluster holds: *)
(* the score, the arithmetic of the checks, the shape of what they find.   *)
(***************************************************************************)
EXTENDS Analyzer, FiniteSetTheorems, FunctionTheorems, WellFoundedInduction, TLAPS


\* A score is within 0..100, however many findings there are: the subtraction
\* is clamped (scoreOf).
THEOREM ScoreIsBounded ==
    ASSUME NEW c \in Nat, NEW w \in Nat, NEW i \in Nat
    PROVE  scoreOf(c, w, i) \in 0..100
<1> DEFINE score == 100 - 15 * c - 4 * w - 1 * i
<1>1. scoreOf(c, w, i) = IF score < 0 THEN 0 ELSE score
  BY DEF scoreOf, scoreCostCritical, scoreCostWarning, scoreCostInfo
<1>2. score \in Int /\ score <= 100
  OBVIOUS
<1>3. QED
  BY <1>1, <1>2

\* A report that has no fewer findings of any severity has no better score.
THEOREM MoreFindingsNeverScoreBetter ==
    ASSUME NEW c \in Nat, NEW w \in Nat, NEW i \in Nat,
           NEW d \in Nat, NEW x \in Nat, NEW j \in Nat,
           c <= d, w <= x, i <= j
    PROVE  scoreOf(d, x, j) <= scoreOf(c, w, i)
<1> DEFINE before == 100 - 15 * c - 4 * w - 1 * i
           after == 100 - 15 * d - 4 * x - 1 * j
<1>1. /\ scoreOf(c, w, i) = IF before < 0 THEN 0 ELSE before
      /\ scoreOf(d, x, j) = IF after < 0 THEN 0 ELSE after
  BY DEF scoreOf, scoreCostCritical, scoreCostWarning, scoreCostInfo
<1>2. before \in Int /\ after \in Int /\ after <= before
  OBVIOUS
<1>3. QED
  BY <1>1, <1>2

\* A lower score has no better grade, across every threshold of GradeOf.
LEMMA GradeFollowsScore ==
    ASSUME NEW m \in Int, NEW n \in Int, m <= n
    PROVE  GradeOf(m) <= GradeOf(n)
BY DEF GradeOf

\* The grade neither improves with more findings, nor is an A (5) while any is
\* critical, whatever else the report holds.
THEOREM GradesAreHonest ==
    ASSUME NEW c \in Nat, NEW w \in Nat, NEW i \in Nat,
           NEW d \in Nat, NEW x \in Nat, NEW j \in Nat,
           c <= d, w <= x, i <= j
    PROVE  /\ GradeOf(scoreOf(d, x, j)) <= GradeOf(scoreOf(c, w, i))
           /\ d > 0 => GradeOf(scoreOf(d, x, j)) <= 4
<1>1. scoreOf(c, w, i) \in Int /\ scoreOf(d, x, j) \in Int
  <2>1. scoreOf(c, w, i) \in 0..100
    BY ScoreIsBounded
  <2>2. scoreOf(d, x, j) \in 0..100
    BY ScoreIsBounded
  <2>3. QED
    BY <2>1, <2>2
<1>2. GradeOf(scoreOf(d, x, j)) <= GradeOf(scoreOf(c, w, i))
  BY <1>1, MoreFindingsNeverScoreBetter, GradeFollowsScore
<1>3. ASSUME d > 0 PROVE GradeOf(scoreOf(d, x, j)) <= 4
  <2>1. scoreOf(d, x, j) <= scoreOf(1, 0, 0)
    BY <1>3, MoreFindingsNeverScoreBetter
  <2>2. scoreOf(1, 0, 0) = 85
    BY DEF scoreOf, scoreCostCritical, scoreCostWarning, scoreCostInfo
  <2>3. GradeOf(scoreOf(d, x, j)) <= GradeOf(85)
    BY <1>1, <2>1, <2>2, GradeFollowsScore
  <2>4. GradeOf(85) = 4
    BY DEF GradeOf
  <2>5. QED
    BY <2>3, <2>4
<1>4. QED
  BY <1>2, <1>3-----------------------------------------------------------------------------
(***************************************************************************)
(* Finite sets: a minimal counterexample stands for an induction.          *)
(***************************************************************************)

\* Of sets within a finite one, some smallest one has what any of them has.
LEMMA SmallestSubset ==
    ASSUME NEW S, IsFiniteSet(S), NEW Bad, Bad \subseteq SUBSET S, Bad # {}
    PROVE  \E T \in Bad : \A U \in Bad : ~ (U \subseteq T /\ U # T)
<1>1. IsWellFoundedOn(StrictSubsetOrdering(S), SUBSET S)
  BY FS_StrictSubsetOrderingWellFounded, FS_FiniteSubsetsOfFinite
<1>2. PICK T \in Bad : \A U \in Bad : ~ (<<U, T>> \in StrictSubsetOrdering(S))
  <2> HIDE DEF StrictSubsetOrdering
  <2> QED BY <1>1, WFMin, Zenon
<1>3. QED
  BY <1>2, Zenon DEF StrictSubsetOrdering

\* The values of a function on a finite set are finitely many.
LEMMA ImageIsFinite ==
    ASSUME NEW S, IsFiniteSet(S), NEW f
    PROVE  IsFiniteSet({f[x] : x \in S})
<1> DEFINE T == {f[x] : x \in S}
           g == [x \in S |-> f[x]]
<1>1. g \in Surjection(S, T)
  BY Fun_IsSurj, Zenon
<1>2. QED
  BY <1>1, FS_Surjection

\* A finite set of integers has a largest member, and Max is it.
LEMMA MaxIsLargest ==
    ASSUME NEW S, IsFiniteSet(S), S # {}, \A x \in S : x \in Int
    PROVE  Max(S) \in S /\ \A x \in S : Max(S) >= x
<1> DEFINE Bad == {T \in SUBSET S : T # {} /\ ~ \E m \in T : \A x \in T : m >= x}
<1>1. Bad = {}
  <2> SUFFICES ASSUME Bad # {} PROVE FALSE
    OBVIOUS
  <2>1. PICK T \in Bad : \A U \in Bad : ~ (U \subseteq T /\ U # T)
    <3> Bad \subseteq SUBSET S
      OBVIOUS
    <3> HIDE DEF Bad
    <3> QED
      BY SmallestSubset
  <2>2. PICK x \in T : TRUE
    OBVIOUS
  <2>3. T \ {x} \notin Bad /\ T \ {x} \in SUBSET S
    BY <2>1, <2>2, Zenon
  <2>4. CASE T \ {x} = {}
    <3>1. \A y \in T : y = x
      BY <2>4
    <3>2. QED
      BY <2>2, <3>1
  <2>5. CASE T \ {x} # {}
    <3>1. PICK m \in T \ {x} : \A y \in T \ {x} : m >= y
      BY <2>3, <2>5
    <3>2. QED
      BY <3>1, <2>2
  <2>6. QED
    BY <2>4, <2>5
<1>2. \E m \in S : \A x \in S : m >= x
  BY <1>1
<1>3. QED
  BY <1>2, Zenon DEF Max
-----------------------------------------------------------------------------
(***************************************************************************)
(* The sums of the checks: SumFunction, by its definition.                 *)
(***************************************************************************)
chosen(s) == CHOOSE x \in s : TRUE

\* g sums f over every subset of S, taking out one member at a time.
Sums(f, S, g) ==
    g = [s \in SUBSET S |-> IF s = {} THEN 0
                            ELSE f[chosen(s)] + g[s \ {chosen(s)}]]

LEMMA SumUnfolds ==
    ASSUME NEW f
    PROVE  SumFunction(f) = (CHOOSE g : Sums(f, DOMAIN f, g))[DOMAIN f]
BY Zenon DEF SumFunction, SumFunctionOnSet, FoldFunctionOnSet, MapThenFoldSet, Sums,
             chosen

LEMMA ChosenIsMember ==
    ASSUME NEW s, s # {}
    PROVE  chosen(s) \in s
BY DEF chosen

\* Two such functions agree where both are defined.
LEMMA SumsAgree ==
    ASSUME NEW f, NEW S, NEW T, NEW g, NEW h, IsFiniteSet(S),
           Sums(f, S, g), Sums(f, T, h), NEW s \in SUBSET S, s \subseteq T
    PROVE  g[s] = h[s]
<1> DEFINE Bad == {u \in SUBSET S : u \subseteq T /\ g[u] # h[u]}
<1> SUFFICES ASSUME Bad # {} PROVE FALSE
  OBVIOUS
<1>1. PICK u \in Bad : \A v \in Bad : ~ (v \subseteq u /\ v # u)
  <2> Bad \subseteq SUBSET S
    OBVIOUS
  <2> HIDE DEF Bad
  <2> QED
    BY SmallestSubset
<1>2. u # {}
  <2>1. g[{}] = 0
    BY Zenon DEF Sums
  <2>2. h[{}] = 0
    BY Zenon DEF Sums
  <2> QED
    BY <1>1, <2>1, <2>2
<1>3. chosen(u) \in u
  BY <1>2, ChosenIsMember
<1>4. g[u \ {chosen(u)}] = h[u \ {chosen(u)}]
  BY <1>1, <1>3
<1>5. g[u] = f[chosen(u)] + g[u \ {chosen(u)}]
  BY <1>1, <1>2, Zenon DEF Sums
<1>6. h[u] = f[chosen(u)] + h[u \ {chosen(u)}]
  BY <1>1, <1>2, Zenon DEF Sums
<1>7. QED
  BY <1>1, <1>4, <1>5, <1>6

\* There is one for every finite set.
LEMMA SumsExist ==
    ASSUME NEW f, NEW S, IsFiniteSet(S)
    PROVE  \E g : Sums(f, S, g)
<1> DEFINE Bad == {T \in SUBSET S : ~ \E g : Sums(f, T, g)}
<1> SUFFICES ASSUME Bad # {} PROVE FALSE
  OBVIOUS
<1>1. PICK T \in Bad : \A U \in Bad : ~ (U \subseteq T /\ U # T)
  <2> Bad \subseteq SUBSET S
    OBVIOUS
  <2> HIDE DEF Bad
  <2> QED
    BY SmallestSubset
<1> DEFINE G(u) == CHOOSE g : Sums(f, u, g)
           rest(s) == s \ {chosen(s)}
           h == [s \in SUBSET T |-> IF s = {} THEN 0
                                    ELSE f[chosen(s)] + G(rest(s))[rest(s)]]
<1>2. \A u : u \subseteq T /\ u # T => Sums(f, u, G(u))
  BY <1>1, Zenon
<1>3. ASSUME NEW u, u \subseteq T, u # T
      PROVE  h[u] = G(u)[u]
  <2>1. Sums(f, u, G(u))
    BY <1>2, <1>3
  <2>2. CASE u = {}
    <3>1. G(u)[u] = 0
      BY <2>1, <2>2, Zenon DEF Sums
    <3>2. h[u] = 0
      BY <2>2, <1>3, Zenon
    <3> QED
      BY <3>1, <3>2
  <2>3. CASE u # {}
    <3>1. rest(u) \subseteq u /\ rest(u) # u
      BY <2>3, ChosenIsMember
    <3>2. Sums(f, rest(u), G(rest(u)))
      BY <1>2, <1>3, <3>1
    <3>3. IsFiniteSet(u)
      BY <1>1, <1>3, FS_Subset
    <3>4. G(u)[rest(u)] = G(rest(u))[rest(u)]
      <4> HIDE DEF G, rest
      <4> QED
        BY <2>1, <3>1, <3>2, <3>3, SumsAgree
    <3>5. G(u)[u] = f[chosen(u)] + G(u)[rest(u)]
      BY <2>1, <2>3, Zenon DEF Sums
    <3>6. h[u] = f[chosen(u)] + G(rest(u))[rest(u)]
      BY <2>3, <1>3, Zenon
    <3> QED
      BY <3>4, <3>5, <3>6
  <2> QED
    BY <2>2, <2>3
<1>4. ASSUME NEW s \in SUBSET T, s # {}
      PROVE  G(rest(s))[rest(s)] = h[rest(s)]
  <2>1. rest(s) \subseteq T /\ rest(s) # T
    BY <1>4, ChosenIsMember
  <2> HIDE DEF G, h, rest
  <2> QED
    BY <2>1, <1>3
<1>5. h = [s \in SUBSET T |-> IF s = {} THEN 0 ELSE f[chosen(s)] + h[rest(s)]]
  <2> DEFINE k == [s \in SUBSET T |-> IF s = {} THEN 0 ELSE f[chosen(s)] + h[rest(s)]]
  <2>1. DOMAIN h = SUBSET T /\ DOMAIN k = SUBSET T
    OBVIOUS
  <2>2. ASSUME NEW s \in SUBSET T PROVE h[s] = k[s]
    <3>1. CASE s = {}
      BY <3>1
    <3>2. CASE s # {}
      <4>1. h[s] = f[chosen(s)] + G(rest(s))[rest(s)]
        BY <3>2, Zenon
      <4>2. k[s] = f[chosen(s)] + h[rest(s)]
        BY <3>2, Zenon
      <4> QED
        BY <4>1, <4>2, <1>4, <3>2, Zenon
    <3> QED
      BY <3>1, <3>2
  <2> HIDE DEF k, h
  <2> QED
    BY <2>1, <2>2, Zenon DEF h, k
<1>6. Sums(f, T, h)
  <2> HIDE DEF h
  <2> QED
    BY <1>5, Zenon DEF Sums
<1>7. QED
  BY <1>1, <1>6, Zenon

\* What SumFunction is: some sum over all subsets, taken of the whole.
LEMMA SumIsOfAll ==
    ASSUME NEW f, IsFiniteSet(DOMAIN f)
    PROVE  \E g : Sums(f, DOMAIN f, g) /\ SumFunction(f) = g[DOMAIN f]
BY SumUnfolds, SumsExist, Zenon

\* A sum of natural numbers is one.
LEMMA SumIsNat ==
    ASSUME NEW f, IsFiniteSet(DOMAIN f), \A x \in DOMAIN f : f[x] \in Nat
    PROVE  SumFunction(f) \in Nat
<1> DEFINE S == DOMAIN f
<1>1. PICK g : Sums(f, S, g) /\ SumFunction(f) = g[S]
  BY SumIsOfAll, Zenon
<1> DEFINE Bad == {T \in SUBSET S : g[T] \notin Nat}
<1>2. Bad = {}
  <2> SUFFICES ASSUME Bad # {} PROVE FALSE
    OBVIOUS
  <2>1. PICK T \in Bad : \A U \in Bad : ~ (U \subseteq T /\ U # T)
    <3> Bad \subseteq SUBSET S
      OBVIOUS
    <3> HIDE DEF Bad
    <3> QED
      BY SmallestSubset
  <2>2. T # {}
    <3>1. g[{}] = 0
      BY <1>1, Zenon DEF Sums
    <3> QED
      BY <2>1, <3>1, 0 \in Nat
  <2>3. chosen(T) \in T
    BY <2>2, ChosenIsMember
  <2>4. g[T \ {chosen(T)}] \in Nat
    BY <2>1, <2>3
  <2>5. g[T] = f[chosen(T)] + g[T \ {chosen(T)}]
    BY <1>1, <2>1, <2>2, Zenon DEF Sums
  <2>6. f[chosen(T)] \in Nat
    BY <2>1, <2>3
  <2> QED
    BY <2>1, <2>4, <2>5, <2>6
<1>3. QED
  BY <1>1, <1>2

\* A sum of natural numbers is at least each of them.
LEMMA SumAtLeast ==
    ASSUME NEW f, IsFiniteSet(DOMAIN f), \A x \in DOMAIN f : f[x] \in Nat,
           NEW y \in DOMAIN f
    PROVE  SumFunction(f) >= f[y]
<1> DEFINE S == DOMAIN f
<1>1. PICK g : Sums(f, S, g) /\ SumFunction(f) = g[S]
  BY SumIsOfAll, Zenon
<1> DEFINE IsSum(T) == g[T] \in Nat /\ (y \in T => g[T] >= f[y])
           Bad == {T \in SUBSET S : ~IsSum(T)}
<1>2. Bad = {}
  <2> SUFFICES ASSUME Bad # {} PROVE FALSE
    OBVIOUS
  <2>1. PICK T \in Bad : \A U \in Bad : ~ (U \subseteq T /\ U # T)
    <3> Bad \subseteq SUBSET S
      OBVIOUS
    <3> HIDE DEF Bad
    <3> QED
      BY SmallestSubset
  <2>2. T # {}
    <3>1. g[{}] = 0
      BY <1>1, Zenon DEF Sums
    <3> QED
      BY <2>1, <3>1, 0 \in Nat
  <2> DEFINE x == chosen(T)
             rest == T \ {x}
  <2>3. x \in T
    BY <2>2, ChosenIsMember
  <2>4. IsSum(rest)
    BY <2>1, <2>3
  <2>5. g[T] = f[x] + g[rest]
    BY <1>1, <2>1, <2>2, Zenon DEF Sums
  <2>6. f[x] \in Nat /\ f[y] \in Nat
    BY <2>1, <2>3
  <2>7. y \in T => y = x \/ y \in rest
    OBVIOUS
  <2>8. IsSum(T)
    <3> HIDE DEF x, rest
    <3> QED
      BY <2>4, <2>5, <2>6, <2>7
  <2> QED
    BY <2>1, <2>8
<1>3. QED
  BY <1>1, <1>2

\* A sum of one number is that number.
LEMMA SumOfOne ==
    ASSUME NEW f, NEW x, DOMAIN f = {x}, f[x] \in Nat
    PROVE  SumFunction(f) = f[x]
<1>1. PICK g : Sums(f, {x}, g) /\ SumFunction(f) = g[{x}]
  <2> IsFiniteSet(DOMAIN f)
    BY FS_Singleton
  <2> QED
    BY SumIsOfAll
<1>2. chosen({x}) = x
  BY ChosenIsMember
<1>3. g[{x}] = f[x] + g[{x} \ {x}]
  BY <1>1, <1>2, Zenon DEF Sums
<1>4. g[{}] = 0
  BY <1>1, Zenon DEF Sums
<1>5. {x} \ {x} = {}
  OBVIOUS
<1>6. QED
  BY <1>1, <1>3, <1>4, <1>5
-----------------------------------------------------------------------------
(***************************************************************************)
(* What the checks find is a finite set of findings of the right shape, on *)
(* every snapshot of valid objects.                                        *)
(***************************************************************************)
IsFinding(f) ==
    /\ DOMAIN f = DOMAIN Plain(Ok, "")
    /\ f.severity \in Ok..Critical
    /\ f.n \in Nat
    /\ f.controls \subseteq pssControls

AreFindings(fs) == IsFiniteSet(fs) /\ \A f \in fs : IsFinding(f)

\* The snapshots the checks run on.
IsSnapshot(s) == IsFiniteSet(s.objects) /\ \A o \in s.objects : IsObject(o)

LEMMA FindingHasShape ==
    ASSUME NEW severity \in Ok..Critical, NEW message, NEW n \in Nat, NEW shown,
           NEW more, NEW object, NEW controls \in SUBSET pssControls
    PROVE  IsFinding(Finding(severity, message, n, shown, more, object, controls))
BY DEF IsFinding, Finding, Plain

LEMMA NoFindings == AreFindings({})
BY FS_EmptySet DEF AreFindings

LEMMA OneFinding ==
    ASSUME NEW f, IsFinding(f)
    PROVE  AreFindings({f})
BY FS_Singleton DEF AreFindings

LEMMA PlainHasShape ==
    ASSUME NEW severity \in Ok..Critical, NEW message
    PROVE  AreFindings({Plain(severity, message)})
<1>1. IsFinding(Finding(severity, message, 0, {}, 0, <<>>, {}))
  BY FindingHasShape
<1>2. QED
  BY <1>1, OneFinding DEF Plain

LEMMA NamedHasShape ==
    ASSUME NEW severity \in Ok..Critical, NEW message, NEW n \in Nat, NEW ns, NEW limit
    PROVE  AreFindings({Named(severity, message, n, ns, limit)})
<1> DEFINE shown == shownOf(ns, limit)
<1>1. IsFinding(Finding(severity, message, n, shown, Cardinality(ns \ shown), <<>>, {}))
  BY FindingHasShape
<1>2. QED
  BY <1>1, OneFinding, Zenon DEF Named

LEMMA TaggedHasShape ==
    ASSUME NEW severity \in Ok..Critical, NEW message, NEW n \in Nat,
           NEW controls \in SUBSET pssControls
    PROVE  AreFindings(Tagged(severity, message, n, controls))
<1>1. IsFinding(Finding(severity, message, n, {}, 0, <<>>, controls))
  BY FindingHasShape
<1>2. AreFindings({Finding(severity, message, n, {}, 0, <<>>, controls)})
  BY <1>1, OneFinding
<1>3. QED
  BY <1>2, NoFindings, Zenon DEF Tagged

LEMMA CountedHasShape ==
    ASSUME NEW severity \in Ok..Critical, NEW message, NEW set, IsFiniteSet(set)
    PROVE  AreFindings(Counted(severity, message, Cardinality(set)))
BY TaggedHasShape, FS_CardinalityType DEF Counted

LEMMA ListedHasShape ==
    ASSUME NEW severity \in Ok..Critical, NEW message, NEW ns, IsFiniteSet(ns), NEW limit
    PROVE  AreFindings(Listed(severity, message, ns, limit))
<1>1. AreFindings({Named(severity, message, Cardinality(ns), ns, limit)})
  BY NamedHasShape, FS_CardinalityType
<1>2. QED
  BY <1>1, NoFindings, Zenon DEF Listed

LEMMA UnionHasShape ==
    ASSUME NEW A, NEW B, AreFindings(A), AreFindings(B)
    PROVE  AreFindings(A \cup B)
BY FS_Union DEF AreFindings

\* The check of every member of a finite set.
LEMMA EachHasShape ==
    ASSUME NEW S, IsFiniteSet(S), NEW f, \A x \in S : AreFindings(f[x])
    PROVE  AreFindings(UNION {f[x] : x \in S})
<1>1. IsFiniteSet({f[x] : x \in S})
  BY ImageIsFinite
<1>2. \A T \in {f[x] : x \in S} : IsFiniteSet(T)
  BY DEF AreFindings
<1>3. IsFiniteSet(UNION {f[x] : x \in S})
  BY <1>1, <1>2, FS_UNION
<1>4. \A y \in UNION {f[x] : x \in S} : IsFinding(y)
  BY DEF AreFindings
<1>5. QED
  BY <1>3, <1>4 DEF AreFindings

LEMMA SubsetIsFinite ==
    ASSUME NEW S, IsFiniteSet(S), NEW T, T \subseteq S
    PROVE  IsFiniteSet(T)
BY FS_Subset

\* What has a member of a finite set for each of its own is finite.
LEMMA CoveredIsFinite ==
    ASSUME NEW S, IsFiniteSet(S), NEW f, NEW T, \A y \in T : \E x \in S : y = f[x]
    PROVE  IsFiniteSet(T)
<1>1. IsFiniteSet({f[x] : x \in S})
  BY ImageIsFinite
<1>2. T \subseteq {f[x] : x \in S}
  OBVIOUS
<1>3. QED
  BY <1>1, <1>2, SubsetIsFinite

LEMMA IntervalIsFinite ==
    ASSUME NEW n \in Nat
    PROVE  IsFiniteSet(1..n)
<1>1. 1 \in Int /\ n \in Int
  OBVIOUS
<1>2. QED
  BY <1>1, FS_Interval

\* A finite union of finite sets is finite.
LEMMA EachIsFinite ==
    ASSUME NEW S, IsFiniteSet(S), NEW f, \A x \in S : IsFiniteSet(f[x])
    PROVE  IsFiniteSet(UNION {f[x] : x \in S})
<1>1. IsFiniteSet({f[x] : x \in S})
  BY ImageIsFinite
<1>2. \A T \in {f[x] : x \in S} : IsFiniteSet(T)
  OBVIOUS
<1>3. QED
  BY <1>1, <1>2, FS_UNION
-----------------------------------------------------------------------------
LEMMA ObjectsOfKind ==
    ASSUME NEW s, IsSnapshot(s), NEW kind, NEW ns
    PROVE  /\ IsFiniteSet(All(s, kind))
           /\ IsFiniteSet(In(s, kind, ns))
           /\ In(s, kind, ns) \subseteq All(s, kind)
           /\ \A o \in All(s, kind) : o.kind = kind /\ IsObject(o)
BY SubsetIsFinite DEF IsSnapshot, All, In

LEMMA FieldsOfObject ==
    ASSUME NEW o, IsObject(o)
    PROVE  /\ o.kind = "Pod" => IsFiniteSet(o.statuses)
           /\ o.kind = "Ingress" => IsFiniteSet(o.backends)
           /\ o.kind = "HTTPRoute" => IsFiniteSet(o.refs)
           /\ o.kind = "ClusterRoleBinding" => IsFiniteSet(o.subjects)
           /\ o.kind = "PolicyReport" => o.fail \in Nat
           /\ o.kind = "Constraint" => o.violations \in Nat
BY DEF IsObject

LEMMA NamesAreFinite ==
    ASSUME NEW S, IsFiniteSet(S)
    PROVE  IsFiniteSet(names(S))
<1> DEFINE f == [o \in S |-> o.name]
<1>1. \A y \in names(S) : \E o \in S : y = f[o]
  BY DEF names
<1>2. QED
  <2> HIDE DEF f
  <2> QED
    BY <1>1, CoveredIsFinite

\* The containers of a set of pods or workloads, and what they ask for.
LEMMA ContainersAreFinite ==
    ASSUME NEW S, IsFiniteSet(S), \A o \in S : IsObject(o) /\ o.kind \in podKinds
    PROVE  /\ IsFiniteSet(containersOf(S))
           /\ \A x \in containersOf(S) : IsContainer(x.c)
<1>1. \A o \in S : IsPodSpec(o.spec)
  BY DEF IsObject
<1> DEFINE of == [o \in S |-> {[of |-> o, c |-> c] : c \in o.spec.containers}]
<1>2. ASSUME NEW o \in S PROVE IsFiniteSet(of[o])
  <2> DEFINE f == [c \in o.spec.containers |-> [of |-> o, c |-> c]]
  <2>1. IsFiniteSet(o.spec.containers)
    BY <1>1 DEF IsPodSpec
  <2>2. \A y \in of[o] : \E c \in o.spec.containers : y = f[c]
    OBVIOUS
  <2> HIDE DEF f, of
  <2> QED
    BY <2>1, <2>2, CoveredIsFinite
<1>3. containersOf(S) = UNION {of[o] : o \in S}
  BY DEF containersOf
<1>4. IsFiniteSet(containersOf(S))
  <2> HIDE DEF of
  <2> QED
    BY <1>2, <1>3, EachIsFinite
<1>5. \A x \in containersOf(S) : IsContainer(x.c)
  BY <1>1 DEF containersOf, IsPodSpec
<1>6. QED
  BY <1>4, <1>5

LEMMA RequestsAreNatural ==
    ASSUME NEW S, IsFiniteSet(S), \A o \in S : IsObject(o) /\ o.kind \in podKinds
    PROVE  cpuOf(S) \in Nat /\ memOf(S) \in Nat
<1>1. IsFiniteSet(containersOf(S)) /\ \A x \in containersOf(S) : IsContainer(x.c)
  BY ContainersAreFinite
<1> DEFINE cpu == [x \in containersOf(S) |-> x.c.cpu]
           mem == [x \in containersOf(S) |-> x.c.mem]
<1>2. /\ DOMAIN cpu = containersOf(S) /\ \A x \in DOMAIN cpu : cpu[x] \in Nat
      /\ DOMAIN mem = containersOf(S) /\ \A x \in DOMAIN mem : mem[x] \in Nat
  BY <1>1 DEF IsContainer
<1>3. SumFunction(cpu) \in Nat /\ SumFunction(mem) \in Nat
  <2> HIDE DEF cpu, mem
  <2> QED
    BY <1>1, <1>2, SumIsNat
<1>4. QED
  BY <1>3 DEF cpuOf, memOf
-----------------------------------------------------------------------------
(***************************************************************************)
(* The checks of a namespace.                                              *)
(***************************************************************************)
LEMMA SeveritiesAreLevels == {Ok, Info, Warning, Critical} \subseteq Ok..Critical
BY DEF Ok, Info, Warning, Critical

LEMMA ResourceFindingsShape ==
    ASSUME NEW s, IsSnapshot(s), NEW ns
    PROVE  AreFindings(resourceFindings(s, ns))
<1> DEFINE pods == {p \in In(s, "Pod", ns) : p.phase # "Succeeded"}
           without == {p \in pods : \E c \in p.spec.containers : c.cpu = 0 \/ c.mem = 0}
           unlimited == {p \in pods : \E c \in p.spec.containers : c.memLimit = 0}
<1>1. IsFiniteSet(without) /\ IsFiniteSet(unlimited)
  <2>1. IsFiniteSet(In(s, "Pod", ns))
    BY ObjectsOfKind
  <2>2. without \subseteq In(s, "Pod", ns) /\ unlimited \subseteq In(s, "Pod", ns)
    OBVIOUS
  <2> QED
    BY <2>1, <2>2, SubsetIsFinite
<1>2. /\ AreFindings(Counted(Warning, "missing resource requests", Cardinality(without)))
      /\ AreFindings(Counted(Info, "missing memory limits", Cardinality(unlimited)))
  <2> HIDE DEF without, unlimited
  <2> QED
    BY <1>1, CountedHasShape, SeveritiesAreLevels
<1>3. QED
  BY <1>2, UnionHasShape, Zenon DEF resourceFindings

LEMMA HealthFindingsShape ==
    ASSUME NEW s, IsSnapshot(s), NEW ns
    PROVE  AreFindings(healthFindings(s, ns))
<1> DEFINE pods == In(s, "Pod", ns)
           of == [p \in pods |-> {<<p, c>> : c \in p.statuses}]
           statuses == UNION {{<<p, c>> : c \in p.statuses} : p \in pods}
           waiting(reason) == {st \in statuses : st[2].waiting = reason}
           each == [reason \in waitingReasons |->
                      Counted(IF reason = "CrashLoopBackOff" THEN Critical ELSE Warning,
                              reason, Cardinality(waiting(reason)))]
           pending == {p \in pods : p.phase = "Pending" /\ ~p.deleting}
           oomKilled == {st \in statuses : st[2].oomKilled}
           restarted == {st \in statuses : st[2].restarts >= 10}
<1>1. IsFiniteSet(pods) /\ \A p \in pods : IsFiniteSet(p.statuses)
  BY ObjectsOfKind, FieldsOfObject
<1>2. ASSUME NEW p \in pods PROVE IsFiniteSet(of[p])
  <2> DEFINE f == [c \in p.statuses |-> <<p, c>>]
  <2>1. \A y \in of[p] : \E c \in p.statuses : y = f[c]
    OBVIOUS
  <2>2. IsFiniteSet(p.statuses)
    BY <1>1
  <2> HIDE DEF f, of
  <2> QED
    BY <2>1, <2>2, CoveredIsFinite
<1>3. IsFiniteSet(statuses)
  <2>1. statuses = UNION {of[p] : p \in pods}
    OBVIOUS
  <2> HIDE DEF of, statuses, pods
  <2> QED
    BY <1>1, <1>2, <2>1, EachIsFinite
<1>4. /\ \A reason : IsFiniteSet(waiting(reason))
      /\ IsFiniteSet(pending) /\ IsFiniteSet(oomKilled) /\ IsFiniteSet(restarted)
  <2> HIDE DEF statuses, pods
  <2> QED
    BY <1>1, <1>3, SubsetIsFinite
<1>5. ASSUME NEW reason \in waitingReasons PROVE AreFindings(each[reason])
  <2> DEFINE severity == IF reason = "CrashLoopBackOff" THEN Critical ELSE Warning
  <2>1. severity \in Ok..Critical
    BY SeveritiesAreLevels
  <2>2. IsFiniteSet(waiting(reason))
    BY <1>4
  <2>3. AreFindings(Counted(severity, reason, Cardinality(waiting(reason))))
    <3> HIDE DEF severity, waiting
    <3> QED
      BY <2>1, <2>2, CountedHasShape
  <2> QED
    BY <2>3, Zenon
<1>6. AreFindings(UNION {each[reason] : reason \in waitingReasons})
  <2>1. IsFiniteSet(waitingReasons)
    <3> DEFINE f == <<"CrashLoopBackOff", "ImagePullBackOff", "ErrImagePull",
                      "CreateContainerConfigError", "CreateContainerError",
                      "InvalidImageName">>
    <3>1. \A y \in waitingReasons : \E i \in 1..6 : y = f[i]
      BY DEF waitingReasons
    <3>2. IsFiniteSet(1..6)
      BY IntervalIsFinite
    <3> HIDE DEF f
    <3> QED
      BY <3>1, <3>2, CoveredIsFinite
  <2> HIDE DEF each
  <2> QED
    BY <1>5, <2>1, EachHasShape
<1>7. /\ AreFindings(Counted(Warning, "stuck in Pending", Cardinality(pending)))
      /\ AreFindings(Counted(Warning, "recently OOMKilled", Cardinality(oomKilled)))
      /\ AreFindings(Counted(Warning, "10+ restarts", Cardinality(restarted)))
  <2> HIDE DEF pending, oomKilled, restarted
  <2> QED
    BY <1>4, CountedHasShape, SeveritiesAreLevels
<1>8. UNION {each[reason] : reason \in waitingReasons} =
      UNION {Counted(IF reason = "CrashLoopBackOff" THEN Critical ELSE Warning,
                     reason, Cardinality(waiting(reason))) : reason \in waitingReasons}
  <2> HIDE DEF waiting
  <2> QED
    OBVIOUS
<1>9. QED
  BY <1>6, <1>7, <1>8, UnionHasShape, Zenon DEF healthFindings

\* A finding about each of some objects.
LEMMA AboutHasShape ==
    ASSUME NEW severity \in Ok..Critical, NEW message, NEW object
    PROVE  IsFinding(About(severity, message, object))
BY FindingHasShape DEF About

LEMMA WorkloadsAreFinite ==
    ASSUME NEW s, IsSnapshot(s), NEW ns
    PROVE  /\ IsFiniteSet(workloads(s, ns))
           /\ \A w \in workloads(s, ns) : IsObject(w) /\ w.kind \in podKinds
<1>1. workloads(s, ns) \subseteq s.objects
  BY DEF workloads, In
<1>2. \A w \in workloads(s, ns) : w.kind \in podKinds
  BY DEF workloads, In, podKinds
<1>3. QED
  BY <1>1, <1>2, SubsetIsFinite DEF IsSnapshot

LEMMA ImageFindingsShape ==
    ASSUME NEW s, IsSnapshot(s), NEW ns
    PROVE  AreFindings(imageFindings(s, ns))
<1> DEFINE late == {w \in workloads(s, ns) :
                      \E c \in w.spec.containers : isLatestImage(c)}
           f == [w \in late |-> About(Warning, "uses :latest tag", <<w.kind, w.name>>)]
<1>1. IsFiniteSet(late)
  BY WorkloadsAreFinite, SubsetIsFinite
<1>2. \A y \in imageFindings(s, ns) : \E w \in late : y = f[w]
  <2>1. \A y \in imageFindings(s, ns) :
           \E w \in late : y = About(Warning, "uses :latest tag", <<w.kind, w.name>>)
    BY Zenon DEF imageFindings
  <2> HIDE DEF late
  <2> QED
    BY <2>1
<1>3. \A w \in late : IsFinding(f[w])
  <2> HIDE DEF late
  <2> QED
    BY AboutHasShape, SeveritiesAreLevels
<1>4. IsFiniteSet(imageFindings(s, ns))
  <2> HIDE DEF late, f
  <2> QED
    BY <1>1, <1>2, CoveredIsFinite
<1>5. QED
  <2> HIDE DEF late, f
  <2> QED
    BY <1>2, <1>3, <1>4 DEF AreFindings

LEMMA ProbeFindingsShape ==
    ASSUME NEW s, IsSnapshot(s), NEW ns
    PROVE  AreFindings(probeFindings(s, ns))
<1> DEFINE serving == containersOf({w \in workloads(s, ns) : w.kind # "CronJob"})
           unready == {x \in serving : ~x.c.readiness /\ ~x.c.startup}
           unprobed == {x \in serving : ~x.c.liveness}
<1>1. IsFiniteSet(serving)
  BY WorkloadsAreFinite, SubsetIsFinite, ContainersAreFinite
<1>2. IsFiniteSet(unready) /\ IsFiniteSet(unprobed)
  <2> HIDE DEF serving
  <2> QED
    BY <1>1, SubsetIsFinite
<1>3. /\ AreFindings(Counted(Warning, "without readiness or startup probes",
                             Cardinality(unready)))
      /\ AreFindings(Counted(Info, "without liveness probes", Cardinality(unprobed)))
  <2> HIDE DEF unready, unprobed
  <2> QED
    BY <1>2, CountedHasShape, SeveritiesAreLevels
<1>4. QED
  BY <1>3, UnionHasShape, Zenon DEF probeFindings

LEMMA AvailabilityFindingsShape ==
    ASSUME NEW s, IsSnapshot(s), NEW ns
    PROVE  AreFindings(availabilityFindings(s, ns))
<1> DEFINE deployments == In(s, "Deployment", ns)
           single == names({d \in deployments :
                              d.replicas # NoReplicas /\ d.replicas = 1})
           noHPA == names({d \in deployments :
                        ~\E h \in In(s, "HPA", ns) : h.target = <<"Deployment", d.name>>})
<1>1. IsFiniteSet(single)
  BY ObjectsOfKind, SubsetIsFinite, NamesAreFinite
<1>2. /\ AreFindings(Listed(Info, "single-replica Deployments", single, 4))
      /\ AreFindings({})
      /\ AreFindings({Named(Info, "Missing HorizontalPodAutoscaler for", 0, noHPA, 4)})
      /\ AreFindings({Plain(Info, "Missing HorizontalPodAutoscaler")})
  <2> HIDE DEF single, noHPA
  <2> QED
    BY <1>1, ListedHasShape, NoFindings, NamedHasShape, PlainHasShape, SeveritiesAreLevels
<1>3. QED
  BY <1>2, UnionHasShape, Zenon DEF availabilityFindings

LEMMA DisruptionFindingsShape ==
    ASSUME NEW s, IsSnapshot(s), NEW ns
    PROVE  AreFindings(disruptionFindings(s, ns))
<1> DEFINE ws == multiReplica(s, ns)
           budgets == In(s, "PDB", ns)
           noPDB == {w \in ws : ~\E b \in budgets : Selects(b, w.labels)}
           noSpread == {w \in ws : ~w.spec.spread}
           listed(severity, message, lacking) ==
               IF lacking = {} THEN {}
               ELSE {Named(severity, message, Cardinality(lacking), names(lacking), 4)}
           zero == {b \in budgets : blocking(b, ws)}
           f == [b \in zero |->
                   About(Warning, "allows zero voluntary disruptions", <<"pdb", b.name>>)]
           blocked == {About(Warning, "allows zero voluntary disruptions", <<"pdb", b.name>>)
                          : b \in zero}
<1>1. IsFiniteSet(ws) /\ IsFiniteSet(zero)
  <2>1. IsFiniteSet(In(s, "Deployment", ns) \cup In(s, "StatefulSet", ns))
    BY ObjectsOfKind, FS_Union
  <2>2. ws \subseteq In(s, "Deployment", ns) \cup In(s, "StatefulSet", ns)
    BY DEF multiReplica
  <2>3. IsFiniteSet(budgets)
    BY ObjectsOfKind
  <2> HIDE DEF ws, budgets
  <2> QED
    BY <2>1, <2>2, <2>3, SubsetIsFinite
<1>2. AreFindings(blocked)
  <2>1. \A y \in blocked : \E b \in zero : y = f[b]
    <3> HIDE DEF zero
    <3> QED
      OBVIOUS
  <2>2. \A b \in zero : IsFinding(f[b])
    <3> HIDE DEF zero
    <3> QED
      BY AboutHasShape, SeveritiesAreLevels
  <2> HIDE DEF blocked, zero, f
  <2>3. IsFiniteSet(blocked)
    BY <1>1, <2>1, CoveredIsFinite
  <2> QED
    BY <2>1, <2>2, <2>3 DEF AreFindings
<1>3. ASSUME NEW severity \in Ok..Critical, NEW message, NEW lacking, IsFiniteSet(lacking)
      PROVE  AreFindings(listed(severity, message, lacking))
  <2>1. AreFindings({Named(severity, message, Cardinality(lacking), names(lacking), 4)})
    BY <1>3, FS_CardinalityType, NamedHasShape
  <2> QED
    BY <2>1, NoFindings, Zenon
<1>4. IsFiniteSet(noPDB) /\ IsFiniteSet(noSpread)
  <2> HIDE DEF ws
  <2> QED
    BY <1>1, SubsetIsFinite
<1>5. /\ AreFindings(listed(Warning, "without a PodDisruptionBudget", noPDB))
      /\ AreFindings(listed(Info, "without spreading constraints", noSpread))
  <2> HIDE DEF listed, noPDB, noSpread
  <2> QED
    BY <1>3, <1>4, SeveritiesAreLevels
<1>6. AreFindings(blocked \cup listed(Warning, "without a PodDisruptionBudget", noPDB)
                    \cup listed(Info, "without spreading constraints", noSpread))
  <2> HIDE DEF listed, noPDB, noSpread, blocked
  <2> QED
    BY <1>2, <1>5, UnionHasShape
<1>7. QED
  BY <1>6, NoFindings, Zenon DEF disruptionFindings
-----------------------------------------------------------------------------
\* A union of findings, given one by one.
LEMMA FamilyHasShape ==
    ASSUME NEW F, NEW n \in Nat, NEW f, \A A \in F : \E i \in 1..n : A = f[i],
           \A A \in F : AreFindings(A)
    PROVE  AreFindings(UNION F)
<1>1. IsFiniteSet(F)
  BY IntervalIsFinite, CoveredIsFinite
<1>2. IsFiniteSet(UNION F)
  BY <1>1, FS_UNION DEF AreFindings
<1>3. \A y \in UNION F : IsFinding(y)
  BY DEF AreFindings
<1>4. QED
  BY <1>2, <1>3 DEF AreFindings

LEMMA DanglingIsFinite ==
    ASSUME NEW s, NEW ns, NEW backendsOf, IsFiniteSet(DOMAIN backendsOf),
           \A name \in DOMAIN backendsOf : IsFiniteSet(backendsOf[name])
    PROVE  IsFiniteSet(dangling(s, ns, backendsOf))
<1> DEFINE missing(name) == backendsOf[name] \ names(In(s, "Service", ns))
           from(name) == {name \o " -> " \o b : b \in missing(name)}
           of == [name \in DOMAIN backendsOf |-> from(name)]
<1>1. ASSUME NEW name \in DOMAIN backendsOf
      PROVE  IsFiniteSet(of[name])
  <2> DEFINE f == [b \in missing(name) |-> name \o " -> " \o b]
  <2>1. IsFiniteSet(missing(name))
    BY FS_Difference
  <2>2. \A y \in from(name) : \E b \in missing(name) : y = f[b]
    <3> HIDE DEF missing
    <3> QED
      BY Zenon
  <2>3. of[name] = from(name)
    <3> HIDE DEF from
    <3> QED
      OBVIOUS
  <2> HIDE DEF missing, from, of, f
  <2> QED
    BY <2>1, <2>2, <2>3, CoveredIsFinite
<1>2. dangling(s, ns, backendsOf) = UNION {of[name] : name \in DOMAIN backendsOf}
  <2>1. dangling(s, ns, backendsOf) = UNION {from(name) : name \in DOMAIN backendsOf}
    BY Zenon DEF dangling
  <2> HIDE DEF from
  <2> QED
    BY <2>1
<1>3. QED
  <2> HIDE DEF of
  <2> QED
    BY <1>1, <1>2, EachIsFinite

\* The backends of the Ingresses and of the HTTPRoutes of a namespace.
ingressBackends(s, ns, name) ==
    UNION {o.backends : o \in {o \in In(s, "Ingress", ns) : o.name = name}}

routeBackends(s, ns, name) ==
    UNION {httpRouteServiceBackends(o) :
              o \in {o \in In(s, "HTTPRoute", ns) : o.name = name}}

LEMMA BackendsAreFinite ==
    ASSUME NEW s, IsSnapshot(s), NEW ns, NEW name
    PROVE  IsFiniteSet(ingressBackends(s, ns, name)) /\ IsFiniteSet(routeBackends(s, ns, name))
<1> DEFINE I == {o \in In(s, "Ingress", ns) : o.name = name}
           R == {o \in In(s, "HTTPRoute", ns) : o.name = name}
           f == [o \in I |-> o.backends]
           g == [o \in R |-> httpRouteServiceBackends(o)]
<1>1. IsFiniteSet(I) /\ IsFiniteSet(R)
  BY ObjectsOfKind, SubsetIsFinite
<1>2. \A o \in I : IsFiniteSet(o.backends)
  BY ObjectsOfKind, FieldsOfObject
<1>3. ASSUME NEW o \in R PROVE IsFiniteSet(httpRouteServiceBackends(o))
  <2> DEFINE refs == {ref \in o.refs : /\ ref.kind \in {"", "Service"}
                                       /\ ref.ns \in {"", o.ns}
                                       /\ ref.name # ""}
             h == [ref \in refs |-> ref.name]
  <2>1. IsFiniteSet(o.refs)
    BY ObjectsOfKind, FieldsOfObject
  <2>2. IsFiniteSet(refs)
    BY <2>1, SubsetIsFinite
  <2>3. \A y \in httpRouteServiceBackends(o) : \E ref \in refs : y = h[ref]
    BY DEF httpRouteServiceBackends, localRefs
  <2> HIDE DEF h, refs
  <2> QED
    BY <2>2, <2>3, CoveredIsFinite
<1>4. /\ \A o \in I : IsFiniteSet(f[o])
      /\ \A o \in R : IsFiniteSet(g[o])
  <2> HIDE DEF I, R
  <2> QED
    BY <1>2, <1>3
<1>5. IsFiniteSet(UNION {f[o] : o \in I}) /\ IsFiniteSet(UNION {g[o] : o \in R})
  <2> HIDE DEF f, g, I, R
  <2> QED
    BY <1>1, <1>4, EachIsFinite
<1>6. /\ UNION {f[o] : o \in I} = UNION {o.backends : o \in I}
      /\ UNION {g[o] : o \in R} = UNION {httpRouteServiceBackends(o) : o \in R}
  <2> HIDE DEF I, R
  <2> QED
    OBVIOUS
<1>7. QED
  BY <1>5, <1>6, Zenon DEF ingressBackends, routeBackends

LEMMA UnusedFindingsShape ==
    ASSUME NEW s, IsSnapshot(s), NEW ns
    PROVE  AreFindings(unusedFindings(s, ns))
<1> DEFINE pvcs == In(s, "PVC", ns)
           unmounted == {o \in pvcs : <<"PVC", o.name>> \notin referencesIn(s, ns)}
           lonely == {o \in In(s, "Service", ns) :
                        /\ o.selector # {}
                        /\ ~anyPodMatches(s, ns, o.selector)}
           targets == {<<w.kind, w.name>> : w \in workloads(s, ns)}
           noTarget == {o \in In(s, "HPA", ns) :
                          /\ o.target[1] \in {"Deployment", "StatefulSet"}
                          /\ o.target \notin targets}
           emptyPDB == {o \in In(s, "PDB", ns) :
                          /\ o.selects
                          /\ ~anyPodMatches(s, ns, o.selector)}
           ingresses == [name \in names(In(s, "Ingress", ns)) |-> ingressBackends(s, ns, name)]
           httpRoutes == [name \in names(In(s, "HTTPRoute", ns)) |-> routeBackends(s, ns, name)]
           C == Listed(Info, "unused ConfigMap", names(unusedConfigMaps(s, ns)), 4)
           S == Listed(Info, "unused Secret", names(unusedSecrets(s, ns)), 4)
           M == Listed(Info, "PVC not mounted", names(unmounted), 4)
           U == Listed(Info, "unbound PVC", names({o \in pvcs : ~o.bound}), 4)
           L == Listed(Info, "Service with no matching Pods", names(lonely), 4)
           I == Listed(Info, "Ingress path routing to a missing Service",
                       dangling(s, ns, ingresses), 4)
           R == Listed(Info, "HTTPRoute backend routing to a missing Service",
                       dangling(s, ns, httpRoutes), 4)
           H == Listed(Info, "HPA targeting a missing workload", names(noTarget), 4)
           B == Listed(Info, "PodDisruptionBudget selecting no Pods", names(emptyPDB), 4)
<1>1. /\ IsFiniteSet(unusedConfigMaps(s, ns)) /\ IsFiniteSet(unusedSecrets(s, ns))
      /\ IsFiniteSet(unmounted) /\ IsFiniteSet({o \in pvcs : ~o.bound})
      /\ IsFiniteSet(lonely) /\ IsFiniteSet(noTarget) /\ IsFiniteSet(emptyPDB)
  <2>1. \A kind : IsFiniteSet(In(s, kind, ns))
    BY ObjectsOfKind
  <2>2. /\ unusedConfigMaps(s, ns) \subseteq In(s, "ConfigMap", ns)
        /\ unusedSecrets(s, ns) \subseteq In(s, "Secret", ns)
    BY DEF unusedConfigMaps, unusedSecrets
  <2>3. /\ unmounted \subseteq In(s, "PVC", ns)
        /\ {o \in pvcs : ~o.bound} \subseteq In(s, "PVC", ns)
        /\ lonely \subseteq In(s, "Service", ns) /\ noTarget \subseteq In(s, "HPA", ns)
        /\ emptyPDB \subseteq In(s, "PDB", ns)
    <3> HIDE DEF targets
    <3> QED
      OBVIOUS
  <2> HIDE DEF pvcs, unmounted, lonely, noTarget, emptyPDB
  <2> QED
    BY <2>1, <2>2, <2>3, SubsetIsFinite
<1>2. IsFiniteSet(dangling(s, ns, ingresses)) /\ IsFiniteSet(dangling(s, ns, httpRoutes))
  <2>1. IsFiniteSet(DOMAIN ingresses) /\ IsFiniteSet(DOMAIN httpRoutes)
    BY ObjectsOfKind, NamesAreFinite
  <2>2. /\ \A name \in DOMAIN ingresses : IsFiniteSet(ingresses[name])
        /\ \A name \in DOMAIN httpRoutes : IsFiniteSet(httpRoutes[name])
    BY BackendsAreFinite
  <2> HIDE DEF ingresses, httpRoutes
  <2> QED
    BY <2>1, <2>2, DanglingIsFinite
<1>3. /\ AreFindings(C) /\ AreFindings(S) /\ AreFindings(M) /\ AreFindings(U)
      /\ AreFindings(L) /\ AreFindings(I) /\ AreFindings(R) /\ AreFindings(H)
      /\ AreFindings(B)
  <2> HIDE DEF pvcs, unmounted, lonely, noTarget, emptyPDB, ingresses, httpRoutes
  <2> QED
    BY <1>1, <1>2, ListedHasShape, NamesAreFinite, SeveritiesAreLevels
<1>4. unusedFindings(s, ns) = UNION {C, S, M, U, L, I, R, H, B}
  BY Zenon DEF unusedFindings, ingressBackends, routeBackends
<1> DEFINE F == {C, S, M, U, L, I, R, H, B}
           f == <<C, S, M, U, L, I, R, H, B>>
<1> HIDE DEF C, S, M, U, L, I, R, H, B
<1>5. \A A \in F : \E i \in 1..9 : A = f[i]
  <2>1. /\ C = f[1] /\ S = f[2] /\ M = f[3] /\ U = f[4] /\ L = f[5] /\ I = f[6]
        /\ R = f[7] /\ H = f[8] /\ B = f[9]
    OBVIOUS
  <2>2. {1, 2, 3, 4, 5, 6, 7, 8, 9} \subseteq 1..9
    OBVIOUS
  <2> HIDE DEF f
  <2> QED
    BY <2>1, <2>2, Zenon
<1>6. \A A \in F : AreFindings(A)
  BY <1>3
<1>7. AreFindings(UNION F)
  <2> HIDE DEF F, f
  <2> QED
    BY <1>5, <1>6, FamilyHasShape
<1>8. QED
  BY <1>4, <1>7

LEMMA NamespaceFindingsShape ==
    ASSUME NEW s, IsSnapshot(s), NEW ns
    PROVE  AreFindings(namespaceFindings(s, ns))
<1> DEFINE F == {resourceFindings(s, ns), healthFindings(s, ns), imageFindings(s, ns),
                 probeFindings(s, ns), availabilityFindings(s, ns),
                 disruptionFindings(s, ns), unusedFindings(s, ns)}
           f == <<resourceFindings(s, ns), healthFindings(s, ns), imageFindings(s, ns),
                  probeFindings(s, ns), availabilityFindings(s, ns),
                  disruptionFindings(s, ns), unusedFindings(s, ns)>>
<1>1. \A A \in F : \E i \in 1..7 : A = f[i]
  OBVIOUS
<1>2. \A A \in F : AreFindings(A)
  BY ResourceFindingsShape, HealthFindingsShape, ImageFindingsShape, ProbeFindingsShape,
     AvailabilityFindingsShape, DisruptionFindingsShape, UnusedFindingsShape
<1>3. AreFindings(UNION F)
  <2> HIDE DEF F, f
  <2> QED
    BY <1>1, <1>2, FamilyHasShape
<1>4. QED
  BY <1>3 DEF namespaceFindings
-----------------------------------------------------------------------------
(***************************************************************************)
(* The sections on security and policies.                                  *)
(***************************************************************************)
LEMMA FewHaveShape ==
    ASSUME NEW A, NEW B, NEW C, NEW D, NEW E, AreFindings(A), AreFindings(B),
           AreFindings(C), AreFindings(D), AreFindings(E)
    PROVE  /\ AreFindings(UNION {A, B, C})
           /\ AreFindings(UNION {A, B, C, D})
           /\ AreFindings(UNION {A, B, C, D, E})
<1>1. /\ UNION {A, B, C} = A \cup B \cup C
      /\ UNION {A, B, C, D} = A \cup B \cup C \cup D
      /\ UNION {A, B, C, D, E} = A \cup B \cup C \cup D \cup E
  OBVIOUS
<1>2. AreFindings(A \cup B \cup C)
  BY UnionHasShape
<1>3. AreFindings(A \cup B \cup C \cup D)
  BY <1>2, UnionHasShape
<1>4. AreFindings(A \cup B \cup C \cup D \cup E)
  BY <1>3, UnionHasShape
<1>5. QED
  BY <1>1, <1>2, <1>3, <1>4, Zenon

LEMMA CountTaggedHasShape ==
    ASSUME NEW severity \in Ok..Critical, NEW message, NEW set, IsFiniteSet(set),
           NEW control \in pssControls
    PROVE  AreFindings(Tagged(severity, message, Cardinality(set), {control}))
BY TaggedHasShape, FS_CardinalityType

LEMMA ControlsAreListed ==
    {ctrlPrivileged, ctrlHostNamespaces, ctrlCapabilities, ctrlRunAsNonRoot, ctrlSeccomp}
        \subseteq pssControls
BY DEF pssControls

LEMMA AnalyzedPodsAreFinite ==
    ASSUME NEW s, IsSnapshot(s), NEW covered
    PROVE  /\ IsFiniteSet(analyzedPods(s, covered))
           /\ IsFiniteSet(containersOf(analyzedPods(s, covered)))
<1>1. analyzedPods(s, covered) \subseteq All(s, "Pod")
  BY DEF analyzedPods
<1>2. IsFiniteSet(analyzedPods(s, covered))
  BY <1>1, ObjectsOfKind, SubsetIsFinite
<1>3. \A p \in analyzedPods(s, covered) : IsObject(p) /\ p.kind \in podKinds
  BY <1>1, ObjectsOfKind DEF podKinds
<1>4. QED
  BY <1>2, <1>3, ContainersAreFinite

LEMMA PodSecurityFindingsShape ==
    ASSUME NEW s, IsSnapshot(s), NEW covered
    PROVE  AreFindings(podSecurityFindings(s, covered))
<1> DEFINE pods == analyzedPods(s, covered)
           all == containersOf(pods)
           root == {x \in all : runsAsRoot(x.of.spec, x.c)}
           privileged == {x \in all : x.c.privileged}
           capable == {x \in all : x.c.caps \cap dangerousCapabilities # {}}
           hosted == {p \in pods : p.spec.hostNamespaces}
           A == Tagged(Warning, "containers running as root", Cardinality(root),
                       {ctrlRunAsNonRoot})
           B == Tagged(Critical, "privileged containers", Cardinality(privileged),
                       {ctrlPrivileged})
           C == Tagged(Warning, "containers with dangerous capabilities",
                       Cardinality(capable), {ctrlCapabilities})
           D == Tagged(Warning, "Pods using host network/PID/IPC", Cardinality(hosted),
                       {ctrlHostNamespaces})
<1>1. /\ IsFiniteSet(root) /\ IsFiniteSet(privileged) /\ IsFiniteSet(capable)
      /\ IsFiniteSet(hosted)
  <2>1. IsFiniteSet(pods) /\ IsFiniteSet(all)
    BY AnalyzedPodsAreFinite
  <2> HIDE DEF pods, all
  <2> QED
    BY <2>1, SubsetIsFinite
<1>2. AreFindings(A) /\ AreFindings(B) /\ AreFindings(C) /\ AreFindings(D)
  <2> HIDE DEF root, privileged, capable, hosted
  <2> QED
    BY <1>1, CountTaggedHasShape, SeveritiesAreLevels, ControlsAreListed
<1>3. AreFindings(UNION {A, B, C, D})
  <2> HIDE DEF A, B, C, D
  <2> QED
    BY <1>2, FewHaveShape
<1>4. QED
  BY <1>3, Zenon DEF podSecurityFindings

LEMMA NetworkPolicyFindingsShape ==
    ASSUME NEW s, NEW covered, IsFiniteSet(covered)
    PROVE  AreFindings(networkPolicyFindings(s, covered))
<1> DEFINE open == {ns \in covered :
                      In(s, "NetworkPolicy", ns) = {} /\ namespaceHasPods(s, ns)}
<1>1. IsFiniteSet(open)
  BY SubsetIsFinite
<1>2. AreFindings(Listed(Warning, "namespaces without NetworkPolicies", open, 4))
  <2> HIDE DEF open
  <2> QED
    BY <1>1, ListedHasShape, SeveritiesAreLevels
<1>3. QED
  BY <1>2, Zenon DEF networkPolicyFindings

LEMMA PssLabelFindingsShape ==
    ASSUME NEW s, IsSnapshot(s), NEW covered
    PROVE  AreFindings(pssLabelFindings(s, covered))
<1> DEFINE lax == {o \in All(s, "Namespace") : o.name \in covered /\ ~o.pssEnforced}
<1>1. IsFiniteSet(lax)
  BY ObjectsOfKind, SubsetIsFinite
<1>2. AreFindings(Listed(Warning, "namespaces without Pod Security Standards enforcement",
                         names(lax), 4))
  <2> HIDE DEF lax
  <2> QED
    BY <1>1, NamesAreFinite, ListedHasShape, SeveritiesAreLevels
<1>3. QED
  BY <1>2, Zenon DEF pssLabelFindings, names

LEMMA HardeningFindingsShape ==
    ASSUME NEW s, IsSnapshot(s), NEW covered
    PROVE  AreFindings(hardeningFindings(s, covered))
<1> DEFINE pods == analyzedPods(s, covered)
           noAutomountSA == {<<o.ns, o.name>> : o \in
               {o \in All(s, "ServiceAccount") : ~o.automount}}
           unconfined == {p \in pods : /\ ~p.spec.seccomp
                                       /\ \E c \in p.spec.containers : ~c.seccomp}
           writable == {x \in containersOf(pods) : ~x.c.readOnlyRoot}
           mounting == {p \in pods :
                          /\ p.spec.automount
                          /\ <<p.ns, p.spec.serviceAccount>> \notin noAutomountSA}
           receiving == {x \in containersOf(pods) : usesSecretEnv(x.c)}
           A == Tagged(Warning, "Pods without a seccomp profile", Cardinality(unconfined),
                       {ctrlSeccomp})
           B == Counted(Info, "containers without readOnlyRootFilesystem",
                        Cardinality(writable))
           C == Counted(Info, "Pods automounting ServiceAccount tokens",
                        Cardinality(mounting))
           D == Counted(Info, "containers receiving Secrets via environment",
                        Cardinality(receiving))
<1>1. /\ IsFiniteSet(unconfined) /\ IsFiniteSet(writable) /\ IsFiniteSet(mounting)
      /\ IsFiniteSet(receiving)
  <2>1. IsFiniteSet(pods) /\ IsFiniteSet(containersOf(pods))
    BY AnalyzedPodsAreFinite
  <2> HIDE DEF pods, noAutomountSA
  <2> QED
    BY <2>1, SubsetIsFinite
<1>2. AreFindings(A) /\ AreFindings(B) /\ AreFindings(C) /\ AreFindings(D)
  <2> HIDE DEF unconfined, writable, mounting, receiving
  <2> QED
    BY <1>1, CountTaggedHasShape, CountedHasShape, SeveritiesAreLevels, ControlsAreListed
<1>3. AreFindings(UNION {A, B, C, D})
  <2> HIDE DEF A, B, C, D
  <2> QED
    BY <1>2, FewHaveShape
<1>4. QED
  BY <1>3, Zenon DEF hardeningFindings

LEMMA RbacFindingsShape ==
    ASSUME NEW s, IsSnapshot(s)
    PROVE  AreFindings(rbacFindings(s))
<1> DEFINE wildcard == {r \in All(s, "ClusterRole") :
               /\ r.wildcard
               /\ ~r.system
               /\ r.name \notin {"cluster-admin", "admin", "edit", "view"}}
           admin == {b \in All(s, "ClusterRoleBinding") :
                       b.role = "cluster-admin" \/ b.role \in names(wildcard)}
           subjects(b) == {sub \in b.subjects : ~sub.kubeNamespace}
           of(b) == {<<b.name, sub>> : sub \in subjects(b)}
           grants == UNION {of(b) : b \in admin}
           each == [b \in admin |-> of(b)]
<1>1. IsFiniteSet(wildcard)
  BY ObjectsOfKind, SubsetIsFinite
<1>2. IsFiniteSet(admin)
  <2> HIDE DEF wildcard
  <2> QED
    BY ObjectsOfKind, SubsetIsFinite
<1>3. ASSUME NEW b \in admin PROVE IsFiniteSet(of(b))
  <2> DEFINE f == [sub \in subjects(b) |-> <<b.name, sub>>]
  <2>1. IsFiniteSet(b.subjects)
    <3>1. b \in All(s, "ClusterRoleBinding")
      OBVIOUS
    <3> QED
      BY <3>1, ObjectsOfKind, FieldsOfObject
  <2>2. IsFiniteSet(subjects(b))
    BY <2>1, SubsetIsFinite
  <2>3. \A y \in of(b) : \E sub \in subjects(b) : y = f[sub]
    <3> HIDE DEF subjects
    <3> QED
      OBVIOUS
  <2> HIDE DEF subjects, f, of
  <2> QED
    BY <2>2, <2>3, CoveredIsFinite
<1>4. IsFiniteSet(grants)
  <2> HIDE DEF of, admin
  <2>1. \A b \in admin : IsFiniteSet(each[b])
    BY <1>3
  <2>2. grants = UNION {each[b] : b \in admin}
    OBVIOUS
  <2> HIDE DEF each, grants
  <2> QED
    BY <1>2, <2>1, <2>2, EachIsFinite
<1>5. /\ AreFindings(Listed(Warning, "ClusterRoles with wildcard rules", names(wildcard), 3))
      /\ AreFindings({})
      /\ AreFindings({Named(Critical, "ServiceAccounts bound to cluster-admin",
                            Cardinality(grants), {g[2].name : g \in grants}, 3)})
  <2> HIDE DEF wildcard, grants
  <2> QED
    BY <1>1, <1>4, NamesAreFinite, ListedHasShape, NoFindings, NamedHasShape,
       FS_CardinalityType, SeveritiesAreLevels
<1>6. QED
  BY <1>5, UnionHasShape, Zenon DEF rbacFindings

LEMMA ComplianceSummaryShape ==
    ASSUME NEW findings
    PROVE  IsFinding(complianceSummary(findings))
<1> DEFINE failed == pssControls \cap failingControls(findings)
           severity == IF failed = {} THEN Ok ELSE Info
<1>1. severity \in Ok..Critical
  BY SeveritiesAreLevels
<1>2. IsFinding(Finding(severity, "Pod Security Standards", 0, {c[2] : c \in failed}, 0,
                        <<>>, pssControls))
  <2> HIDE DEF severity, failed
  <2> QED
    BY <1>1, FindingHasShape
<1>3. QED
  BY <1>2, Zenon DEF complianceSummary

LEMMA SecurityShape ==
    ASSUME NEW s, IsSnapshot(s), NEW covered, IsFiniteSet(covered)
    PROVE  AreFindings(Security(s, covered))
<1> DEFINE found == UNION {podSecurityFindings(s, covered), networkPolicyFindings(s, covered),
                           hardeningFindings(s, covered), pssLabelFindings(s, covered),
                           rbacFindings(s)}
<1>1. AreFindings(found)
  BY PodSecurityFindingsShape, NetworkPolicyFindingsShape, HardeningFindingsShape,
     PssLabelFindingsShape, RbacFindingsShape, FewHaveShape
<1>2. AreFindings({complianceSummary(found)})
  BY ComplianceSummaryShape, OneFinding
<1>3. QED
  BY <1>1, <1>2, UnionHasShape, Zenon DEF Security
-----------------------------------------------------------------------------
LEMMA KyvernoFindingsShape ==
    ASSUME NEW s, IsSnapshot(s), NEW covered
    PROVE  AreFindings(kyvernoFindings(s, covered))
<1> DEFINE failing == {r \in All(s, "PolicyReport") : r.ns \in covered /\ r.fail > 0}
           fails == [r \in failing |-> r.fail]
           total == SumFunction(fails)
           where == {r.ns : r \in failing}
           set == All(s, "Policy") \cup All(s, "ClusterPolicy")
           policies == Cardinality(set)
           message == IF Cardinality(where) = 1
                      THEN "Kyverno policy violations across a namespace"
                      ELSE "Kyverno policy violations across namespaces"
<1>1. total \in Nat
  <2>1. IsFiniteSet(failing)
    BY ObjectsOfKind, SubsetIsFinite
  <2>2. \A r \in failing : r.fail \in Nat
    BY ObjectsOfKind, FieldsOfObject
  <2>3. DOMAIN fails = failing /\ \A r \in DOMAIN fails : fails[r] \in Nat
    BY <2>2
  <2> HIDE DEF fails, failing
  <2> QED
    BY <2>1, <2>3, SumIsNat
<1>2. IsFiniteSet(set) /\ policies \in Nat
  BY ObjectsOfKind, FS_Union, FS_CardinalityType
<1>3. /\ AreFindings({Named(Warning, message, total, where, 4)})
      /\ AreFindings({Plain(Info, "Kyverno is installed but no policies are defined")})
      /\ AreFindings(Counted(Ok, "Kyverno policies, no violations", policies))
  <2> HIDE DEF message, total, where, set
  <2> QED
    BY <1>1, <1>2, NamedHasShape, PlainHasShape, CountedHasShape, SeveritiesAreLevels
<1>4. \/ total > 0
      \/ total = 0 /\ policies = 0
      \/ total = 0 /\ policies > 0
  <2> HIDE DEF total, policies
  <2> QED
    BY <1>1, <1>2
<1>5. kyvernoFindings(s, covered) =
        CASE total > 0 -> {Named(Warning, message, total, where, 4)}
          [] total = 0 /\ policies = 0 ->
               {Plain(Info, "Kyverno is installed but no policies are defined")}
          [] total = 0 /\ policies > 0 ->
               Counted(Ok, "Kyverno policies, no violations", policies)
  BY Zenon DEF kyvernoFindings
<1>6. QED
  <2> HIDE DEF total, policies, message, where
  <2> QED
    BY <1>1, <1>2, <1>3, <1>4, <1>5

LEMMA GatekeeperFindingsShape ==
    ASSUME NEW s, IsSnapshot(s)
    PROVE  AreFindings(gatekeeperFindings(s))
<1> DEFINE constraints == All(s, "Constraint")
           violated == {c \in constraints : c.violations > 0}
           counts == [c \in violated |-> c.violations]
           total == SumFunction(counts)
<1>1. total \in Nat
  <2>1. IsFiniteSet(violated)
    BY ObjectsOfKind, SubsetIsFinite
  <2>2. \A c \in violated : c.violations \in Nat
    BY ObjectsOfKind, FieldsOfObject
  <2>3. DOMAIN counts = violated /\ \A c \in DOMAIN counts : counts[c] \in Nat
    BY <2>2
  <2> HIDE DEF counts, violated
  <2> QED
    BY <2>1, <2>3, SumIsNat
<1>2. IsFiniteSet(constraints)
  BY ObjectsOfKind
<1>3. /\ AreFindings({Named(Warning, "Gatekeeper constraint violations", total,
                            names(violated), 3)})
      /\ AreFindings({Plain(Info, "Gatekeeper is installed but no constraints are defined")})
      /\ AreFindings(Counted(Ok, "Gatekeeper constraints report no violations",
                             Cardinality(constraints)))
  <2> HIDE DEF total, violated, constraints
  <2> QED
    BY <1>1, <1>2, NamedHasShape, PlainHasShape, CountedHasShape, SeveritiesAreLevels
<1>4. gatekeeperFindings(s) =
        CASE total > 0 ->
               {Named(Warning, "Gatekeeper constraint violations", total,
                      names(violated), 3)}
          [] total = 0 /\ constraints = {} ->
               {Plain(Info, "Gatekeeper is installed but no constraints are defined")}
          [] total = 0 /\ constraints # {} ->
               Counted(Ok, "Gatekeeper constraints report no violations",
                       Cardinality(constraints))
  BY Zenon DEF gatekeeperFindings
<1> DEFINE none == constraints = {}
<1>5. \/ total > 0
      \/ total = 0 /\ none
      \/ total = 0 /\ ~none
  <2> HIDE DEF total, none
  <2> QED
    BY <1>1
<1>6. QED
  <2> HIDE DEF total, constraints, violated
  <2> QED
    BY <1>1, <1>3, <1>4, <1>5

LEMMA PolicyShape ==
    ASSUME NEW s, IsSnapshot(s), NEW covered, IsFiniteSet(covered)
    PROVE  AreFindings(Policy(s, covered))
<1>1. AreFindings(policyCoverageFindings(s, covered))
  <2> DEFINE guarded(ns) ==
               \/ In(s, "PolicyReport", ns) \cup In(s, "Policy", ns) # {}
               \/ \E c \in All(s, "Constraint") : covers(c, ns)
             bare == {ns \in covered : ~guarded(ns) /\ namespaceHasPods(s, ns)}
  <2>1. IsFiniteSet(bare)
    <3> HIDE DEF guarded
    <3> QED
      BY SubsetIsFinite
  <2>2. AreFindings(Listed(Warning, "namespaces not covered by any admission policy", bare, 4))
    <3> HIDE DEF bare
    <3> QED
      BY <2>1, ListedHasShape, SeveritiesAreLevels
  <2> QED
    BY <2>2, NoFindings, Zenon DEF policyCoverageFindings
<1> DEFINE K == IF s.HasKyverno THEN kyvernoFindings(s, covered) ELSE {}
           G == IF s.HasGatekeeper THEN gatekeeperFindings(s) ELSE {}
<1>2. AreFindings(K) /\ AreFindings(G)
  BY KyvernoFindingsShape, GatekeeperFindingsShape, NoFindings
<1>3. AreFindings(UNION {K, G, policyCoverageFindings(s, covered)})
  <2> HIDE DEF K, G
  <2> QED
    BY <1>1, <1>2, FewHaveShape
<1>4. QED
  BY <1>3, NoFindings, Zenon DEF Policy
-----------------------------------------------------------------------------
(***************************************************************************)
(* The sections on the platform.                                           *)
(***************************************************************************)
LEMMA SmallSetsAreFinite ==
    ASSUME NEW a, NEW b, NEW c
    PROVE  IsFiniteSet({a}) /\ IsFiniteSet({a, b}) /\ IsFiniteSet({a, b, c})
<1>1. IsFiniteSet({a})
  BY FS_Singleton
<1>2. IsFiniteSet({a} \cup {b})
  BY <1>1, FS_AddElement
<1>3. IsFiniteSet({a} \cup {b} \cup {c})
  BY <1>2, FS_AddElement
<1>4. {a, b} = {a} \cup {b} /\ {a, b, c} = {a} \cup {b} \cup {c}
  OBVIOUS
<1>5. QED
  BY <1>1, <1>2, <1>3, <1>4

LEMMA NodeConditionFindingsShape ==
    ASSUME NEW nodes, IsFiniteSet(nodes)
    PROVE  AreFindings(nodeConditionFindings(nodes))
<1> DEFINE conditions == {"MemoryPressure", "DiskPressure", "PIDPressure"}
           under(condition) == {n \in nodes : condition \in n.pressure}
           of(condition) == Listed(Warning, "nodes under " \o condition,
                                   names(under(condition)), 4)
           each == [condition \in conditions |-> of(condition)]
           down == {n \in nodes : ~n.ready}
           cordoned == {n \in nodes : n.unschedulable}
<1>1. IsFiniteSet(down) /\ IsFiniteSet(cordoned)
  BY SubsetIsFinite
<1>2. \A condition \in conditions : AreFindings(each[condition])
  <2>1. ASSUME NEW condition PROVE AreFindings(of(condition))
    <3>1. IsFiniteSet(under(condition))
      BY SubsetIsFinite
    <3> HIDE DEF under
    <3> QED
      BY <3>1, NamesAreFinite, ListedHasShape, SeveritiesAreLevels
  <2> HIDE DEF of, conditions
  <2> QED
    BY <2>1
<1>3. AreFindings(UNION {of(condition) : condition \in conditions})
  <2>1. IsFiniteSet(conditions)
    BY SmallSetsAreFinite
  <2>2. UNION {each[condition] : condition \in conditions} =
        UNION {of(condition) : condition \in conditions}
    <3> HIDE DEF of, conditions
    <3> QED
      OBVIOUS
  <2> HIDE DEF each, conditions, of
  <2>3. AreFindings(UNION {each[condition] : condition \in conditions})
    BY <1>2, <2>1, EachHasShape
  <2> QED
    BY <2>2, <2>3
<1>4. /\ AreFindings(Listed(Critical, "nodes NotReady", names(down), 4))
      /\ AreFindings(Listed(Warning, "nodes cordoned", names(cordoned), 4))
  <2> HIDE DEF down, cordoned
  <2> QED
    BY <1>1, NamesAreFinite, ListedHasShape, SeveritiesAreLevels
<1>5. QED
  BY <1>3, <1>4, UnionHasShape, Zenon DEF nodeConditionFindings

LEMMA NodeVersionFindingsShape ==
    ASSUME NEW nodes, IsFiniteSet(nodes), NEW minor
    PROVE  AreFindings(nodeVersionFindings(nodes, minor))
<1> DEFINE behind == {n \in nodes : /\ minor > 0 /\ n.minor > 0
                                    /\ minor - n.minor > kubeletSkewLimit}
           versions == {n.version : n \in nodes}
           f == [n \in behind |-> n.name \o " (" \o n.version \o ")"]
           texts == {n.name \o " (" \o n.version \o ")" : n \in behind}
<1>1. IsFiniteSet(behind)
  BY SubsetIsFinite
<1>2. AreFindings(Listed(Warning, "kubelets behind the control plane", texts, 4))
  <2> HIDE DEF behind
  <2>1. \A y \in texts : \E n \in behind : y = f[n]
    OBVIOUS
  <2> HIDE DEF f, texts
  <2>2. IsFiniteSet(texts)
    BY <1>1, <2>1, CoveredIsFinite
  <2> QED
    BY <2>2, ListedHasShape, SeveritiesAreLevels
<1>3. /\ AreFindings({Named(Info, "Mixed kubelet versions", 0, versions, 4)})
      /\ AreFindings({})
  <2> HIDE DEF versions
  <2> QED
    BY NamedHasShape, NoFindings, SeveritiesAreLevels
<1>4. QED
  BY <1>2, <1>3, UnionHasShape, Zenon DEF nodeVersionFindings

LEMMA NodeTopologyFindingsShape ==
    ASSUME NEW nodes, IsFiniteSet(nodes)
    PROVE  AreFindings(nodeTopologyFindings(nodes))
<1> DEFINE zones == {n.zone : n \in nodes}
           untainted == {n \in nodes : n.controlPlane /\ ~n.tainted}
<1>1. IsFiniteSet(untainted)
  BY SubsetIsFinite
<1>2. /\ AreFindings({Named(Info, "All nodes are in a single zone", 0, zones, 1)})
      /\ AreFindings({})
      /\ AreFindings(Listed(Info, "control-plane nodes without a taint",
                            names(untainted), 4))
  <2> HIDE DEF zones, untainted
  <2> QED
    BY <1>1, NamesAreFinite, NamedHasShape, NoFindings, ListedHasShape, SeveritiesAreLevels
<1>3. QED
  BY <1>2, UnionHasShape, Zenon DEF nodeTopologyFindings

LEMMA NodeCapacityFindingsShape ==
    ASSUME NEW nodes, IsFiniteSet(nodes), NEW pods
    PROVE  AreFindings(nodeCapacityFindings(nodes, pods))
<1> DEFINE on(n) == {p \in pods : p.node = n.name
                                  /\ p.phase \notin {"Succeeded", "Failed"}}
           full(requested, allocatable) ==
               allocatable > 0 /\ 10 * requested > 9 * allocatable
           reasons(n) ==
               (IF full(cpuOf(on(n)), n.cpu) THEN " cpu" ELSE "") \o
               (IF full(memOf(on(n)), n.mem) THEN " memory" ELSE "")
           crowded == {n \in nodes : reasons(n) # ""}
           f == [n \in crowded |-> n.name \o reasons(n)]
           texts == {n.name \o reasons(n) : n \in crowded}
<1>1. AreFindings(Listed(Warning, "nodes near allocatable limits", texts, 4))
  <2> HIDE DEF reasons
  <2>1. IsFiniteSet(crowded)
    BY SubsetIsFinite
  <2>2. \A y \in texts : \E n \in crowded : y = f[n]
    <3> HIDE DEF crowded
    <3> QED
      OBVIOUS
  <2> HIDE DEF f, texts, crowded
  <2>3. IsFiniteSet(texts)
    BY <2>1, <2>2, CoveredIsFinite
  <2> QED
    BY <2>3, ListedHasShape, SeveritiesAreLevels
<1>2. QED
  BY <1>1, Zenon DEF nodeCapacityFindings

LEMMA NodesShape ==
    ASSUME NEW s, IsSnapshot(s)
    PROVE  AreFindings(Nodes(s))
<1> DEFINE nodes == All(s, "Node")
           A == nodeConditionFindings(nodes)
           B == nodeVersionFindings(nodes, clusterMinor(s))
           C == nodeTopologyFindings(nodes)
           D == nodeCapacityFindings(nodes, All(s, "Pod"))
<1>1. IsFiniteSet(nodes)
  BY ObjectsOfKind
<1>2. AreFindings(A) /\ AreFindings(B) /\ AreFindings(C) /\ AreFindings(D)
  <2> HIDE DEF nodes
  <2> QED
    BY <1>1, NodeConditionFindingsShape, NodeVersionFindingsShape,
       NodeTopologyFindingsShape, NodeCapacityFindingsShape
<1>3. AreFindings(UNION {A, B, C, D})
  <2> HIDE DEF A, B, C, D
  <2> QED
    BY <1>2, FewHaveShape
<1>4. QED
  BY <1>3, Zenon DEF Nodes
-----------------------------------------------------------------------------
LEMMA ExpiryFindingShape ==
    ASSUME NEW secret, secret.left \in Int
    PROVE  AreFindings(expiryFinding(secret))
<1> DEFINE key == <<"secret", secret.ns, secret.name>>
<1>1. CASE secret.left <= 0
  <2>1. AreFindings({About(Critical, "expired", key)})
    BY AboutHasShape, OneFinding, SeveritiesAreLevels
  <2> QED
    BY <1>1, <2>1 DEF expiryFinding
<1>2. CASE secret.left > 0 /\ secret.left < 7
  <2>1. AreFindings({Finding(Critical, "expires", secret.left, {}, 0, key, {})})
    <3> HIDE DEF key
    <3> QED
      BY <1>2, FindingHasShape, OneFinding, SeveritiesAreLevels
  <2> QED
    BY <1>2, <2>1 DEF expiryFinding
<1>3. CASE secret.left >= 7 /\ secret.left < 30
  <2>1. AreFindings({Finding(Warning, "expires", secret.left, {}, 0, key, {})})
    <3> HIDE DEF key
    <3> QED
      BY <1>3, FindingHasShape, OneFinding, SeveritiesAreLevels
  <2> QED
    BY <1>3, <2>1 DEF expiryFinding
<1>4. CASE secret.left >= 30
  BY <1>4, NoFindings DEF expiryFinding
<1>5. QED
  BY <1>1, <1>2, <1>3, <1>4

LEMMA TlsNamesAreFinite ==
    ASSUME NEW o, IsObject(o), o.kind \in {"Ingress", "Gateway"}
    PROVE  IsFiniteSet(tlsNames(o))
<1>1. CASE o.kind = "Ingress"
  <2>1. IsFiniteSet(o.tls)
    BY <1>1 DEF IsObject
  <2> QED
    BY <1>1, <2>1, FS_Difference DEF tlsNames
<1>2. CASE o.kind = "Gateway"
  <2> DEFINE refs == {ref \in o.refs : /\ ref.kind \in {"", "Secret"}
                                       /\ ref.ns \in {"", o.ns}
                                       /\ ref.name # ""}
             f == [ref \in refs |-> ref.name]
  <2>1. IsFiniteSet(o.refs)
    BY <1>2 DEF IsObject
  <2>2. IsFiniteSet(refs)
    BY <2>1, SubsetIsFinite
  <2>3. \A y \in tlsNames(o) : \E ref \in refs : y = f[ref]
    BY <1>2 DEF tlsNames, gatewayTLSSecretNames, localRefs
  <2> HIDE DEF f, refs
  <2> QED
    BY <2>2, <2>3, CoveredIsFinite
<1>3. QED
  BY <1>1, <1>2

\* What tlsFindings reads and says of each Secret that is referred to.
tlsUsers(s, covered) ==
    {o \in All(s, "Ingress") \cup All(s, "Gateway") : o.ns \in covered}

tlsKeys(s, covered) ==
    UNION {{<<o.ns, n>> : n \in tlsNames(o)} : o \in tlsUsers(s, covered)}

aboutTLS(s, covered, key) ==
    LET of == {o \in In(s, "Secret", key[1]) : o.name = key[2]}
        usersOf == {o \in tlsUsers(s, covered) : o.ns = key[1] /\ key[2] \in tlsNames(o)}
    IN CASE of = {} /\ s.HasSecretAccess ->
              {missingTLSFinding(firstReference(usersOf), key[2])}
         [] of = {} /\ ~s.HasSecretAccess -> {}
         [] of # {} -> UNION {expiryFinding(o) : o \in {o \in of : o.leaf}}

LEMMA TlsFindingsAre ==
    ASSUME NEW s, NEW covered
    PROVE  tlsFindings(s, covered) =
             UNION {aboutTLS(s, covered, key) : key \in tlsKeys(s, covered)}
BY Zenon DEF tlsFindings, aboutTLS, tlsKeys, tlsUsers

LEMMA TlsKeysAreFinite ==
    ASSUME NEW s, IsSnapshot(s), NEW covered
    PROVE  IsFiniteSet(tlsKeys(s, covered))
<1> DEFINE users == tlsUsers(s, covered)
           of(o) == {<<o.ns, n>> : n \in tlsNames(o)}
           each == [o \in users |-> of(o)]
<1>1. IsFiniteSet(users)
  <2>1. users \subseteq All(s, "Ingress") \cup All(s, "Gateway")
    BY DEF tlsUsers
  <2>2. IsFiniteSet(All(s, "Ingress") \cup All(s, "Gateway"))
    BY ObjectsOfKind, FS_Union
  <2> QED
    BY <2>1, <2>2, SubsetIsFinite
<1>2. ASSUME NEW o \in users PROVE IsFiniteSet(of(o))
  <2> DEFINE f == [n \in tlsNames(o) |-> <<o.ns, n>>]
  <2>1. IsFiniteSet(tlsNames(o))
    <3>1. IsObject(o) /\ o.kind \in {"Ingress", "Gateway"}
      BY ObjectsOfKind DEF tlsUsers
    <3> QED
      BY <3>1, TlsNamesAreFinite
  <2>2. \A y \in of(o) : \E n \in tlsNames(o) : y = f[n]
    OBVIOUS
  <2> HIDE DEF f, of
  <2> QED
    BY <2>1, <2>2, CoveredIsFinite
<1>3. tlsKeys(s, covered) = UNION {each[o] : o \in users}
  <2>1. tlsKeys(s, covered) = UNION {of(o) : o \in users}
    BY Zenon DEF tlsKeys
  <2> HIDE DEF of, users
  <2> QED
    BY <2>1
<1>4. \A o \in users : IsFiniteSet(each[o])
  <2> HIDE DEF of, users
  <2> QED
    BY <1>2
<1>5. QED
  <2> HIDE DEF each, users
  <2> QED
    BY <1>1, <1>3, <1>4, EachIsFinite

LEMMA AboutTLSShape ==
    ASSUME NEW s, IsSnapshot(s), s.HasSecretAccess \in BOOLEAN, NEW covered, NEW key
    PROVE  AreFindings(aboutTLS(s, covered, key))
<1> DEFINE of == {o \in In(s, "Secret", key[1]) : o.name = key[2]}
           leaves == {o \in of : o.leaf}
           usersOf == {o \in tlsUsers(s, covered) : o.ns = key[1] /\ key[2] \in tlsNames(o)}
           missing == missingTLSFinding(firstReference(usersOf), key[2])
           each == [o \in leaves |-> expiryFinding(o)]
<1>1. IsFiniteSet(leaves) /\ \A o \in leaves : o.left \in Int
  <2>1. leaves \subseteq In(s, "Secret", key[1])
    OBVIOUS
  <2>2. \A o \in In(s, "Secret", key[1]) : o.left \in Int
    <3>1. \A o \in In(s, "Secret", key[1]) : o.kind = "Secret" /\ IsObject(o)
      BY DEF In, IsSnapshot
    <3>2. \A o : o.kind = "Secret" /\ IsObject(o) => o.left \in Int
      BY Zenon DEF IsObject
    <3> QED
      BY <3>1, <3>2
  <2>3. IsFiniteSet(In(s, "Secret", key[1]))
    BY ObjectsOfKind
  <2> HIDE DEF leaves
  <2> QED
    BY <2>1, <2>2, <2>3, SubsetIsFinite
<1>2. AreFindings(UNION {expiryFinding(o) : o \in leaves})
  <2> HIDE DEF leaves
  <2>1. \A o \in leaves : AreFindings(each[o])
    BY <1>1, ExpiryFindingShape
  <2>2. UNION {each[o] : o \in leaves} = UNION {expiryFinding(o) : o \in leaves}
    OBVIOUS
  <2> HIDE DEF each
  <2>3. AreFindings(UNION {each[o] : o \in leaves})
    BY <1>1, <2>1, EachHasShape
  <2> QED
    BY <2>2, <2>3
<1>3. AreFindings({missing})
  <2>1. IsFinding(missing)
    BY FindingHasShape, SeveritiesAreLevels DEF missingTLSFinding
  <2> HIDE DEF missing
  <2> QED
    BY <2>1, OneFinding
<1>4. aboutTLS(s, covered, key) =
        CASE of = {} /\ s.HasSecretAccess -> {missing}
          [] of = {} /\ ~s.HasSecretAccess -> {}
          [] of # {} -> UNION {expiryFinding(o) : o \in leaves}
  BY Zenon DEF aboutTLS
<1>5. QED
  <2> HIDE DEF of, missing, leaves
  <2> QED
    BY <1>2, <1>3, <1>4, NoFindings

LEMMA CertificatesShape ==
    ASSUME NEW s, IsSnapshot(s), s.HasSecretAccess \in BOOLEAN, NEW covered
    PROVE  AreFindings(Certificates(s, covered))
<1> DEFINE each == [key \in tlsKeys(s, covered) |-> aboutTLS(s, covered, key)]
           waiting == {o \in All(s, "Certificate") : o.ns \in covered /\ ~o.ready}
           of(o) == Finding(Warning, "Certificate is not Ready", 0,
                            {o.ns \o "/" \o o.name} \cup ({o.reason} \ {""}), 0,
                            <<"certificate", o.name>>, {})
           f == [o \in waiting |-> of(o)]
<1>1. AreFindings(tlsFindings(s, covered))
  <2>1. \A key \in tlsKeys(s, covered) : AreFindings(each[key])
    BY AboutTLSShape
  <2>2. tlsFindings(s, covered) = UNION {each[key] : key \in tlsKeys(s, covered)}
    BY TlsFindingsAre
  <2> HIDE DEF each
  <2> QED
    BY <2>1, <2>2, TlsKeysAreFinite, EachHasShape
<1>2. AreFindings({of(o) : o \in waiting})
  <2>1. IsFiniteSet(waiting)
    BY ObjectsOfKind, SubsetIsFinite
  <2>2. \A o : IsFinding(of(o))
    BY FindingHasShape, SeveritiesAreLevels
  <2> HIDE DEF of, waiting
  <2>3. \A y \in {of(o) : o \in waiting} : \E o \in waiting : y = f[o]
    OBVIOUS
  <2> HIDE DEF f
  <2>4. IsFiniteSet({of(o) : o \in waiting})
    BY <2>1, <2>3, CoveredIsFinite
  <2> QED
    BY <2>2, <2>4 DEF AreFindings
<1>3. QED
  BY <1>1, <1>2, UnionHasShape, Zenon DEF Certificates
-----------------------------------------------------------------------------
LEMMA DeprecatedAPIsAreFinite == IsFiniteSet(deprecatedAPIs)
<1>1. ASSUME NEW api, NEW kinds, IsFiniteSet(kinds), NEW from, NEW to
      PROVE  IsFiniteSet(deprecation(api, kinds, from, to))
  <2> DEFINE f == [k \in kinds |-> [api |-> api, kind |-> k, deprecatedIn |-> from,
                                    removedIn |-> to]]
  <2>1. \A y \in deprecation(api, kinds, from, to) : \E k \in kinds : y = f[k]
    BY DEF deprecation
  <2> HIDE DEF f
  <2> QED
    BY <1>1, <2>1, CoveredIsFinite
<1> DEFINE A == deprecation("extensions/v1beta1",
                            {"Deployment", "DaemonSet", "NetworkPolicy"}, 9, 16)
           B == deprecation("apps/v1beta1", {"Deployment", "StatefulSet"}, 9, 16)
           C == deprecation("apps/v1beta2", {"Deployment", "StatefulSet", "DaemonSet"}, 9, 16)
           D == deprecation("extensions/v1beta1", {"Ingress"}, 14, 22)
           E == deprecation("networking.k8s.io/v1beta1", {"Ingress"}, 19, 22)
           F == deprecation("batch/v2alpha1", {"CronJob"}, 8, 21)
           G == deprecation("batch/v1beta1", {"CronJob"}, 21, 25)
           H == deprecation("policy/v1beta1", {"PDB"}, 21, 25)
           I == deprecation("autoscaling/v2beta1", {"HPA"}, 22, 25)
           J == deprecation("autoscaling/v2beta2", {"HPA"}, 23, 26)
<1>2. /\ IsFiniteSet(A) /\ IsFiniteSet(B) /\ IsFiniteSet(C) /\ IsFiniteSet(D)
      /\ IsFiniteSet(E) /\ IsFiniteSet(F) /\ IsFiniteSet(G) /\ IsFiniteSet(H)
      /\ IsFiniteSet(I) /\ IsFiniteSet(J)
  BY <1>1, SmallSetsAreFinite
<1>3. deprecatedAPIs = UNION {A, B, C, D, E, F, G, H, I, J}
  BY Zenon DEF deprecatedAPIs
<1> HIDE DEF A, B, C, D, E, F, G, H, I, J
<1>4. deprecatedAPIs = ((A \cup B) \cup (C \cup D)) \cup ((E \cup F) \cup (G \cup H))
                         \cup (I \cup J)
  BY <1>3
<1>5. /\ IsFiniteSet(A \cup B) /\ IsFiniteSet(C \cup D) /\ IsFiniteSet(E \cup F)
      /\ IsFiniteSet(G \cup H) /\ IsFiniteSet(I \cup J)
  BY <1>2, FS_Union
<1>6. /\ IsFiniteSet((A \cup B) \cup (C \cup D))
      /\ IsFiniteSet((E \cup F) \cup (G \cup H))
  BY <1>5, FS_Union
<1>7. IsFiniteSet(((A \cup B) \cup (C \cup D)) \cup ((E \cup F) \cup (G \cup H)))
  BY <1>6, FS_Union
<1>8. QED
  BY <1>4, <1>5, <1>7, FS_Union

LEMMA DeprecationsShape ==
    ASSUME NEW s, IsSnapshot(s), NEW covered
    PROVE  AreFindings(Deprecations(s, covered))
<1> DEFINE minor == clusterMinor(s)
           writtenWith(d) == {o \in All(s, d.kind) : o.ns \in covered /\ d.api \in o.apis}
           severity(d) == IF removalStatus(d, minor) = "deprecated since"
                          THEN Warning ELSE Critical
           message(d) == d.kind \o " written with " \o d.api \o " " \o removalStatus(d, minor)
           texts(d) == {o.ns \o "/" \o o.name : o \in writtenWith(d)}
           of(d) == Listed(severity(d), message(d), texts(d), 4)
           due == {d \in deprecatedAPIs : minor = 0 \/ d.deprecatedIn <= minor}
           each == [d \in due |-> of(d)]
<1>1. ASSUME NEW d PROVE AreFindings(of(d))
  <2> DEFINE f == [o \in writtenWith(d) |-> o.ns \o "/" \o o.name]
  <2>1. IsFiniteSet(writtenWith(d))
    BY ObjectsOfKind, SubsetIsFinite
  <2>2. \A y \in texts(d) : \E o \in writtenWith(d) : y = f[o]
    <3> HIDE DEF writtenWith
    <3> QED
      OBVIOUS
  <2>3. IsFiniteSet(texts(d))
    <3> HIDE DEF writtenWith, texts, f
    <3> QED
      BY <2>1, <2>2, CoveredIsFinite
  <2>4. severity(d) \in Ok..Critical
    BY SeveritiesAreLevels
  <2> HIDE DEF severity, message, texts
  <2> QED
    BY <2>3, <2>4, ListedHasShape
<1>2. IsFiniteSet(due)
  BY DeprecatedAPIsAreFinite, SubsetIsFinite
<1>3. AreFindings(UNION {of(d) : d \in due})
  <2> HIDE DEF of, due
  <2>1. \A d \in due : AreFindings(each[d])
    BY <1>1
  <2>2. UNION {each[d] : d \in due} = UNION {of(d) : d \in due}
    OBVIOUS
  <2> HIDE DEF each
  <2>3. AreFindings(UNION {each[d] : d \in due})
    BY <1>2, <2>1, EachHasShape
  <2> QED
    BY <2>2, <2>3
<1>4. QED
  BY <1>3, Zenon DEF Deprecations

LEMMA MonitoringShape ==
    ASSUME NEW s, IsSnapshot(s), NEW covered
    PROVE  AreFindings(Monitoring(s, covered))
<1> DEFINE missing == componentsWithoutAlerts(s, covered)
           f == [o \in unscrapedServices(s, covered) |-> o.ns \o "/" \o o.name]
           texts == {o.ns \o "/" \o o.name : o \in unscrapedServices(s, covered)}
           A == IF hasPodWithImage(s, "alertmanager") THEN {}
                ELSE {Plain(Warning, "Prometheus found but no Alertmanager detected")}
           B == IF s.HasServiceMonitorCRD
                THEN Listed(Info, "Services not scraped by Prometheus", texts, 4)
                ELSE {Plain(Info, "ServiceMonitor CRD not installed")}
           C == IF missing = {} THEN {}
                ELSE {Finding(Warning, "Missing alerts", 0, missing, 0, <<>>, {})}
<1>1. IsFiniteSet(texts)
  <2>1. IsFiniteSet(unscrapedServices(s, covered))
    <3>1. unscrapedServices(s, covered) \subseteq All(s, "Service")
      BY DEF unscrapedServices
    <3> QED
      BY <3>1, ObjectsOfKind, SubsetIsFinite
  <2>2. \A y \in texts : \E o \in unscrapedServices(s, covered) : y = f[o]
    OBVIOUS
  <2> HIDE DEF texts, f
  <2> QED
    BY <2>1, <2>2, CoveredIsFinite
<1>2. AreFindings(A)
  BY NoFindings, PlainHasShape, SeveritiesAreLevels
<1>3. AreFindings(B)
  <2> HIDE DEF texts
  <2> QED
    BY <1>1, ListedHasShape, PlainHasShape, SeveritiesAreLevels
<1>4. AreFindings(C)
  <2> HIDE DEF missing
  <2>1. IsFinding(Finding(Warning, "Missing alerts", 0, missing, 0, <<>>, {}))
    BY FindingHasShape, SeveritiesAreLevels
  <2> QED
    BY <2>1, OneFinding, NoFindings
<1>5. AreFindings(UNION {A, B, C})
  <2> HIDE DEF A, B, C
  <2> QED
    BY <1>2, <1>3, <1>4, FewHaveShape
<1>6. AreFindings({Plain(Warning, "No Prometheus installation detected")})
  BY PlainHasShape, SeveritiesAreLevels
<1>7. QED
  BY <1>5, <1>6, Zenon DEF Monitoring

LEMMA ArgoFindingsShape ==
    ASSUME NEW apps, IsFiniteSet(apps)
    PROVE  AreFindings(argoFindings(apps))
<1> DEFINE degraded == {a \in apps : a.health \notin {"", "Healthy"}}
           outOfSync == {a \in apps : a.sync = "OutOfSync"}
           f == [a \in degraded |-> a.ns \o "/" \o a.name \o " (" \o a.health \o ")"]
           g == [a \in outOfSync |-> a.ns \o "/" \o a.name]
           T == {a.ns \o "/" \o a.name \o " (" \o a.health \o ")" : a \in degraded}
           U == {a.ns \o "/" \o a.name : a \in outOfSync}
<1>1. IsFiniteSet(degraded) /\ IsFiniteSet(outOfSync)
  BY SubsetIsFinite
<1>2. IsFiniteSet(T) /\ IsFiniteSet(U)
  <2> HIDE DEF degraded, outOfSync
  <2>1. \A y \in T : \E a \in degraded : y = f[a]
    OBVIOUS
  <2>2. \A y \in U : \E a \in outOfSync : y = g[a]
    OBVIOUS
  <2> HIDE DEF T, U, f, g
  <2>3. IsFiniteSet(T)
    BY <1>1, <2>1, CoveredIsFinite
  <2>4. IsFiniteSet(U)
    BY <1>1, <2>2, CoveredIsFinite
  <2> QED
    BY <2>3, <2>4
<1>3. /\ AreFindings(Listed(Warning, "unhealthy Argo CD Applications", T, 4))
      /\ AreFindings(Listed(Warning, "Argo CD Applications OutOfSync", U, 4))
      /\ AreFindings({Plain(Ok, "All Argo CD Applications are Healthy")})
      /\ AreFindings({})
  <2> HIDE DEF T, U
  <2> QED
    BY <1>2, ListedHasShape, PlainHasShape, NoFindings, SeveritiesAreLevels
<1>4. QED
  BY <1>3, UnionHasShape, Zenon DEF argoFindings

LEMMA FluxFindingsShape ==
    ASSUME NEW resources, IsFiniteSet(resources)
    PROVE  AreFindings(fluxFindings(resources))
<1> DEFINE notReady == {r \in resources : ~r.ready}
           f == [r \in notReady |-> r.kind \o " " \o r.ns \o "/" \o r.name]
           T == {r.kind \o " " \o r.ns \o "/" \o r.name : r \in notReady}
<1>1. IsFiniteSet(notReady)
  BY SubsetIsFinite
<1>2. IsFiniteSet(T)
  <2> HIDE DEF notReady
  <2>1. \A y \in T : \E r \in notReady : y = f[r]
    OBVIOUS
  <2> HIDE DEF T, f
  <2> QED
    BY <1>1, <2>1, CoveredIsFinite
<1>3. /\ AreFindings(Listed(Warning, "Flux resources not Ready", T, 4))
      /\ AreFindings({Plain(Ok, "All Flux resources are Ready")})
  <2> HIDE DEF T
  <2> QED
    BY <1>2, ListedHasShape, PlainHasShape, SeveritiesAreLevels
<1>4. QED
  BY <1>3, Zenon DEF fluxFindings

LEMMA GitOpsShape ==
    ASSUME NEW s, IsSnapshot(s)
    PROVE  AreFindings(GitOps(s))
<1>1. AreFindings(argoFindings(All(s, "Application")))
  BY ObjectsOfKind, ArgoFindingsShape
<1>2. AreFindings(fluxFindings(All(s, "Kustomization") \cup All(s, "HelmRelease")))
  BY ObjectsOfKind, FS_Union, FluxFindingsShape
<1>3. AreFindings({Plain(Info, "No GitOps tooling detected")})
  BY PlainHasShape, SeveritiesAreLevels
<1>4. QED
  BY <1>1, <1>2, <1>3, NoFindings, UnionHasShape, Zenon DEF GitOps
-----------------------------------------------------------------------------
(***************************************************************************)
(* The sections on sizes.                                                  *)
(***************************************************************************)

\* The samples and the options an analysis is given.
IsUsage(usage) ==
    IsFiniteSet(usage) /\ \A u \in usage : u.cpu \in Nat /\ u.mem \in Nat

IsCost(cost) == cost.cpu \in Nat /\ cost.gib \in Nat

LEMMA OverprovisionFindingShape ==
    ASSUME NEW resource, NEW used \in Nat, NEW requests \in Nat
    PROVE  AreFindings({overprovisionFinding(resource, used, requests)})
<1> DEFINE over == 100 * (requests - used)
           severity == CASE over >= 60 * requests -> Warning
                         [] over >= 30 * requests /\ over < 60 * requests -> Info
                         [] over < 30 * requests -> Ok
<1>1. severity \in Ok..Critical
  BY SeveritiesAreLevels
<1>2. /\ AreFindings({Plain(Warning, resource \o " usage exceeds requests")})
      /\ AreFindings({Plain(severity, "Estimated " \o resource \o " overprovisioning")})
  <2> HIDE DEF severity
  <2> QED
    BY <1>1, PlainHasShape, SeveritiesAreLevels
<1>3. QED
  BY <1>2, Zenon DEF overprovisionFinding

LEMMA UsageSumsAreNatural ==
    ASSUME NEW usage, IsUsage(usage), NEW S \in SUBSET usage
    PROVE  /\ SumFunction([u \in S |-> u.cpu]) \in Nat
           /\ SumFunction([u \in S |-> u.mem]) \in Nat
<1> DEFINE cpu == [u \in S |-> u.cpu]
           mem == [u \in S |-> u.mem]
<1>1. IsFiniteSet(S)
  BY SubsetIsFinite DEF IsUsage
<1>2. /\ DOMAIN cpu = S /\ \A u \in DOMAIN cpu : cpu[u] \in Nat
      /\ DOMAIN mem = S /\ \A u \in DOMAIN mem : mem[u] \in Nat
  BY DEF IsUsage
<1>3. QED
  <2> HIDE DEF cpu, mem
  <2>1. SumFunction(cpu) \in Nat /\ SumFunction(mem) \in Nat
    BY <1>1, <1>2, SumIsNat
  <2> QED
    BY <2>1 DEF cpu, mem

LEMMA OptimizationShape ==
    ASSUME NEW s, IsSnapshot(s), NEW covered, NEW usage, IsUsage(usage), NEW prometheus
    PROVE  AreFindings(Optimization(s, covered, usage, prometheus))
<1> DEFINE running == {p \in All(s, "Pod") : p.ns \in covered /\ p.phase = "Running"}
           samples == {u \in usage : u.ns \in covered}
           cpu == cpuOf(running)
           mem == memOf(running)
           usedCPU == SumFunction([u \in samples |-> u.cpu])
           usedMem == SumFunction([u \in samples |-> u.mem])
<1>1. cpu \in Nat /\ mem \in Nat
  <2>1. IsFiniteSet(running)
    BY ObjectsOfKind, SubsetIsFinite
  <2>2. \A p \in running : IsObject(p) /\ p.kind \in podKinds
    BY ObjectsOfKind DEF podKinds
  <2> HIDE DEF running
  <2> QED
    BY <2>1, <2>2, RequestsAreNatural
<1>2. usedCPU \in Nat /\ usedMem \in Nat
  <2>1. samples \in SUBSET usage
    OBVIOUS
  <2> HIDE DEF samples
  <2> QED
    BY <2>1, UsageSumsAreNatural
<1>3. /\ AreFindings({overprovisionFinding("CPU", usedCPU, cpu)})
      /\ AreFindings({overprovisionFinding("Memory", usedMem, mem)})
  <2> HIDE DEF usedCPU, usedMem, cpu, mem
  <2> QED
    BY <1>1, <1>2, OverprovisionFindingShape
<1>4. /\ AreFindings({Plain(Info, "Prometheus URL not configured")})
      /\ AreFindings({Plain(Info, "No resource requests set")})
      /\ AreFindings({Plain(Info, "Could not query Prometheus")})
      /\ AreFindings({})
  BY PlainHasShape, NoFindings, SeveritiesAreLevels
<1>5. QED
  BY <1>3, <1>4, UnionHasShape, Zenon DEF Optimization
-----------------------------------------------------------------------------
(***************************************************************************)
(* Recommendations, and which of them are kept when there are too many.    *)
(***************************************************************************)
IsRecommendation(r) ==
    /\ r.pods \in Nat /\ r.spareCPU \in Nat /\ r.spareMem \in Nat
    /\ {r.cpu, r.mem, r.memLimit} \subseteq Nat

LEMMA CeilDivIsNatural ==
    ASSUME NEW a \in Nat, NEW b \in Nat \ {0}
    PROVE  CeilDiv(a, b) \in Nat
BY DEF CeilDiv

LEMMA LargerIsMax ==
    ASSUME NEW a \in Nat, NEW b \in Int
    PROVE  /\ Max({a, b}) \in Nat /\ Max({a, b}) \in {a, b}
           /\ Max({a, b}) >= a /\ Max({a, b}) >= b
<1>1. IsFiniteSet({a, b})
  BY SmallSetsAreFinite
<1>2. {a, b} # {} /\ \A x \in {a, b} : x \in Int
  OBVIOUS
<1>3. Max({a, b}) \in {a, b} /\ \A x \in {a, b} : Max({a, b}) >= x
  BY <1>1, <1>2, MaxIsLargest
<1>4. QED
  BY <1>3

LEMMA RoundingsAreNatural ==
    ASSUME NEW n \in Nat, NEW percent \in Nat
    PROVE  /\ roundCPU(n) \in Nat
           /\ roundMem(n, percent) \in Nat
           /\ suggestedMem(n) \in Nat
<1>1. CeilDiv(11 * n, 100) \in Nat /\ CeilDiv(11 * n, 1000) \in Nat
  BY CeilDivIsNatural
<1>2. roundCPU(n) \in Nat
  <2> DEFINE c == CeilDiv(11 * n, 100) * 10
             d == CeilDiv(11 * n, 1000) * 100
  <2>1. c \in Nat /\ d \in Nat
    BY <1>1
  <2>2. /\ 11 * n < 10000 => roundCPU(n) = Max({10, c})
        /\ ~(11 * n < 10000) => roundCPU(n) = d
    BY DEF roundCPU
  <2> HIDE DEF c, d
  <2>3. Max({10, c}) \in Nat
    <3>1. 10 \in Nat /\ c \in Int
      BY <2>1
    <3> QED
      BY <3>1, LargerIsMax, Zenon
  <2> QED
    BY <2>1, <2>2, <2>3
<1>3. ASSUME NEW p \in Nat PROVE roundMem(n, p) \in Nat
  <2>1. p * n \in Nat
    OBVIOUS
  <2>2. CeilDiv(p * n, 3200) \in Nat
    BY <2>1, CeilDivIsNatural
  <2> QED
    BY <2>2 DEF roundMem
<1>4. suggestedMem(n) \in Nat
  <2>1. roundMem(n, 115) \in Nat
    BY <1>3
  <2>2. 32 \in Nat /\ roundMem(n, 115) \in Int
    BY <2>1
  <2> QED
    BY <2>2, LargerIsMax, Zenon DEF suggestedMem
<1>5. QED
  BY <1>2, <1>3, <1>4

\* The largest sample of either resource.
LEMMA PeakIsNatural ==
    ASSUME NEW usage, IsUsage(usage), NEW S \in SUBSET usage
    PROVE  /\ Max({0} \cup {u.cpu : u \in S}) \in Nat
           /\ Max({0} \cup {u.mem : u \in S}) \in Nat
           /\ \A u \in S : /\ Max({0} \cup {v.cpu : v \in S}) >= u.cpu
                           /\ Max({0} \cup {v.mem : v \in S}) >= u.mem
<1> DEFINE C == {0} \cup {u.cpu : u \in S}
           M == {0} \cup {u.mem : u \in S}
           f == [u \in S |-> u.cpu]
           g == [u \in S |-> u.mem]
<1>1. IsFiniteSet(S) /\ \A u \in S : u.cpu \in Nat /\ u.mem \in Nat
  BY SubsetIsFinite DEF IsUsage
<1>2. IsFiniteSet(C)
  <2>1. \A y \in {u.cpu : u \in S} : \E u \in S : y = f[u]
    OBVIOUS
  <2>2. IsFiniteSet({u.cpu : u \in S})
    <3> HIDE DEF f
    <3> QED
      BY <1>1, <2>1, CoveredIsFinite
  <2> QED
    BY <2>2, FS_Singleton, FS_Union
<1>3. IsFiniteSet(M)
  <2>1. \A y \in {u.mem : u \in S} : \E u \in S : y = g[u]
    OBVIOUS
  <2>2. IsFiniteSet({u.mem : u \in S})
    <3> HIDE DEF g
    <3> QED
      BY <1>1, <2>1, CoveredIsFinite
  <2> QED
    BY <2>2, FS_Singleton, FS_Union
<1>4. /\ C # {} /\ \A x \in C : x \in Nat
      /\ M # {} /\ \A x \in M : x \in Nat
      /\ \A u \in S : u.cpu \in C /\ u.mem \in M
  BY <1>1
<1>5. /\ Max(C) \in C /\ \A x \in C : Max(C) >= x
      /\ Max(M) \in M /\ \A x \in M : Max(M) >= x
  <2> HIDE DEF C, M
  <2>1. (\A x \in C : x \in Int) /\ (\A x \in M : x \in Int)
    BY <1>4
  <2> QED
    BY <1>2, <1>3, <1>4, <2>1, MaxIsLargest
<1>6. QED
  <2> HIDE DEF C, M
  <2>1. Max(C) \in Nat /\ Max(M) \in Nat /\ \A u \in S : Max(C) >= u.cpu /\ Max(M) >= u.mem
    BY <1>4, <1>5
  <2> QED
    BY <2>1 DEF C, M

LEMMA RecommendShape ==
    ASSUME NEW s, IsSnapshot(s), NEW usage, IsUsage(usage), NEW w, IsObject(w),
           w.kind \in podKinds
    PROVE  /\ IsFiniteSet(recommend(s, usage, w))
           /\ \A r \in recommend(s, usage, w) : IsRecommendation(r)
<1> DEFINE pods == {p \in In(s, "Pod", w.ns) : /\ p.phase = "Running"
                                               /\ w.selector \subseteq p.labels}
           samples == {u \in usage : \E p \in pods : u.ns = p.ns /\ u.name = p.name}
           p95 == Max({0} \cup {u.cpu : u \in samples})
           memMax == Max({0} \cup {u.mem : u \in samples})
           curCPU == cpuOf({w})
           curMem == memOf({w})
           sugCPU == roundCPU(p95)
           sugMem == suggestedMem(memMax)
           under == (curCPU > 0 /\ p95 > curCPU) \/ (curMem > 0 /\ memMax > curMem)
           unset == curCPU = 0 /\ curMem = 0
           number == Cardinality(pods)
           limit == roundMem(memMax, 150)
           spareCPU == Max({0, curCPU - sugCPU})
           spareMem == Max({0, curMem - sugMem})
           state == CASE unset -> "has no resource requests"
                      [] ~unset /\ under -> "is underprovisioned"
                      [] ~unset /\ ~under -> "is overprovisioned"
           r0 == [workload |-> <<w.kind, w.ns, w.name>>,
                  containers |-> {c.name : c \in w.spec.containers},
                  pods |-> number, cpu |-> sugCPU, mem |-> sugMem, memLimit |-> limit,
                  state |-> state, spareCPU |-> spareCPU, spareMem |-> spareMem]
<1>1. number \in Nat
  <2>1. IsFiniteSet(pods)
    BY ObjectsOfKind, SubsetIsFinite
  <2> QED
    BY <2>1, FS_CardinalityType
<1>2. p95 \in Nat /\ memMax \in Nat
  <2>1. samples \in SUBSET usage
    OBVIOUS
  <2> HIDE DEF samples
  <2> QED
    BY <2>1, PeakIsNatural
<1>3. curCPU \in Nat /\ curMem \in Nat
  BY RequestsAreNatural, FS_Singleton
<1>4. sugCPU \in Nat /\ sugMem \in Nat /\ limit \in Nat
  <2> HIDE DEF p95, memMax
  <2> QED
    BY <1>2, RoundingsAreNatural
<1>5. spareCPU \in Nat /\ spareMem \in Nat
  <2> HIDE DEF curCPU, curMem, sugCPU, sugMem
  <2>1. 0 \in Nat /\ curCPU - sugCPU \in Int /\ curMem - sugMem \in Int
    BY <1>3, <1>4
  <2> QED
    BY <2>1, LargerIsMax, Zenon
<1>6. recommend(s, usage, w) = {} \/ recommend(s, usage, w) = {r0}
  BY Zenon DEF recommend
<1>7. IsRecommendation(r0)
  <2> HIDE DEF number, sugCPU, sugMem, limit, spareCPU, spareMem, state
  <2> QED
    BY <1>1, <1>4, <1>5 DEF IsRecommendation
<1>8. QED
  <2> HIDE DEF r0
  <2> QED
    BY <1>6, <1>7, FS_EmptySet, FS_Singleton

LEMMA RecommendationsShape ==
    ASSUME NEW s, IsSnapshot(s), NEW covered, NEW usage, IsUsage(usage)
    PROVE  /\ IsFiniteSet(recommendations(s, covered, usage))
           /\ \A r \in recommendations(s, covered, usage) : IsRecommendation(r)
<1> DEFINE W == {w \in UNION {All(s, k) : k \in {"Deployment", "StatefulSet", "DaemonSet"}} :
                   w.ns \in covered}
           each == [w \in W |-> recommend(s, usage, w)]
<1>1. IsFiniteSet(W) /\ \A w \in W : IsObject(w) /\ w.kind \in podKinds
  <2>1. W \subseteq s.objects /\ \A w \in W : w.kind \in podKinds
    BY DEF All, podKinds
  <2> HIDE DEF W
  <2> QED
    BY <2>1, SubsetIsFinite DEF IsSnapshot
<1>2. \A w \in W : IsFiniteSet(each[w]) /\ \A r \in each[w] : IsRecommendation(r)
  <2> HIDE DEF W
  <2> QED
    BY <1>1, RecommendShape
<1>3. recommendations(s, covered, usage) = UNION {each[w] : w \in W}
  <2>1. recommendations(s, covered, usage) = UNION {recommend(s, usage, w) : w \in W}
    BY Zenon DEF recommendations
  <2> HIDE DEF W
  <2> QED
    BY <2>1
<1>4. QED
  <2> HIDE DEF W, each
  <2> QED
    BY <1>1, <1>2, <1>3, EachIsFinite
-----------------------------------------------------------------------------
(***************************************************************************)
(* Rounding up never recommends less than was used.                        *)
(***************************************************************************)
LEMMA CeilDivCovers ==
    ASSUME NEW a \in Nat
    PROVE  /\ CeilDiv(a, 100) * 100 >= a
           /\ CeilDiv(a, 1000) * 1000 >= a
           /\ CeilDiv(a, 3200) * 3200 >= a
           /\ CeilDiv(a, 100) \in Nat /\ CeilDiv(a, 1000) \in Nat /\ CeilDiv(a, 3200) \in Nat
BY DEF CeilDiv

LEMMA RoundCPUCovers ==
    ASSUME NEW n \in Nat
    PROVE  roundCPU(n) >= n /\ roundCPU(n) >= 10
<1> DEFINE c == CeilDiv(11 * n, 100) * 10
           d == CeilDiv(11 * n, 1000) * 100
<1>1. c \in Nat /\ c >= n /\ d \in Nat /\ d >= n /\ 10 * d >= 11 * n
  <2>1. /\ CeilDiv(11 * n, 100) \in Nat /\ CeilDiv(11 * n, 100) * 100 >= 11 * n
        /\ CeilDiv(11 * n, 1000) \in Nat /\ CeilDiv(11 * n, 1000) * 1000 >= 11 * n
    BY CeilDivCovers
  <2> QED
    BY <2>1
<1>2. /\ 11 * n < 10000 => roundCPU(n) = Max({10, c})
      /\ ~(11 * n < 10000) => roundCPU(n) = d
  BY DEF roundCPU
<1> HIDE DEF c, d
<1>3. Max({10, c}) >= 10 /\ Max({10, c}) >= c /\ Max({10, c}) \in Nat
  <2>1. 10 \in Nat /\ c \in Int
    BY <1>1
  <2> QED
    BY <2>1, LargerIsMax
<1>4. CASE 11 * n < 10000
  <2>1. roundCPU(n) = Max({10, c})
    BY <1>2, <1>4
  <2> QED
    BY <1>1, <1>3, <2>1
<1>5. CASE ~(11 * n < 10000)
  <2>1. roundCPU(n) = d
    BY <1>2, <1>5
  <2> QED
    BY <1>1, <1>5, <2>1
<1>6. QED
  BY <1>4, <1>5

LEMMA SuggestedMemCovers ==
    ASSUME NEW m \in Nat
    PROVE  /\ suggestedMem(m) >= m /\ suggestedMem(m) >= 32
           /\ roundMem(m, 150) > 0 => roundMem(m, 150) >= suggestedMem(m)
<1> DEFINE x == roundMem(m, 115)
           y == roundMem(m, 150)
<1>1. x \in Nat /\ x >= m /\ y \in Nat
  <2>1. CeilDiv(115 * m, 3200) \in Nat /\ CeilDiv(115 * m, 3200) * 3200 >= 115 * m
    BY CeilDivCovers
  <2>2. CeilDiv(150 * m, 3200) \in Nat
    BY CeilDivCovers
  <2> QED
    BY <2>1, <2>2 DEF roundMem
<1>2. y > 0 => y >= x /\ y >= 32
  BY DEF roundMem, CeilDiv
<1>3. suggestedMem(m) = Max({32, x})
  BY Zenon DEF suggestedMem
<1> HIDE DEF x, y
<1>4. /\ Max({32, x}) >= 32 /\ Max({32, x}) >= x /\ Max({32, x}) \in Nat
      /\ Max({32, x}) \in {32, x}
  <2>1. 32 \in Nat /\ x \in Int
    BY <1>1
  <2> QED
    BY <2>1, LargerIsMax
<1>5. suggestedMem(m) >= m /\ suggestedMem(m) >= 32
  BY <1>1, <1>3, <1>4
<1>6. y > 0 => y >= suggestedMem(m)
  BY <1>1, <1>2, <1>3, <1>4
<1>7. QED
  BY <1>5, <1>6 DEF y

\* One container: what it requests is what its object does.
LEMMA OneContainerRequests ==
    ASSUME NEW o, NEW c, o.spec.containers = {c}, c.cpu \in Nat, c.mem \in Nat
    PROVE  cpuOf({o}) = c.cpu /\ memOf({o}) = c.mem
<1> DEFINE x == [of |-> o, c |-> c]
           f == [y \in {x} |-> y.c.cpu]
           g == [y \in {x} |-> y.c.mem]
<1>1. containersOf({o}) = {x}
  BY DEF containersOf
<1>2. cpuOf({o}) = SumFunction(f) /\ memOf({o}) = SumFunction(g)
  <2> HIDE DEF x
  <2> QED
    BY <1>1 DEF cpuOf, memOf
<1>3. f[x] = c.cpu /\ g[x] = c.mem
  OBVIOUS
<1>4. DOMAIN f = {x} /\ DOMAIN g = {x}
  OBVIOUS
<1>5. QED
  <2> HIDE DEF f, g, x
  <2>1. SumFunction(f) = f[x] /\ SumFunction(g) = g[x]
    BY <1>3, <1>4, SumOfOne
  <2> QED
    BY <1>2, <1>3, <2>1
-----------------------------------------------------------------------------
LEMMA SavingsAreNatural ==
    ASSUME NEW r, IsRecommendation(r), NEW cost, IsCost(cost)
    PROVE  savings(r, cost) \in Nat /\ waste(r) \in Nat
<1>1. ASSUME NEW a \in Nat, NEW b \in Nat PROVE a * b \in Nat
  OBVIOUS
<1>2. 1024 * r.spareCPU \in Nat /\ 1000 * r.spareMem \in Nat /\ 4096 * r.spareCPU \in Nat
  BY DEF IsRecommendation
<1>3. 1024 * r.spareCPU * cost.cpu \in Nat /\ 1000 * r.spareMem * cost.gib \in Nat
  BY <1>1, <1>2 DEF IsCost
<1>4. /\ 1024 * r.spareCPU * cost.cpu + 1000 * r.spareMem * cost.gib \in Nat
      /\ 4096 * r.spareCPU + 1000 * r.spareMem \in Nat
  BY <1>2, <1>3
<1>5. QED
  BY <1>1, <1>4 DEF savings, waste, IsRecommendation

\* Some recommendation is worse than no other.
LEMMA LeastWorseExists ==
    ASSUME NEW recs, IsFiniteSet(recs), recs # {}, \A r \in recs : IsRecommendation(r),
           NEW cost, IsCost(cost)
    PROVE  \E m \in recs : \A r \in recs : ~worse(m, r, cost)
<1>1. \A r \in recs : savings(r, cost) \in Nat /\ waste(r) \in Nat
  BY SavingsAreNatural
<1> DEFINE Bad == {T \in SUBSET recs : T # {} /\ ~ \E m \in T : \A r \in T : ~worse(m, r, cost)}
<1>2. Bad = {}
  <2> SUFFICES ASSUME Bad # {} PROVE FALSE
    OBVIOUS
  <2>1. PICK T \in Bad : \A U \in Bad : ~ (U \subseteq T /\ U # T)
    <3> Bad \subseteq SUBSET recs
      OBVIOUS
    <3> HIDE DEF Bad
    <3> QED
      BY SmallestSubset
  <2>2. PICK x \in T : TRUE
    OBVIOUS
  <2>3. T \ {x} \notin Bad /\ T \ {x} \in SUBSET recs
    BY <2>1, <2>2, Zenon
  <2>4. CASE T \ {x} = {}
    <3>1. \A y \in T : y = x
      BY <2>4
    <3>2. ~worse(x, x, cost)
      BY <1>1, <2>1, <2>2 DEF worse
    <3> QED
      BY <2>1, <2>2, <3>1, <3>2
  <2>5. CASE T \ {x} # {}
    <3>1. PICK m \in T \ {x} : \A r \in T \ {x} : ~worse(m, r, cost)
      BY <2>3, <2>5
    <3>2. CASE worse(m, x, cost)
      <4>1. ASSUME NEW r \in T PROVE ~worse(x, r, cost)
        <5>1. CASE r = x
          BY <1>1, <2>1, <5>1 DEF worse
        <5>2. CASE r # x
          <6>1. ~worse(m, r, cost)
            BY <3>1, <5>2
          <6>2. /\ savings(m, cost) \in Nat /\ waste(m) \in Nat
                /\ savings(x, cost) \in Nat /\ waste(x) \in Nat
                /\ savings(r, cost) \in Nat /\ waste(r) \in Nat
            BY <1>1, <2>1, <2>2, <3>1, <4>1
          <6> QED
            BY <3>2, <6>1, <6>2 DEF worse
        <5> QED
          BY <5>1, <5>2
      <4> QED
        BY <2>1, <2>2, <4>1
    <3>3. CASE ~worse(m, x, cost)
      <4>1. \A r \in T : ~worse(m, r, cost)
        BY <3>1, <3>3
      <4> QED
        BY <2>1, <3>1, <4>1
    <3> QED
      BY <3>2, <3>3
  <2> QED
    BY <2>4, <2>5
<1>3. QED
  BY <1>2

\* There are k recommendations of which none that is left out is worse.
isTop(best, recs, k, cost) ==
    /\ best \in SUBSET recs
    /\ Cardinality(best) = k
    /\ \A r \in recs \ best, b \in best : ~worse(r, b, cost)

LEMMA TopExists ==
    ASSUME NEW recs, IsFiniteSet(recs), \A r \in recs : IsRecommendation(r),
           NEW cost, IsCost(cost), NEW k \in 0..Cardinality(recs)
    PROVE  \E best : isTop(best, recs, k, cost)
<1> DEFINE Bad == {T \in SUBSET recs :
                     ~ \A j \in 0..Cardinality(T) : \E best : isTop(best, T, j, cost)}
<1>1. Bad = {}
  <2> SUFFICES ASSUME Bad # {} PROVE FALSE
    OBVIOUS
  <2>1. PICK T \in Bad : \A U \in Bad : ~ (U \subseteq T /\ U # T)
    <3> Bad \subseteq SUBSET recs
      OBVIOUS
    <3> HIDE DEF Bad
    <3> QED
      BY SmallestSubset
  <2>2. IsFiniteSet(T) /\ Cardinality(T) \in Nat
    BY <2>1, SubsetIsFinite, FS_CardinalityType
  <2>3. ASSUME NEW j \in 0..Cardinality(T) PROVE \E best : isTop(best, T, j, cost)
    <3>1. CASE j = Cardinality(T)
      <4>1. isTop(T, T, j, cost)
        BY <3>1 DEF isTop
      <4> QED
        BY <4>1
    <3>2. CASE j # Cardinality(T)
      <4>1. T # {}
        BY <2>2, <2>3, <3>2, FS_EmptySet
      <4>2. PICK m \in T : \A r \in T : ~worse(m, r, cost)
        <5>1. \A r \in T : IsRecommendation(r)
          BY <2>1
        <5> QED
          BY <2>2, <4>1, <5>1, LeastWorseExists
      <4>3. Cardinality(T \ {m}) = Cardinality(T) - 1
        BY <2>2, <4>2, FS_RemoveElement
      <4>4. T \ {m} \notin Bad /\ T \ {m} \in SUBSET recs
        BY <2>1, <4>2, Zenon
      <4>5. j \in 0..Cardinality(T \ {m})
        BY <2>2, <2>3, <3>2, <4>3
      <4>6. PICK best : isTop(best, T \ {m}, j, cost)
        BY <4>4, <4>5
      <4>7. isTop(best, T, j, cost)
        BY <4>2, <4>6 DEF isTop
      <4> QED
        BY <4>7
    <3> QED
      BY <3>1, <3>2
  <2> QED
    BY <2>1, <2>3
<1>2. recs \in SUBSET recs
  OBVIOUS
<1>3. QED
  BY <1>1, <1>2

LEMMA RecommendationFindingShape ==
    ASSUME NEW r, NEW cost
    PROVE  IsFinding(recommendationFinding(r, cost))
<1> DEFINE shown == IF savings(r, cost) >= dollar THEN {"saving"} ELSE {}
           f == Finding(Info, r.state, 0, shown, 0, <<r.workload[1], r.workload[3]>>, {})
           hint == IF Cardinality(r.containers) = 1 THEN {r} ELSE {}
<1>1. recommendationFinding(r, cost) = [f EXCEPT !.hint = hint]
  BY Zenon DEF recommendationFinding
<1>2. IsFinding(f)
  <2> HIDE DEF shown
  <2> QED
    BY FindingHasShape, SeveritiesAreLevels
<1>3. QED
  <2> HIDE DEF hint, f
  <2> QED
    BY <1>1, <1>2 DEF IsFinding, Plain, Finding

LEMMA FindingsOfRecommendations ==
    ASSUME NEW recs, IsFiniteSet(recs), NEW cost
    PROVE  AreFindings({recommendationFinding(r, cost) : r \in recs})
<1> DEFINE F == {recommendationFinding(r, cost) : r \in recs}
           f == [r \in recs |-> recommendationFinding(r, cost)]
<1>1. \A y \in F : \E r \in recs : y = f[r]
  OBVIOUS
<1>2. \A y \in F : IsFinding(y)
  BY RecommendationFindingShape
<1>3. QED
  <2> HIDE DEF F, f
  <2>1. IsFiniteSet(F)
    BY <1>1, CoveredIsFinite
  <2> QED
    BY <1>2, <2>1 DEF AreFindings, F

LEMMA SavingsFindingShape ==
    ASSUME NEW recs, NEW cost
    PROVE  /\ AreFindings(savingsFinding(recs, cost))
           /\ Cardinality(savingsFinding(recs, cost)) \in 0..1
<1> DEFINE F == {Plain(Info, "Estimated monthly savings")}
<1>1. AreFindings(F) /\ AreFindings({})
  BY PlainHasShape, NoFindings, SeveritiesAreLevels
<1>2. Cardinality(F) = 1 /\ Cardinality({}) = 0
  BY FS_Singleton, FS_EmptySet
<1>3. savingsFinding(recs, cost) = F \/ savingsFinding(recs, cost) = {}
  BY Zenon DEF savingsFinding
<1>4. QED
  <2> HIDE DEF F
  <2> QED
    BY <1>1, <1>2, <1>3

LEMMA RightsizeShape ==
    ASSUME NEW s, IsSnapshot(s), NEW covered, NEW usage, IsUsage(usage), NEW cost
    PROVE  AreFindings(rightsize(s, covered, usage, cost))
<1> DEFINE recs == recommendations(s, covered, usage)
<1>1. IsFiniteSet(recs)
  BY RecommendationsShape
<1>2. /\ AreFindings(savingsFinding(recs, cost))
      /\ AreFindings({recommendationFinding(r, cost) : r \in recs})
  <2> HIDE DEF recs
  <2> QED
    BY <1>1, SavingsFindingShape, FindingsOfRecommendations
<1>3. QED
  BY <1>2, UnionHasShape, Zenon DEF rightsize

\* The findings that are kept exist: there are recommendations enough.
LEMMA TopFindingsShape ==
    ASSUME NEW s, IsSnapshot(s), NEW covered, NEW usage, IsUsage(usage), NEW cost,
           IsCost(cost), Cardinality(rightsize(s, covered, usage, cost)) > topRightsizing
    PROVE  AreFindings(topFindings(recommendations(s, covered, usage), cost))
<1> DEFINE recs == recommendations(s, covered, usage)
           total == savingsFinding(recs, cost)
           each == [r \in recs |-> recommendationFinding(r, cost)]
           found == {recommendationFinding(r, cost) : r \in recs}
           room == topRightsizing - Cardinality(total)
           kept == CHOOSE best \in SUBSET recs :
                     /\ Cardinality(best) = room
                     /\ \A r \in recs \ best, b \in best : ~worse(r, b, cost)
<1>1. IsFiniteSet(recs) /\ (\A r \in recs : IsRecommendation(r))
  BY RecommendationsShape
<1>2. Cardinality(recs) \in Nat
  BY <1>1, FS_CardinalityType
<1>3. IsFiniteSet(found) /\ Cardinality(found) <= Cardinality(recs)
  <2>1. each \in Surjection(recs, found)
    <3>1. found = {each[r] : r \in recs}
      <4> HIDE DEF recs
      <4> QED
        OBVIOUS
    <3> QED
      BY <3>1, Fun_IsSurj, Zenon
  <2> HIDE DEF recs, found, each
  <2> QED
    BY <1>1, <2>1, FS_Surjection
<1>4. AreFindings(total) /\ Cardinality(total) \in 0..1
  <2> HIDE DEF recs
  <2> QED
    BY SavingsFindingShape
<1>5. Cardinality(total \cup found) <= Cardinality(total) + Cardinality(found)
  <2> HIDE DEF total, found
  <2>1. IsFiniteSet(total)
    BY <1>4 DEF AreFindings
  <2>2. IsFiniteSet(total \cap found)
    BY <2>1, FS_Intersection
  <2>3. Cardinality(total \cap found) \in Nat /\ Cardinality(total) \in Nat
        /\ Cardinality(found) \in Nat
    BY <1>3, <2>1, <2>2, FS_CardinalityType
  <2>4. Cardinality(total \cup found) =
          Cardinality(total) + Cardinality(found) - Cardinality(total \cap found)
    BY <1>3, <2>1, FS_Union
  <2> QED
    BY <2>3, <2>4
<1>6. rightsize(s, covered, usage, cost) = total \cup found
  BY Zenon DEF rightsize
<1>7. room \in 0..Cardinality(recs)
  <2> HIDE DEF total, found, recs
  <2>1. Cardinality(found) \in Nat /\ Cardinality(total \cup found) \in Nat
    <3>1. IsFiniteSet(total)
      BY <1>4 DEF AreFindings
    <3> QED
      BY <1>3, <3>1, FS_Union, FS_CardinalityType
  <2>2. Cardinality(total \cup found) > 3
    BY <1>6 DEF topRightsizing
  <2> QED
    BY <1>2, <1>3, <1>4, <1>5, <2>1, <2>2 DEF topRightsizing
<1>8. isTop(kept, recs, room, cost)
  <2> HIDE DEF recs, room
  <2>1. \E b : isTop(b, recs, room, cost)
    BY <1>1, <1>7, TopExists
  <2>2. \E b \in SUBSET recs :
          /\ Cardinality(b) = room
          /\ \A r \in recs \ b, c \in b : ~worse(r, c, cost)
    BY <2>1, Zenon DEF isTop
  <2> QED
    BY <2>2, Zenon DEF isTop
<1>9. AreFindings({recommendationFinding(r, cost) : r \in kept})
  <2> HIDE DEF kept, recs, room
  <2>1. IsFiniteSet(kept)
    BY <1>1, <1>8, SubsetIsFinite DEF isTop
  <2> QED
    BY <2>1, FindingsOfRecommendations
<1>10. topFindings(recs, cost) = total \cup {recommendationFinding(r, cost) : r \in kept}
  BY Zenon DEF topFindings
<1>11. QED
  <2> HIDE DEF total, kept
  <2> QED
    BY <1>4, <1>9, <1>10, UnionHasShape
-----------------------------------------------------------------------------
(***************************************************************************)
(* Reports.                                                                *)
(***************************************************************************)
HasShape(r) ==
    /\ IsFiniteSet(r.namespaces) /\ \A ns \in r.namespaces : AreFindings(ns.findings)
    /\ IsFiniteSet(DOMAIN r.sections)
    /\ \A id \in DOMAIN r.sections : AreFindings(r.sections[id])

LEMMA PlacedHaveShape ==
    ASSUME NEW fs, AreFindings(fs), NEW at, NEW team
    PROVE  /\ IsFiniteSet({[at |-> at, team |-> team, finding |-> f] : f \in fs})
           /\ \A l \in {[at |-> at, team |-> team, finding |-> f] : f \in fs} :
                IsFinding(l.finding)
<1> DEFINE e == [f \in fs |-> [at |-> at, team |-> team, finding |-> f]]
           P == {[at |-> at, team |-> team, finding |-> f] : f \in fs}
<1>1. IsFiniteSet(fs) /\ \A f \in fs : IsFinding(f)
  BY DEF AreFindings
<1>2. \A y \in P : (\E f \in fs : y = e[f]) /\ y.finding \in fs
  OBVIOUS
<1>3. IsFiniteSet(P)
  <2> HIDE DEF e, P
  <2> QED
    BY <1>1, <1>2, CoveredIsFinite
<1>4. QED
  <2> HIDE DEF P, e
  <2>1. \A l \in P : IsFinding(l.finding)
    BY <1>1, <1>2
  <2> QED
    BY <1>3, <2>1 DEF P

\* Two reports with the same namespaces and sections have the same findings.
LEMMA LocatedDependsOn ==
    ASSUME NEW r, NEW q, r.namespaces = q.namespaces, r.sections = q.sections
    PROVE  located(r) = located(q)
<1> DEFINE of(namespaces, sections) ==
             (UNION {{[at |-> <<"namespace", ns.name>>, team |-> ns.team, finding |-> f]
                        : f \in ns.findings} : ns \in namespaces})
               \cup
             (UNION {{[at |-> <<"section", id>>, team |-> "", finding |-> f]
                        : f \in sections[id]} : id \in DOMAIN sections})
<1>1. located(r) = of(r.namespaces, r.sections) /\ located(q) = of(q.namespaces, q.sections)
  BY Zenon DEF located
<1>2. QED
  <2> HIDE DEF of
  <2> QED
    BY <1>1

placedAt(at, team, fs) == {[at |-> at, team |-> team, finding |-> f] : f \in fs}

LEMMA PlacedWhere ==
    ASSUME NEW fs, NEW at, NEW team, NEW x \in placedAt(at, team, fs)
    PROVE  x.at = at /\ x.team = team /\ x.finding \in fs
BY DEF placedAt

LEMMA LocatedIs ==
    ASSUME NEW r
    PROVE  located(r) =
             (UNION {placedAt(<<"namespace", ns.name>>, ns.team, ns.findings)
                       : ns \in r.namespaces})
               \cup (UNION {placedAt(<<"section", id>>, "", r.sections[id])
                              : id \in DOMAIN r.sections})
BY Zenon DEF located, placedAt

LEMMA LocatedContains ==
    ASSUME NEW r
    PROVE  /\ \A ns \in r.namespaces :
                placedAt(<<"namespace", ns.name>>, ns.team, ns.findings) \subseteq located(r)
           /\ \A id \in DOMAIN r.sections :
                placedAt(<<"section", id>>, "", r.sections[id]) \subseteq located(r)
<1> DEFINE inSpace(ns) == placedAt(<<"namespace", ns.name>>, ns.team, ns.findings)
           inSection(id) == placedAt(<<"section", id>>, "", r.sections[id])
<1>1. located(r) = (UNION {inSpace(ns) : ns \in r.namespaces})
                     \cup (UNION {inSection(id) : id \in DOMAIN r.sections})
  BY LocatedIs, Zenon
<1>2. /\ \A ns \in r.namespaces : inSpace(ns) \subseteq located(r)
      /\ \A id \in DOMAIN r.sections : inSection(id) \subseteq located(r)
  <2> HIDE DEF inSpace, inSection
  <2> QED
    BY <1>1
<1>3. QED
  BY <1>2

\* Where a finding of a report is.
LEMMA LocatedWhere ==
    ASSUME NEW r, NEW l \in located(r)
    PROVE  \/ \E ns \in r.namespaces :
                 /\ l.at = <<"namespace", ns.name>> /\ l.team = ns.team
                 /\ l.finding \in ns.findings
           \/ \E id \in DOMAIN r.sections :
                 /\ l.at = <<"section", id>> /\ l.team = ""
                 /\ l.finding \in r.sections[id]
<1>1. \/ \E ns \in r.namespaces : l \in placedAt(<<"namespace", ns.name>>, ns.team, ns.findings)
      \/ \E id \in DOMAIN r.sections : l \in placedAt(<<"section", id>>, "", r.sections[id])
  BY LocatedIs
<1>2. ASSUME NEW ns \in r.namespaces,
             l \in placedAt(<<"namespace", ns.name>>, ns.team, ns.findings)
      PROVE  /\ l.at = <<"namespace", ns.name>> /\ l.team = ns.team
             /\ l.finding \in ns.findings
  BY <1>2, PlacedWhere
<1>3. ASSUME NEW id \in DOMAIN r.sections,
             l \in placedAt(<<"section", id>>, "", r.sections[id])
      PROVE  l.at = <<"section", id>> /\ l.team = "" /\ l.finding \in r.sections[id]
  BY <1>3, PlacedWhere
<1>4. QED
  BY <1>1, <1>2, <1>3, Zenon

\* No section is at the place of a namespace, and a place is of one namespace.
LEMMA PlacesDiffer ==
    ASSUME NEW a, NEW b
    PROVE  <<"namespace", a>> # <<"section", b>>
           /\ (<<"namespace", a>> = <<"namespace", b>> => a = b)
OBVIOUS

\* The findings of a report are finitely many, each of the right shape.
LEMMA LocatedHasShape ==
    ASSUME NEW r, HasShape(r)
    PROVE  /\ IsFiniteSet(located(r))
           /\ \A l \in located(r) : IsFinding(l.finding)
<1> DEFINE ofNs(ns) == {[at |-> <<"namespace", ns.name>>, team |-> ns.team, finding |-> f]
                          : f \in ns.findings}
           ofId(id) == {[at |-> <<"section", id>>, team |-> "", finding |-> f]
                          : f \in r.sections[id]}
           g == [ns \in r.namespaces |-> ofNs(ns)]
           h == [id \in DOMAIN r.sections |-> ofId(id)]
           N == UNION {ofNs(ns) : ns \in r.namespaces}
           S == UNION {ofId(id) : id \in DOMAIN r.sections}
<1>1. \A ns \in r.namespaces : IsFiniteSet(ofNs(ns)) /\ \A l \in ofNs(ns) : IsFinding(l.finding)
  <2> SUFFICES ASSUME NEW ns \in r.namespaces
               PROVE  IsFiniteSet(ofNs(ns)) /\ \A l \in ofNs(ns) : IsFinding(l.finding)
    OBVIOUS
  <2>1. AreFindings(ns.findings)
    BY DEF HasShape
  <2> QED
    BY <2>1, PlacedHaveShape, Zenon
<1>2. \A id \in DOMAIN r.sections :
         IsFiniteSet(ofId(id)) /\ \A l \in ofId(id) : IsFinding(l.finding)
  <2> SUFFICES ASSUME NEW id \in DOMAIN r.sections
               PROVE  IsFiniteSet(ofId(id)) /\ \A l \in ofId(id) : IsFinding(l.finding)
    OBVIOUS
  <2>1. AreFindings(r.sections[id])
    BY DEF HasShape
  <2> QED
    BY <2>1, PlacedHaveShape, Zenon
<1>3. IsFiniteSet(N) /\ IsFiniteSet(S)
  <2>1. N = UNION {g[ns] : ns \in r.namespaces} /\ S = UNION {h[id] : id \in DOMAIN r.sections}
    <3> HIDE DEF ofNs, ofId
    <3> QED
      OBVIOUS
  <2>2. \A ns \in r.namespaces : IsFiniteSet(g[ns])
    <3> HIDE DEF ofNs
    <3> QED
      BY <1>1
  <2>3. \A id \in DOMAIN r.sections : IsFiniteSet(h[id])
    <3> HIDE DEF ofId
    <3> QED
      BY <1>2
  <2>4. IsFiniteSet(r.namespaces) /\ IsFiniteSet(DOMAIN r.sections)
    BY DEF HasShape
  <2> HIDE DEF g, h, N, S
  <2>5. IsFiniteSet(UNION {g[ns] : ns \in r.namespaces})
    BY <2>2, <2>4, EachIsFinite
  <2>6. IsFiniteSet(UNION {h[id] : id \in DOMAIN r.sections})
    BY <2>3, <2>4, EachIsFinite
  <2> QED
    BY <2>1, <2>5, <2>6
<1>4. \A l \in N \cup S : IsFinding(l.finding)
  <2> HIDE DEF ofNs, ofId
  <2> QED
    BY <1>1, <1>2
<1>5. located(r) = N \cup S
  BY Zenon DEF located
<1>6. QED
  <2> HIDE DEF N, S
  <2> QED
    BY <1>3, <1>4, <1>5, FS_Union

\* The summary is what a recount of the report's own findings gives.
number(r, severity) == Cardinality({l \in located(r) : l.finding.severity = severity})

LEMMA FinalizeCounts ==
    ASSUME NEW namespaces, NEW sections
    PROVE  LET r == Finalize(namespaces, sections)
           IN /\ r.namespaces = namespaces /\ r.sections = sections
              /\ r.summary = [severity \in Ok..Critical |-> number(r, severity)]
<1> DEFINE r == Finalize(namespaces, sections)
           q == [namespaces |-> namespaces, sections |-> sections]
           summary == [severity \in Ok..Critical |->
                         Cardinality({l \in located(q) : l.finding.severity = severity})]
<1>1. r = [namespaces |-> namespaces, sections |-> sections, summary |-> summary]
  BY Zenon DEF Finalize
<1>2. /\ r.namespaces = namespaces /\ r.sections = sections /\ r.summary = summary
      /\ q.namespaces = namespaces /\ q.sections = sections
  <2> HIDE DEF summary, r
  <2> QED
    BY <1>1
<1>3. located(r) = located(q)
  <2> HIDE DEF r, q
  <2> QED
    BY <1>2, LocatedDependsOn
<1>4. summary = [severity \in Ok..Critical |-> number(r, severity)]
  <2> HIDE DEF r, q
  <2> QED
    BY <1>3, Zenon DEF number
<1>5. QED
  <2> HIDE DEF summary
  <2> QED
    BY <1>2, <1>4, Zenon

LEMMA NumbersAreNatural ==
    ASSUME NEW r, HasShape(r), NEW severity
    PROVE  number(r, severity) \in Nat
<1>1. IsFiniteSet({l \in located(r) : l.finding.severity = severity})
  BY LocatedHasShape, SubsetIsFinite
<1>2. QED
  BY <1>1, FS_CardinalityType DEF number
-----------------------------------------------------------------------------
(***************************************************************************)
(* The analysis of a snapshot.                                             *)
(***************************************************************************)
LEMMA CoveredAreFinite ==
    ASSUME NEW s, IsSnapshot(s), NEW includeSystem, NEW only
    PROVE  IsFiniteSet(AppNamespaces(s, includeSystem, only))
<1>1. AppNamespaces(s, includeSystem, only) \subseteq names(All(s, "Namespace"))
  BY DEF AppNamespaces
<1>2. IsFiniteSet(names(All(s, "Namespace")))
  BY ObjectsOfKind, NamesAreFinite
<1>3. QED
  BY <1>1, <1>2, SubsetIsFinite

\* The namespaces of a report, each with its team.
LEMMA NamespacesShape ==
    ASSUME NEW s, IsSnapshot(s), NEW covered, IsFiniteSet(covered), NEW opts
    PROVE  /\ IsFiniteSet(AssignTeams(Namespaces(s, covered), s, opts))
           /\ AssignTeams(Namespaces(s, covered), s, opts) =
                {[name |-> ns, team |-> teamOfNamespace(s, ns, opts),
                  findings |-> namespaceFindings(s, ns)] : ns \in covered}
<1> DEFINE plain(ns) == [name |-> ns, team |-> "", findings |-> namespaceFindings(s, ns)]
           assigned(ns) == [name |-> ns, team |-> teamOfNamespace(s, ns, opts),
                            findings |-> namespaceFindings(s, ns)]
           withTeam(section) ==
             [section EXCEPT !.team = teamOfNamespace(s, section.name, opts)]
           f == [ns \in covered |-> assigned(ns)]
<1>1. \A ns : withTeam(plain(ns)) = assigned(ns)
  <2> SUFFICES ASSUME NEW ns PROVE withTeam(plain(ns)) = assigned(ns)
    OBVIOUS
  <2> DEFINE fs == namespaceFindings(s, ns)
             team == teamOfNamespace(s, ns, opts)
             section == plain(ns)
  <2>1. section = [name |-> ns, team |-> "", findings |-> fs]
    OBVIOUS
  <2>2. section.name = ns
    <3> HIDE DEF fs
    <3> QED
      BY <2>1
  <2>3. withTeam(section) = [section EXCEPT !.team = team]
    <3> HIDE DEF section
    <3> QED
      BY <2>2
  <2>4. [section EXCEPT !.team = team] = [name |-> ns, team |-> team, findings |-> fs]
    <3> DEFINE none == ""
    <3>1. section = [name |-> ns, team |-> none, findings |-> fs]
      OBVIOUS
    <3> HIDE DEF section, fs, team, none
    <3> QED
      BY <3>1
  <2> QED
    <3> HIDE DEF section, fs, team
    <3> QED
      BY <2>3, <2>4 DEF section, fs, team
<1>2. Namespaces(s, covered) = {plain(ns) : ns \in covered}
  BY Zenon DEF Namespaces
<1>3. AssignTeams(Namespaces(s, covered), s, opts) =
        {withTeam(section) : section \in Namespaces(s, covered)}
  BY Zenon DEF AssignTeams
<1>4. AssignTeams(Namespaces(s, covered), s, opts) = {assigned(ns) : ns \in covered}
  <2> HIDE DEF plain, withTeam, assigned
  <2> QED
    BY <1>1, <1>2, <1>3
<1>5. \A y \in {assigned(ns) : ns \in covered} : \E ns \in covered : y = f[ns]
  <2> HIDE DEF assigned
  <2> QED
    OBVIOUS
<1>6. IsFiniteSet(AssignTeams(Namespaces(s, covered), s, opts))
  <2> HIDE DEF assigned, f
  <2> QED
    BY <1>4, <1>5, CoveredIsFinite
<1>7. QED
  BY <1>4, <1>6, Zenon

\* The sections of an analysis before the recommendations are added.
analyzed(s, covered, usage, opts) ==
    [security |-> Security(s, covered),
     policy |-> Policy(s, covered),
     nodes |-> Nodes(s),
     monitoring |-> Monitoring(s, covered),
     certificates |-> Certificates(s, covered),
     deprecations |-> Deprecations(s, covered),
     gitops |-> GitOps(s),
     optimization |-> Optimization(s, covered, usage, opts.prometheus)]

sectionsOf(s, covered, usage, opts) ==
    IF opts.prometheus.configured
    THEN addRightsizing(analyzed(s, covered, usage, opts), s, covered, usage, opts)
    ELSE analyzed(s, covered, usage, opts)

LEMMA AnalyzeIs ==
    ASSUME NEW s, NEW usage, NEW opts
    PROVE  LET covered == AppNamespaces(s, opts.includeSystem, opts.only)
           IN Analyze(s, usage, opts) =
                Finalize(AssignTeams(Namespaces(s, covered), s, opts),
                         sectionsOf(s, covered, usage, opts))
BY Zenon DEF Analyze, sectionsOf, analyzed

SectionIds == {"security", "policy", "nodes", "monitoring", "certificates",
               "deprecations", "gitops", "optimization"}

LEMMA AnalyzedShape ==
    ASSUME NEW s, IsSnapshot(s), s.HasSecretAccess \in BOOLEAN, NEW covered,
           IsFiniteSet(covered), NEW usage, IsUsage(usage), NEW opts
    PROVE  LET sections == analyzed(s, covered, usage, opts)
           IN /\ DOMAIN sections = SectionIds
              /\ \A id \in SectionIds : AreFindings(sections[id])
<1> DEFINE A == Security(s, covered)
           B == Policy(s, covered)
           C == Nodes(s)
           D == Monitoring(s, covered)
           E == Certificates(s, covered)
           F == Deprecations(s, covered)
           G == GitOps(s)
           H == Optimization(s, covered, usage, opts.prometheus)
<1>1. /\ AreFindings(A) /\ AreFindings(B) /\ AreFindings(C) /\ AreFindings(D)
      /\ AreFindings(E) /\ AreFindings(F) /\ AreFindings(G) /\ AreFindings(H)
  BY SecurityShape, PolicyShape, NodesShape, MonitoringShape, CertificatesShape,
     DeprecationsShape, GitOpsShape, OptimizationShape
<1>2. analyzed(s, covered, usage, opts) =
        [security |-> A, policy |-> B, nodes |-> C, monitoring |-> D, certificates |-> E,
         deprecations |-> F, gitops |-> G, optimization |-> H]
  BY Zenon DEF analyzed
<1>3. QED
  <2> HIDE DEF A, B, C, D, E, F, G, H
  <2> QED
    BY <1>1, <1>2 DEF SectionIds

LEMMA SectionIdsAreFinite == IsFiniteSet(SectionIds)
<1> DEFINE f == <<"security", "policy", "nodes", "monitoring", "certificates",
                  "deprecations", "gitops", "optimization">>
<1>1. \A y \in SectionIds : \E i \in 1..8 : y = f[i]
  BY DEF SectionIds
<1>2. IsFiniteSet(1..8)
  BY IntervalIsFinite
<1>3. QED
  <2> HIDE DEF f
  <2> QED
    BY <1>1, <1>2, CoveredIsFinite

LEMMA SectionsShape ==
    ASSUME NEW s, IsSnapshot(s), s.HasSecretAccess \in BOOLEAN, NEW covered,
           IsFiniteSet(covered), NEW usage, IsUsage(usage), NEW opts, IsCost(opts.cost)
    PROVE  LET sections == sectionsOf(s, covered, usage, opts)
           IN /\ DOMAIN sections \subseteq SectionIds \cup {"rightsizing", ""}
              /\ SectionIds \subseteq DOMAIN sections
              /\ \A id \in DOMAIN sections : AreFindings(sections[id])
<1> DEFINE sections == analyzed(s, covered, usage, opts)
           ok == usageAnswered(opts.prometheus)
           all == IF ok THEN rightsize(s, covered, usage, opts.cost)
                  ELSE {Plain(Info, "Could not collect usage for rightsizing")}
           place == IF ok THEN "rightsizing" ELSE ""
           recs == recommendations(s, covered, usage)
           kept == topFindings(recs, opts.cost)
                     \cup {Plain(Info, "Run with --rightsizing-report")}
           folded == IF Cardinality(all) <= topRightsizing THEN all ELSE kept
           reported == [id \in DOMAIN sections \cup {place} |->
                          IF id = place THEN all ELSE sections[id]]
           extended == [sections EXCEPT !.optimization = @ \cup folded]
<1>1. DOMAIN sections = SectionIds /\ \A id \in SectionIds : AreFindings(sections[id])
  BY AnalyzedShape
<1>2. AreFindings(all)
  BY RightsizeShape, PlainHasShape, SeveritiesAreLevels
<1>3. ASSUME ok PROVE AreFindings(folded)
  <2>1. CASE Cardinality(all) <= topRightsizing
    <3> HIDE DEF all, kept
    <3> QED
      BY <1>2, <2>1
  <2>2. CASE ~(Cardinality(all) <= topRightsizing)
    <3>1. all = rightsize(s, covered, usage, opts.cost)
      BY <1>3
    <3>2. Cardinality(all) \in Nat
      <4> HIDE DEF all
      <4> QED
        BY <1>2, FS_CardinalityType DEF AreFindings
    <3>3. Cardinality(rightsize(s, covered, usage, opts.cost)) > topRightsizing
      <4> HIDE DEF all
      <4> QED
        BY <2>2, <3>1, <3>2 DEF topRightsizing
    <3>4. AreFindings(topFindings(recs, opts.cost))
      BY <3>3, TopFindingsShape
    <3>5. AreFindings({Plain(Info, "Run with --rightsizing-report")})
      BY PlainHasShape, SeveritiesAreLevels
    <3>6. AreFindings(kept)
      <4> HIDE DEF recs
      <4> QED
        BY <3>4, <3>5, UnionHasShape
    <3> HIDE DEF all, kept
    <3> QED
      BY <2>2, <3>6
  <2> QED
    BY <2>1, <2>2
<1>4. sectionsOf(s, covered, usage, opts) =
        IF opts.prometheus.configured
        THEN IF opts.rightsizingReport THEN reported
             ELSE IF ok THEN extended ELSE sections
        ELSE sections
  BY Zenon DEF sectionsOf, addRightsizing
<1>5. /\ DOMAIN reported \subseteq SectionIds \cup {"rightsizing", ""}
      /\ SectionIds \subseteq DOMAIN reported
      /\ \A id \in DOMAIN reported : AreFindings(reported[id])
  <2>1. DOMAIN reported = SectionIds \cup {place}
    BY <1>1
  <2>2. place \in {"rightsizing", ""}
    OBVIOUS
  <2> HIDE DEF sections, all, place
  <2> QED
    BY <1>1, <1>2, <2>1, <2>2
<1>6. ok => /\ DOMAIN extended = SectionIds
            /\ \A id \in SectionIds : AreFindings(extended[id])
  <2> HIDE DEF sections, folded, ok
  <2>1. AreFindings(sections.optimization)
    BY <1>1 DEF SectionIds
  <2>2. ok => AreFindings(sections.optimization \cup folded)
    BY <1>3, <2>1, UnionHasShape
  <2> QED
    BY <1>1, <2>2
<1>7. QED
  <2> HIDE DEF sections, reported, extended, ok
  <2> QED
    BY <1>1, <1>4, <1>5, <1>6, Zenon

\* The shape of every report of a valid snapshot.
LEMMA AnalysisShape ==
    ASSUME NEW s, IsSnapshot(s), s.HasSecretAccess \in BOOLEAN, NEW usage, IsUsage(usage),
           NEW opts, IsCost(opts.cost)
    PROVE  LET r == Analyze(s, usage, opts)
               covered == AppNamespaces(s, opts.includeSystem, opts.only)
           IN /\ HasShape(r)
              /\ r.summary = [severity \in Ok..Critical |-> number(r, severity)]
              /\ r.namespaces = AssignTeams(Namespaces(s, covered), s, opts)
              /\ r.sections = sectionsOf(s, covered, usage, opts)
<1> DEFINE covered == AppNamespaces(s, opts.includeSystem, opts.only)
           r == Analyze(s, usage, opts)
           namespaces == AssignTeams(Namespaces(s, covered), s, opts)
           sections == sectionsOf(s, covered, usage, opts)
<1>1. IsFiniteSet(covered)
  BY CoveredAreFinite
<1>2. /\ r.namespaces = namespaces /\ r.sections = sections
      /\ r.summary = [severity \in Ok..Critical |-> number(r, severity)]
  <2>1. r = Finalize(namespaces, sections)
    BY AnalyzeIs, Zenon
  <2> HIDE DEF r, namespaces, sections
  <2> QED
    BY <2>1, FinalizeCounts
<1>3. IsFiniteSet(namespaces) /\ \A ns \in namespaces : AreFindings(ns.findings)
  <2> HIDE DEF covered
  <2>1. /\ IsFiniteSet(namespaces)
        /\ namespaces = {[name |-> ns, team |-> teamOfNamespace(s, ns, opts),
                          findings |-> namespaceFindings(s, ns)] : ns \in covered}
    BY <1>1, NamespacesShape
  <2> HIDE DEF namespaces
  <2> QED
    BY <2>1, NamespaceFindingsShape
<1>4. IsFiniteSet(DOMAIN sections) /\ \A id \in DOMAIN sections : AreFindings(sections[id])
  <2> HIDE DEF covered
  <2>1. /\ DOMAIN sections \subseteq SectionIds \cup {"rightsizing", ""}
        /\ \A id \in DOMAIN sections : AreFindings(sections[id])
    BY <1>1, SectionsShape
  <2>2. IsFiniteSet(SectionIds \cup {"rightsizing", ""})
    BY SectionIdsAreFinite, SmallSetsAreFinite, FS_Union
  <2> HIDE DEF sections
  <2> QED
    BY <2>1, <2>2, SubsetIsFinite
<1>5. HasShape(r)
  <2> HIDE DEF r, namespaces, sections
  <2> QED
    BY <1>2, <1>3, <1>4 DEF HasShape
<1>6. QED
  BY <1>2, <1>5, Zenon
-----------------------------------------------------------------------------
(***************************************************************************)
(* Frames: what the checks do not read.  Snapshots that differ in Secrets, *)
(* ConfigMaps and Nodes alone differ in two checks and one section.        *)
(***************************************************************************)
setApart == {"Secret", "ConfigMap", "Node"}

SameFlags(s, t) ==
    /\ t.HasServiceMonitorCRD = s.HasServiceMonitorCRD
    /\ t.HasArgoCD = s.HasArgoCD /\ t.HasFlux = s.HasFlux
    /\ t.HasKyverno = s.HasKyverno /\ t.HasGatekeeper = s.HasGatekeeper

SameBesides(s, t) ==
    /\ \A kind : kind \notin setApart => All(t, kind) = All(s, kind)
    /\ SameFlags(s, t)

LEMMA SameLists ==
    ASSUME NEW s, NEW t, SameBesides(s, t)
    PROVE  /\ \A ns : \A kind : kind \notin setApart => In(t, kind, ns) = In(s, kind, ns)
           /\ \A ns : workloads(t, ns) = workloads(s, ns)
<1>1. \A u, kind, ns : In(u, kind, ns) = {o \in All(u, kind) : o.ns = ns}
  BY DEF In, All
<1>2. \A ns : \A kind : kind \notin setApart => In(t, kind, ns) = In(s, kind, ns)
  <2> SUFFICES ASSUME NEW ns, NEW kind, kind \notin setApart
               PROVE  In(t, kind, ns) = In(s, kind, ns)
    OBVIOUS
  <2>1. All(t, kind) = All(s, kind)
    BY DEF SameBesides
  <2> QED
    BY <1>1, <2>1
<1>3. \A kind \in {"Deployment", "StatefulSet", "DaemonSet", "CronJob"} : kind \notin setApart
  BY DEF setApart
<1>4. ASSUME NEW ns PROVE workloads(t, ns) = workloads(s, ns)
  <2>1. \A kind \in {"Deployment", "StatefulSet", "DaemonSet", "CronJob"} :
           In(t, kind, ns) = In(s, kind, ns)
    BY <1>2, <1>3
  <2> QED
    BY <2>1 DEF workloads
<1>5. QED
  BY <1>2, <1>4

LEMMA WorkloadChecksRead ==
    ASSUME NEW s, NEW t, NEW ns,
           In(t, "Deployment", ns) = In(s, "Deployment", ns),
           In(t, "StatefulSet", ns) = In(s, "StatefulSet", ns),
           In(t, "HPA", ns) = In(s, "HPA", ns),
           In(t, "PDB", ns) = In(s, "PDB", ns),
           workloads(t, ns) = workloads(s, ns)
    PROVE  /\ imageFindings(t, ns) = imageFindings(s, ns)
           /\ probeFindings(t, ns) = probeFindings(s, ns)
           /\ availabilityFindings(t, ns) = availabilityFindings(s, ns)
           /\ disruptionFindings(t, ns) = disruptionFindings(s, ns)
<1>1. imageFindings(t, ns) = imageFindings(s, ns)
  BY Zenon DEF imageFindings
<1>2. probeFindings(t, ns) = probeFindings(s, ns)
  BY Zenon DEF probeFindings
<1>3. availabilityFindings(t, ns) = availabilityFindings(s, ns)
  BY Zenon DEF availabilityFindings
<1>4. disruptionFindings(t, ns) = disruptionFindings(s, ns)
  BY Zenon DEF disruptionFindings, multiReplica
<1>5. QED
  BY <1>1, <1>2, <1>3, <1>4

LEMMA PodChecksRead ==
    ASSUME NEW s, NEW t, NEW ns, In(t, "Pod", ns) = In(s, "Pod", ns)
    PROVE  /\ resourceFindings(t, ns) = resourceFindings(s, ns)
           /\ healthFindings(t, ns) = healthFindings(s, ns)
<1>1. resourceFindings(t, ns) = resourceFindings(s, ns)
  BY Zenon DEF resourceFindings
<1>2. healthFindings(t, ns) = healthFindings(s, ns)
  <2> DEFINE restarted(pods) == UNION {{<<p, c>> : c \in p.statuses} : p \in pods}
             waiting(pods) ==
               UNION {Counted(IF reason = "CrashLoopBackOff" THEN Critical ELSE Warning,
                              reason,
                              Cardinality({st \in restarted(pods) : st[2].waiting = reason}))
                        : reason \in waitingReasons}
             others(pods) ==
               Counted(Warning, "stuck in Pending",
                       Cardinality({p \in pods : p.phase = "Pending" /\ ~p.deleting}))
             killed(pods) ==
               Counted(Warning, "recently OOMKilled",
                       Cardinality({st \in restarted(pods) : st[2].oomKilled}))
             often(pods) ==
               Counted(Warning, "10+ restarts",
                       Cardinality({st \in restarted(pods) : st[2].restarts >= 10}))
  <2>1. \A u : healthFindings(u, ns) =
               waiting(In(u, "Pod", ns)) \cup others(In(u, "Pod", ns))
                 \cup killed(In(u, "Pod", ns)) \cup often(In(u, "Pod", ns))
    BY Zenon DEF healthFindings
  <2> HIDE DEF waiting, others, killed, often
  <2> QED
    BY <2>1
<1>3. QED
  BY <1>1, <1>2

LEMMA WorkloadChecksAgree ==
    ASSUME NEW s, NEW t, SameBesides(s, t), NEW ns
    PROVE  /\ resourceFindings(t, ns) = resourceFindings(s, ns)
           /\ healthFindings(t, ns) = healthFindings(s, ns)
           /\ imageFindings(t, ns) = imageFindings(s, ns)
           /\ probeFindings(t, ns) = probeFindings(s, ns)
           /\ availabilityFindings(t, ns) = availabilityFindings(s, ns)
           /\ disruptionFindings(t, ns) = disruptionFindings(s, ns)
<1>1. /\ In(t, "Pod", ns) = In(s, "Pod", ns)
      /\ In(t, "Deployment", ns) = In(s, "Deployment", ns)
      /\ In(t, "StatefulSet", ns) = In(s, "StatefulSet", ns)
      /\ In(t, "HPA", ns) = In(s, "HPA", ns)
      /\ In(t, "PDB", ns) = In(s, "PDB", ns)
      /\ workloads(t, ns) = workloads(s, ns)
  BY SameLists DEF setApart
<1>2. /\ resourceFindings(t, ns) = resourceFindings(s, ns)
      /\ healthFindings(t, ns) = healthFindings(s, ns)
  BY <1>1, PodChecksRead
<1>3. /\ imageFindings(t, ns) = imageFindings(s, ns)
      /\ probeFindings(t, ns) = probeFindings(s, ns)
      /\ availabilityFindings(t, ns) = availabilityFindings(s, ns)
      /\ disruptionFindings(t, ns) = disruptionFindings(s, ns)
  BY <1>1, WorkloadChecksRead
<1>4. QED
  BY <1>2, <1>3

\* The findings of unused.go about the status of PVCs, and about anything but
\* ConfigMaps and Secrets otherwise.
unboundFindings(s, ns) ==
    Listed(Info, "unbound PVC", names({o \in In(s, "PVC", ns) : ~o.bound}), 4)

otherUnused(s, ns) ==
    LET pvcs == In(s, "PVC", ns)
        unmounted == {o \in pvcs : <<"PVC", o.name>> \notin referencesIn(s, ns)}
        lonely == {o \in In(s, "Service", ns) :
                     /\ o.selector # {}
                     /\ ~anyPodMatches(s, ns, o.selector)}
        targets == {<<w.kind, w.name>> : w \in workloads(s, ns)}
        noTarget == {o \in In(s, "HPA", ns) :
                       /\ o.target[1] \in {"Deployment", "StatefulSet"}
                       /\ o.target \notin targets}
        emptyPDB == {o \in In(s, "PDB", ns) :
                       /\ o.selects
                       /\ ~anyPodMatches(s, ns, o.selector)}
    IN UNION
        {Listed(Info, "PVC not mounted", names(unmounted), 4),
         Listed(Info, "Service with no matching Pods", names(lonely), 4),
         Listed(Info, "Ingress path routing to a missing Service",
                dangling(s, ns, [name \in names(In(s, "Ingress", ns)) |->
                                   ingressBackends(s, ns, name)]), 4),
         Listed(Info, "HTTPRoute backend routing to a missing Service",
                dangling(s, ns, [name \in names(In(s, "HTTPRoute", ns)) |->
                                   routeBackends(s, ns, name)]), 4),
         Listed(Info, "HPA targeting a missing workload", names(noTarget), 4),
         Listed(Info, "PodDisruptionBudget selecting no Pods", names(emptyPDB), 4)}

LEMMA UnusedIs ==
    ASSUME NEW s, NEW ns
    PROVE  unusedFindings(s, ns) =
             Listed(Info, "unused ConfigMap", names(unusedConfigMaps(s, ns)), 4)
               \cup Listed(Info, "unused Secret", names(unusedSecrets(s, ns)), 4)
               \cup unboundFindings(s, ns) \cup otherUnused(s, ns)
<1> DEFINE pvcs == In(s, "PVC", ns)
           unmounted == {o \in pvcs : <<"PVC", o.name>> \notin referencesIn(s, ns)}
           lonely == {o \in In(s, "Service", ns) :
                        /\ o.selector # {}
                        /\ ~anyPodMatches(s, ns, o.selector)}
           targets == {<<w.kind, w.name>> : w \in workloads(s, ns)}
           noTarget == {o \in In(s, "HPA", ns) :
                          /\ o.target[1] \in {"Deployment", "StatefulSet"}
                          /\ o.target \notin targets}
           emptyPDB == {o \in In(s, "PDB", ns) :
                          /\ o.selects
                          /\ ~anyPodMatches(s, ns, o.selector)}
           A == Listed(Info, "unused ConfigMap", names(unusedConfigMaps(s, ns)), 4)
           B == Listed(Info, "unused Secret", names(unusedSecrets(s, ns)), 4)
           C == Listed(Info, "PVC not mounted", names(unmounted), 4)
           D == Listed(Info, "unbound PVC", names({o \in pvcs : ~o.bound}), 4)
           E == Listed(Info, "Service with no matching Pods", names(lonely), 4)
           F == Listed(Info, "Ingress path routing to a missing Service",
                       dangling(s, ns, [name \in names(In(s, "Ingress", ns)) |->
                                          ingressBackends(s, ns, name)]), 4)
           G == Listed(Info, "HTTPRoute backend routing to a missing Service",
                       dangling(s, ns, [name \in names(In(s, "HTTPRoute", ns)) |->
                                          routeBackends(s, ns, name)]), 4)
           H == Listed(Info, "HPA targeting a missing workload", names(noTarget), 4)
           I == Listed(Info, "PodDisruptionBudget selecting no Pods", names(emptyPDB), 4)
<1>1. unusedFindings(s, ns) = UNION {A, B, C, D, E, F, G, H, I}
  BY Zenon DEF unusedFindings, ingressBackends, routeBackends
<1>2. otherUnused(s, ns) = UNION {C, E, F, G, H, I} /\ unboundFindings(s, ns) = D
  BY Zenon DEF otherUnused, unboundFindings
<1>3. unusedFindings(s, ns) = A \cup B \cup unboundFindings(s, ns) \cup otherUnused(s, ns)
  <2> HIDE DEF A, B, C, D, E, F, G, H, I
  <2> QED
    BY <1>1, <1>2
<1>4. QED
  BY <1>3

LEMMA ReferencesAgree ==
    ASSUME NEW s, NEW t, SameBesides(s, t), NEW ns
    PROVE  referencesIn(t, ns) = referencesIn(s, ns)
<1>1. /\ In(t, "Pod", ns) = In(s, "Pod", ns)
      /\ In(t, "Job", ns) = In(s, "Job", ns)
      /\ In(t, "ServiceAccount", ns) = In(s, "ServiceAccount", ns)
      /\ In(t, "Ingress", ns) = In(s, "Ingress", ns)
      /\ In(t, "Gateway", ns) = In(s, "Gateway", ns)
      /\ workloads(t, ns) = workloads(s, ns)
  BY SameLists DEF setApart
<1>2. QED
  BY <1>1, Zenon DEF referencesIn

\* They are made of what is there to refer to, what refers, and the pods that match.
targetsIn(s, ns) == {<<w.kind, w.name>> : w \in workloads(s, ns)}

LEMMA OtherUnusedReads ==
    ASSUME NEW s, NEW t, NEW ns,
           names(In(t, "PVC", ns)) = names(In(s, "PVC", ns)),
           In(t, "Service", ns) = In(s, "Service", ns),
           In(t, "HPA", ns) = In(s, "HPA", ns),
           In(t, "PDB", ns) = In(s, "PDB", ns),
           In(t, "Ingress", ns) = In(s, "Ingress", ns),
           In(t, "HTTPRoute", ns) = In(s, "HTTPRoute", ns),
           targetsIn(t, ns) = targetsIn(s, ns),
           referencesIn(t, ns) = referencesIn(s, ns),
           \A selector : anyPodMatches(t, ns, selector) <=> anyPodMatches(s, ns, selector)
    PROVE  otherUnused(t, ns) = otherUnused(s, ns)
<1>1. \A backends : dangling(t, ns, backends) = dangling(s, ns, backends)
  BY Zenon DEF dangling
<1>2. /\ \A name : ingressBackends(t, ns, name) = ingressBackends(s, ns, name)
      /\ \A name : routeBackends(t, ns, name) = routeBackends(s, ns, name)
  BY Zenon DEF ingressBackends, routeBackends
<1> DEFINE pvcs(u) == In(u, "PVC", ns)
           unmounted(u) == {o \in pvcs(u) : <<"PVC", o.name>> \notin referencesIn(u, ns)}
           lonely(u) == {o \in In(u, "Service", ns) :
                           /\ o.selector # {}
                           /\ ~anyPodMatches(u, ns, o.selector)}
           noTarget(u) == {o \in In(u, "HPA", ns) :
                             /\ o.target[1] \in {"Deployment", "StatefulSet"}
                             /\ o.target \notin targetsIn(u, ns)}
           emptyPDB(u) == {o \in In(u, "PDB", ns) :
                             /\ o.selects
                             /\ ~anyPodMatches(u, ns, o.selector)}
           ingresses(u) == [name \in names(In(u, "Ingress", ns)) |->
                              ingressBackends(u, ns, name)]
           httpRoutes(u) == [name \in names(In(u, "HTTPRoute", ns)) |->
                               routeBackends(u, ns, name)]
<1>3. names(unmounted(t)) = names(unmounted(s))
  <2>1. \A u : names(unmounted(u)) =
          {n \in names(In(u, "PVC", ns)) : <<"PVC", n>> \notin referencesIn(u, ns)}
    BY DEF names
  <2> HIDE DEF unmounted
  <2> QED
    BY <2>1
<1>4. lonely(t) = lonely(s) /\ emptyPDB(t) = emptyPDB(s)
  OBVIOUS
<1>5. noTarget(t) = noTarget(s)
  OBVIOUS
<1>6. ingresses(t) = ingresses(s) /\ httpRoutes(t) = httpRoutes(s)
  BY <1>2
<1>7. \A u : otherUnused(u, ns) = UNION
        {Listed(Info, "PVC not mounted", names(unmounted(u)), 4),
         Listed(Info, "Service with no matching Pods", names(lonely(u)), 4),
         Listed(Info, "Ingress path routing to a missing Service",
                dangling(u, ns, ingresses(u)), 4),
         Listed(Info, "HTTPRoute backend routing to a missing Service",
                dangling(u, ns, httpRoutes(u)), 4),
         Listed(Info, "HPA targeting a missing workload", names(noTarget(u)), 4),
         Listed(Info, "PodDisruptionBudget selecting no Pods", names(emptyPDB(u)), 4)}
  BY Zenon DEF otherUnused, targetsIn
<1>8. QED
  <2> HIDE DEF unmounted, lonely, emptyPDB, noTarget, ingresses, httpRoutes
  <2> QED
    BY <1>1, <1>3, <1>4, <1>5, <1>6, <1>7, Zenon

LEMMA OtherUnusedAgree ==
    ASSUME NEW s, NEW t, SameBesides(s, t), NEW ns
    PROVE  /\ unboundFindings(t, ns) = unboundFindings(s, ns)
           /\ otherUnused(t, ns) = otherUnused(s, ns)
<1>1. /\ In(t, "Pod", ns) = In(s, "Pod", ns)
      /\ In(t, "PVC", ns) = In(s, "PVC", ns)
      /\ In(t, "Service", ns) = In(s, "Service", ns)
      /\ In(t, "HPA", ns) = In(s, "HPA", ns)
      /\ In(t, "PDB", ns) = In(s, "PDB", ns)
      /\ In(t, "Ingress", ns) = In(s, "Ingress", ns)
      /\ In(t, "HTTPRoute", ns) = In(s, "HTTPRoute", ns)
      /\ workloads(t, ns) = workloads(s, ns)
      /\ referencesIn(t, ns) = referencesIn(s, ns)
  BY SameLists, ReferencesAgree DEF setApart
<1>2. \A selector : anyPodMatches(t, ns, selector) <=> anyPodMatches(s, ns, selector)
  BY <1>1, Zenon DEF anyPodMatches
<1>3. targetsIn(t, ns) = targetsIn(s, ns)
  BY <1>1, Zenon DEF targetsIn
<1>4. unboundFindings(t, ns) = unboundFindings(s, ns)
  BY <1>1, Zenon DEF unboundFindings
<1>5. QED
  BY <1>1, <1>2, <1>3, <1>4, OtherUnusedReads
-----------------------------------------------------------------------------
\* The sections.
LEMMA NetworkPoliciesRead ==
    ASSUME NEW s, NEW t, NEW covered,
           \A ns : /\ In(t, "NetworkPolicy", ns) = In(s, "NetworkPolicy", ns)
                   /\ namespaceHasPods(t, ns) <=> namespaceHasPods(s, ns)
    PROVE  networkPolicyFindings(t, covered) = networkPolicyFindings(s, covered)
<1> DEFINE bare(u) ==
      {ns \in covered : In(u, "NetworkPolicy", ns) = {} /\ namespaceHasPods(u, ns)}
<1>1. bare(t) = bare(s)
  OBVIOUS
<1>2. \A u : networkPolicyFindings(u, covered) =
               Listed(Warning, "namespaces without NetworkPolicies", bare(u), 4)
  BY Zenon DEF networkPolicyFindings
<1> HIDE DEF bare
<1>3. QED
  BY <1>1, <1>2, Zenon

LEMMA SecurityReads ==
    ASSUME NEW s, NEW t, NEW covered,
           \A kind \in {"Pod", "Namespace", "ServiceAccount", "ClusterRole",
                       "ClusterRoleBinding", "NetworkPolicy"} : All(t, kind) = All(s, kind)
    PROVE  Security(t, covered) = Security(s, covered)
<1>1. /\ All(t, "Pod") = All(s, "Pod")
      /\ All(t, "Namespace") = All(s, "Namespace")
      /\ All(t, "ServiceAccount") = All(s, "ServiceAccount")
      /\ All(t, "ClusterRole") = All(s, "ClusterRole")
      /\ All(t, "ClusterRoleBinding") = All(s, "ClusterRoleBinding")
  OBVIOUS
<1>2. \A ns : /\ In(t, "Pod", ns) = In(s, "Pod", ns)
              /\ In(t, "NetworkPolicy", ns) = In(s, "NetworkPolicy", ns)
  <2>1. \A u, kind, ns : In(u, kind, ns) = {o \in All(u, kind) : o.ns = ns}
    BY DEF In, All
  <2> QED
    BY <2>1
<1>3. analyzedPods(t, covered) = analyzedPods(s, covered)
  BY <1>1, Zenon DEF analyzedPods
<1>4. podSecurityFindings(t, covered) = podSecurityFindings(s, covered)
  BY <1>3, Zenon DEF podSecurityFindings
<1>5. networkPolicyFindings(t, covered) = networkPolicyFindings(s, covered)
  BY <1>2, NetworkPoliciesRead DEF namespaceHasPods
<1>6. hardeningFindings(t, covered) = hardeningFindings(s, covered)
  <2> DEFINE noAutomount(u) == {<<o.ns, o.name>> : o \in
                                  {o \in All(u, "ServiceAccount") : ~o.automount}}
             of(pods, accounts) == UNION
                {Tagged(Warning, "Pods without a seccomp profile",
                    Cardinality({p \in pods : /\ ~p.spec.seccomp
                                              /\ \E c \in p.spec.containers : ~c.seccomp}),
                    {ctrlSeccomp}),
                 Counted(Info, "containers without readOnlyRootFilesystem",
                    Cardinality({x \in containersOf(pods) : ~x.c.readOnlyRoot})),
                 Counted(Info, "Pods automounting ServiceAccount tokens",
                    Cardinality({p \in pods :
                        /\ p.spec.automount
                        /\ <<p.ns, p.spec.serviceAccount>> \notin accounts})),
                 Counted(Info, "containers receiving Secrets via environment",
                    Cardinality({x \in containersOf(pods) : usesSecretEnv(x.c)}))}
  <2>1. \A u : hardeningFindings(u, covered) = of(analyzedPods(u, covered), noAutomount(u))
    BY Zenon DEF hardeningFindings
  <2>2. noAutomount(t) = noAutomount(s)
    BY <1>1, Zenon
  <2> HIDE DEF of, noAutomount
  <2> QED
    BY <1>3, <2>1, <2>2, Zenon
<1>7. pssLabelFindings(t, covered) = pssLabelFindings(s, covered)
  BY <1>1, Zenon DEF pssLabelFindings
<1>8. rbacFindings(t) = rbacFindings(s)
  BY <1>1, Zenon DEF rbacFindings
<1>9. QED
  BY <1>4, <1>5, <1>6, <1>7, <1>8, Zenon DEF Security

LEMMA SecurityAgrees ==
    ASSUME NEW s, NEW t, SameBesides(s, t), NEW covered
    PROVE  Security(t, covered) = Security(s, covered)
<1>1. \A kind \in {"Pod", "Namespace", "ServiceAccount", "ClusterRole",
                   "ClusterRoleBinding", "NetworkPolicy"} : All(t, kind) = All(s, kind)
  BY DEF SameBesides, setApart
<1>2. QED
  BY <1>1, SecurityReads

LEMMA PolicyAgrees ==
    ASSUME NEW s, NEW t, SameBesides(s, t), NEW covered
    PROVE  Policy(t, covered) = Policy(s, covered)
<1>1. /\ All(t, "PolicyReport") = All(s, "PolicyReport")
      /\ All(t, "Policy") = All(s, "Policy")
      /\ All(t, "ClusterPolicy") = All(s, "ClusterPolicy")
      /\ All(t, "Constraint") = All(s, "Constraint")
      /\ t.HasKyverno = s.HasKyverno /\ t.HasGatekeeper = s.HasGatekeeper
  BY DEF SameBesides, SameFlags, setApart
<1>2. \A ns : /\ In(t, "Pod", ns) = In(s, "Pod", ns)
              /\ In(t, "PolicyReport", ns) = In(s, "PolicyReport", ns)
              /\ In(t, "Policy", ns) = In(s, "Policy", ns)
  BY SameLists DEF setApart
<1>3. kyvernoFindings(t, covered) = kyvernoFindings(s, covered)
  BY <1>1, Zenon DEF kyvernoFindings
<1>4. gatekeeperFindings(t) = gatekeeperFindings(s)
  BY <1>1, Zenon DEF gatekeeperFindings
<1>5. policyCoverageFindings(t, covered) = policyCoverageFindings(s, covered)
  <2> DEFINE guarded(u, ns) ==
                \/ In(u, "PolicyReport", ns) \cup In(u, "Policy", ns) # {}
                \/ \E c \in All(u, "Constraint") : covers(c, ns)
             open(u) == {ns \in covered : ~guarded(u, ns) /\ namespaceHasPods(u, ns)}
  <2>1. open(t) = open(s)
    BY <1>1, <1>2 DEF namespaceHasPods
  <2>2. \A u : policyCoverageFindings(u, covered) =
            IF All(u, "ClusterPolicy") # {} THEN {}
            ELSE Listed(Warning, "namespaces not covered by any admission policy", open(u), 4)
    BY Zenon DEF policyCoverageFindings
  <2> HIDE DEF open
  <2> QED
    BY <1>1, <2>1, <2>2, Zenon
<1>6. QED
  BY <1>1, <1>3, <1>4, <1>5, Zenon DEF Policy

LEMMA MinorAgrees ==
    ASSUME NEW s, NEW t, SameBesides(s, t)
    PROVE  clusterMinor(t) = clusterMinor(s)
<1>1. All(t, "Version") = All(s, "Version")
  BY DEF SameBesides, setApart
<1>2. QED
  BY <1>1, Zenon DEF clusterMinor

LEMMA NodesAgree ==
    ASSUME NEW s, NEW t, SameBesides(s, t), All(t, "Node") = All(s, "Node")
    PROVE  Nodes(t) = Nodes(s)
<1>1. All(t, "Pod") = All(s, "Pod") /\ clusterMinor(t) = clusterMinor(s)
  BY MinorAgrees DEF SameBesides, setApart
<1>2. QED
  BY <1>1, Zenon DEF Nodes

versionedKinds == {"Deployment", "DaemonSet", "NetworkPolicy", "StatefulSet", "Ingress",
                   "CronJob", "PDB", "HPA"}

\* What the section reads of an object.
sameAPIs(x, y) == x.ns = y.ns /\ x.name = y.name /\ x.apis = y.apis

LEMMA DeprecationsRead ==
    ASSUME NEW s, NEW t, clusterMinor(t) = clusterMinor(s),
           \A kind \in versionedKinds :
              /\ \A x \in All(t, kind) : \E y \in All(s, kind) : sameAPIs(x, y)
              /\ \A y \in All(s, kind) : \E x \in All(t, kind) : sameAPIs(x, y),
           NEW covered
    PROVE  Deprecations(t, covered) = Deprecations(s, covered)
<1> DEFINE path(o) == o.ns \o "/" \o o.name
           writtenWith(u, d) == {o \in All(u, d.kind) : o.ns \in covered /\ d.api \in o.apis}
           severity(minor, d) == IF removalStatus(d, minor) = "deprecated since"
                                 THEN Warning ELSE Critical
           objectNames(u, d) == {path(o) : o \in writtenWith(u, d)}
           about(u, minor, d) ==
             Listed(severity(minor, d),
                    d.kind \o " written with " \o d.api \o " " \o removalStatus(d, minor),
                    objectNames(u, d), 4)
           known(minor) == {d \in deprecatedAPIs : minor = 0 \/ d.deprecatedIn <= minor}
           of(u, minor) == UNION {about(u, minor, d) : d \in known(minor)}
<1>1. \A u : Deprecations(u, covered) = of(u, clusterMinor(u))
  BY Zenon DEF Deprecations
<1>2. \A d \in deprecatedAPIs : d.kind \in versionedKinds
  BY DEF deprecatedAPIs, deprecation, versionedKinds
<1>3. ASSUME NEW d \in deprecatedAPIs
      PROVE  objectNames(t, d) = objectNames(s, d)
  <2>1. \A x, y : sameAPIs(x, y) => path(x) = path(y)
    BY Zenon DEF sameAPIs
  <2> HIDE DEF path
  <2>2. /\ \A x \in All(t, d.kind) : \E y \in All(s, d.kind) : sameAPIs(x, y)
        /\ \A y \in All(s, d.kind) : \E x \in All(t, d.kind) : sameAPIs(x, y)
    BY <1>2
  <2>3. \A x \in writtenWith(t, d) : \E y \in writtenWith(s, d) : path(x) = path(y)
    BY <2>1, <2>2 DEF sameAPIs
  <2>4. \A y \in writtenWith(s, d) : \E x \in writtenWith(t, d) : path(x) = path(y)
    BY <2>1, <2>2 DEF sameAPIs
  <2> HIDE DEF writtenWith
  <2> QED
    BY <2>3, <2>4
<1>4. \A minor : \A d \in known(minor) : about(t, minor, d) = about(s, minor, d)
  <2> SUFFICES ASSUME NEW minor, NEW d \in known(minor)
               PROVE  about(t, minor, d) = about(s, minor, d)
    OBVIOUS
  <2>1. objectNames(t, d) = objectNames(s, d)
    BY <1>3
  <2> QED
    BY <2>1, Zenon
<1>5. QED
  <2> HIDE DEF about, known
  <2>1. \A minor : of(t, minor) = of(s, minor)
    BY <1>4
  <2> HIDE DEF of
  <2> QED
    BY <1>1, <2>1, Zenon

LEMMA DeprecationsAgree ==
    ASSUME NEW s, NEW t, SameBesides(s, t), NEW covered
    PROVE  Deprecations(t, covered) = Deprecations(s, covered)
<1>1. \A kind \in versionedKinds : All(t, kind) = All(s, kind)
  BY DEF versionedKinds, SameBesides, setApart
<1>2. \A x : sameAPIs(x, x)
  BY DEF sameAPIs
<1>3. QED
  BY <1>1, <1>2, MinorAgrees, DeprecationsRead

LEMMA MonitoringAgrees ==
    ASSUME NEW s, NEW t, SameBesides(s, t), NEW covered
    PROVE  Monitoring(t, covered) = Monitoring(s, covered)
<1>1. /\ All(t, "Pod") = All(s, "Pod")
      /\ All(t, "Service") = All(s, "Service")
      /\ All(t, "ServiceMonitor") = All(s, "ServiceMonitor")
      /\ All(t, "PrometheusRule") = All(s, "PrometheusRule")
      /\ t.HasServiceMonitorCRD = s.HasServiceMonitorCRD
  BY DEF SameBesides, SameFlags, setApart
<1>2. \A word : hasPodWithImage(t, word) <=> hasPodWithImage(s, word)
  BY <1>1, Zenon DEF hasPodWithImage
<1>3. unscrapedServices(t, covered) = unscrapedServices(s, covered)
  BY <1>1, Zenon DEF unscrapedServices
<1>4. componentsWithoutAlerts(t, covered) = componentsWithoutAlerts(s, covered)
  BY <1>1, Zenon DEF componentsWithoutAlerts
<1> DEFINE missing == componentsWithoutAlerts(s, covered)
           alone == {Plain(Warning, "No Prometheus installation detected")}
           alertmanager == {Plain(Warning, "Prometheus found but no Alertmanager detected")}
           listed == Listed(Info, "Services not scraped by Prometheus",
                            {o.ns \o "/" \o o.name : o \in unscrapedServices(s, covered)}, 4)
           noCRD == {Plain(Info, "ServiceMonitor CRD not installed")}
           alerts == {Finding(Warning, "Missing alerts", 0, missing, 0, <<>>, {})}
<1>5. \A u : /\ unscrapedServices(u, covered) = unscrapedServices(s, covered)
             /\ componentsWithoutAlerts(u, covered) = missing
             => Monitoring(u, covered) =
                  IF ~hasPodWithImage(u, "prometheus") THEN alone
                  ELSE UNION {IF hasPodWithImage(u, "alertmanager") THEN {} ELSE alertmanager,
                              IF u.HasServiceMonitorCRD THEN listed ELSE noCRD,
                              IF missing = {} THEN {} ELSE alerts}
  BY Zenon DEF Monitoring
<1>6. QED
  <2> HIDE DEF missing, alone, alertmanager, listed, noCRD, alerts
  <2> QED
    BY <1>1, <1>2, <1>3, <1>4, <1>5 DEF missing

LEMMA GitOpsAgrees ==
    ASSUME NEW s, NEW t, SameBesides(s, t)
    PROVE  GitOps(t) = GitOps(s)
<1>1. /\ All(t, "Application") = All(s, "Application")
      /\ All(t, "Kustomization") = All(s, "Kustomization")
      /\ All(t, "HelmRelease") = All(s, "HelmRelease")
      /\ t.HasArgoCD = s.HasArgoCD /\ t.HasFlux = s.HasFlux
  BY DEF SameBesides, SameFlags, setApart
<1>2. QED
  BY <1>1, Zenon DEF GitOps

LEMMA OptimizationAgrees ==
    ASSUME NEW s, NEW t, SameBesides(s, t), NEW covered, NEW usage, NEW prometheus
    PROVE  Optimization(t, covered, usage, prometheus) =
           Optimization(s, covered, usage, prometheus)
<1>1. All(t, "Pod") = All(s, "Pod")
  BY DEF SameBesides, setApart
<1>2. QED
  BY <1>1, Zenon DEF Optimization

LEMMA RecommendationsAgree ==
    ASSUME NEW s, NEW t, SameBesides(s, t), NEW covered, NEW usage
    PROVE  recommendations(t, covered, usage) = recommendations(s, covered, usage)
<1>1. ASSUME NEW w PROVE recommend(t, usage, w) = recommend(s, usage, w)
  <2> DEFINE pods(u) == {p \in In(u, "Pod", w.ns) : /\ p.phase = "Running"
                                                    /\ w.selector \subseteq p.labels}
             samples(u) == {x \in usage : \E p \in pods(u) : x.ns = p.ns /\ x.name = p.name}
             p95(u) == Max({0} \cup {x.cpu : x \in samples(u)})
             memMax(u) == Max({0} \cup {x.mem : x \in samples(u)})
             of(p, from, cpu, mem) ==
                LET curCPU == cpuOf({w})
                    curMem == memOf({w})
                    sugCPU == roundCPU(cpu)
                    sugMem == suggestedMem(mem)
                    over == \/ 2 * curCPU > 3 * sugCPU /\ curCPU - sugCPU >= 50
                            \/ 2 * curMem > 3 * sugMem /\ curMem - sugMem >= 64
                    under == (curCPU > 0 /\ cpu > curCPU) \/ (curMem > 0 /\ mem > curMem)
                    unset == curCPU = 0 /\ curMem = 0
                IN IF ~w.selects \/ w.selector = {} \/ from = {} \/ ~(over \/ under \/ unset)
                   THEN {}
                   ELSE {[workload |-> <<w.kind, w.ns, w.name>>,
                          containers |-> {c.name : c \in w.spec.containers},
                          pods |-> Cardinality(p), cpu |-> sugCPU, mem |-> sugMem,
                          memLimit |-> roundMem(mem, 150),
                          state |-> CASE unset -> "has no resource requests"
                                      [] ~unset /\ under -> "is underprovisioned"
                                      [] ~unset /\ ~under -> "is overprovisioned",
                          spareCPU |-> Max({0, curCPU - sugCPU}),
                          spareMem |-> Max({0, curMem - sugMem})]}
  <2>1. \A u : recommend(u, usage, w) = of(pods(u), samples(u), p95(u), memMax(u))
    BY Zenon DEF recommend
  <2>2. pods(t) = pods(s)
    <3>1. In(t, "Pod", w.ns) = In(s, "Pod", w.ns)
      BY SameLists DEF setApart
    <3> QED
      BY <3>1, Zenon
  <2>3. samples(t) = samples(s)
    <3> HIDE DEF pods
    <3> QED
      BY <2>2
  <2>4. p95(t) = p95(s) /\ memMax(t) = memMax(s)
    <3> HIDE DEF samples
    <3> QED
      BY <2>3, Zenon
  <2> HIDE DEF of, pods, samples, p95, memMax
  <2> QED
    BY <2>1, <2>2, <2>3, <2>4, Zenon
<1>2. \A k \in {"Deployment", "StatefulSet", "DaemonSet"} : All(t, k) = All(s, k)
  BY DEF SameBesides, setApart
<1> DEFINE W(u) == {w \in UNION {All(u, k) : k \in {"Deployment", "StatefulSet", "DaemonSet"}} :
                      w.ns \in covered}
<1>3. W(t) = W(s)
  BY <1>2
<1>4. \A u : recommendations(u, covered, usage) = UNION {recommend(u, usage, w) : w \in W(u)}
  BY Zenon DEF recommendations
<1>5. QED
  <2> HIDE DEF W
  <2>1. UNION {recommend(t, usage, w) : w \in W(s)} = UNION {recommend(s, usage, w) : w \in W(s)}
    BY <1>1
  <2>2. recommendations(t, covered, usage) = UNION {recommend(t, usage, w) : w \in W(s)}
    BY <1>3, <1>4
  <2> QED
    BY <1>4, <2>1, <2>2, Zenon

\* The findings about TLS Secrets read what is left of the Secrets.
secretsOf(s, key) == {o \in In(s, "Secret", key[1]) : o.name = key[2]}

LEMMA UsersAgree ==
    ASSUME NEW s, NEW t, SameBesides(s, t), NEW covered
    PROVE  /\ tlsUsers(t, covered) = tlsUsers(s, covered)
           /\ tlsKeys(t, covered) = tlsKeys(s, covered)
<1>1. All(t, "Ingress") = All(s, "Ingress") /\ All(t, "Gateway") = All(s, "Gateway")
  BY DEF SameBesides, setApart
<1>2. tlsUsers(t, covered) = tlsUsers(s, covered)
  BY <1>1, Zenon DEF tlsUsers
<1>3. QED
  BY <1>2, Zenon DEF tlsKeys

\* Without Secrets and the right to list them nothing is said of any.
LEMMA NoSecretsNoTLS ==
    ASSUME NEW t, All(t, "Secret") = {}, t.HasSecretAccess = FALSE, NEW covered
    PROVE  tlsFindings(t, covered) = {}
<1>1. ASSUME NEW key PROVE aboutTLS(t, covered, key) = {}
  <2>1. secretsOf(t, key) = {}
    BY DEF secretsOf, All, In
  <2> QED
    BY <2>1, Zenon DEF aboutTLS, secretsOf
<1>2. QED
  BY <1>1, TlsFindingsAre

\* Secrets that no Ingress or Gateway refers to are not told of.
LEMMA TLSFindingsAgree ==
    ASSUME NEW s, NEW t, SameBesides(s, t), t.HasSecretAccess = s.HasSecretAccess,
           NEW covered,
           \A key \in tlsKeys(s, covered) : secretsOf(t, key) = secretsOf(s, key)
    PROVE  tlsFindings(t, covered) = tlsFindings(s, covered)
<1>1. tlsUsers(t, covered) = tlsUsers(s, covered) /\ tlsKeys(t, covered) = tlsKeys(s, covered)
  BY UsersAgree
<1>2. ASSUME NEW key \in tlsKeys(s, covered)
      PROVE  aboutTLS(t, covered, key) = aboutTLS(s, covered, key)
  <2> DEFINE of(secrets, users, access) ==
        CASE secrets = {} /\ access ->
                {missingTLSFinding(firstReference({o \in users :
                                       o.ns = key[1] /\ key[2] \in tlsNames(o)}), key[2])}
          [] secrets = {} /\ ~access -> {}
          [] secrets # {} ->
                UNION {expiryFinding(o) : o \in {o \in secrets : o.leaf}}
  <2>1. \A u : aboutTLS(u, covered, key) =
                 of(secretsOf(u, key), tlsUsers(u, covered), u.HasSecretAccess)
    BY Zenon DEF aboutTLS, secretsOf
  <2>2. secretsOf(t, key) = secretsOf(s, key)
    OBVIOUS
  <2> HIDE DEF of
  <2> QED
    BY <1>1, <2>1, <2>2, Zenon
<1>3. UNION {aboutTLS(t, covered, key) : key \in tlsKeys(s, covered)} =
      UNION {aboutTLS(s, covered, key) : key \in tlsKeys(s, covered)}
  BY <1>2
<1>4. tlsFindings(t, covered) = UNION {aboutTLS(t, covered, key) : key \in tlsKeys(s, covered)}
  BY <1>1, TlsFindingsAre
<1>5. QED
  BY <1>3, <1>4, TlsFindingsAre, Zenon

\* Certificates of cert-manager that are not ready.
notReady(s, covered) ==
    {Finding(Warning, "Certificate is not Ready", 0,
             {o.ns \o "/" \o o.name} \cup ({o.reason} \ {""}), 0,
             <<"certificate", o.name>>, {}) :
        o \in {o \in All(s, "Certificate") : o.ns \in covered /\ ~o.ready}}

LEMMA CertificatesAre ==
    ASSUME NEW s, NEW covered
    PROVE  Certificates(s, covered) = tlsFindings(s, covered) \cup notReady(s, covered)
BY Zenon DEF Certificates, notReady

LEMMA NotReadyAgree ==
    ASSUME NEW s, NEW t, SameBesides(s, t), NEW covered
    PROVE  notReady(t, covered) = notReady(s, covered)
<1>1. All(t, "Certificate") = All(s, "Certificate")
  BY DEF SameBesides, setApart
<1>2. QED
  BY <1>1, Zenon DEF notReady

\* A report whose findings about Nodes, TLS Secrets and unused objects are among
\* another's, and which agrees on the rest, finds nothing that the other does not.
LEMMA NodesWithout ==
    ASSUME NEW t, All(t, "Node") = {}
    PROVE  Nodes(t) = {}
<1>1. \A severity, message, limit : Listed(severity, message, {}, limit) = {}
  BY DEF Listed
<1>2. Cardinality({}) = 0
  BY FS_EmptySet
<1>3. names({}) = {}
  BY DEF names
<1>4. nodeConditionFindings({}) = {}
  <2> DEFINE under(nodes, condition) ==
        Listed(Warning, "nodes under " \o condition,
               names({n \in nodes : condition \in n.pressure}), 4)
             conditions == {"MemoryPressure", "DiskPressure", "PIDPressure"}
             unready(nodes) ==
               Listed(Critical, "nodes NotReady", names({n \in nodes : ~n.ready}), 4)
             cordoned(nodes) ==
               Listed(Warning, "nodes cordoned", names({n \in nodes : n.unschedulable}), 4)
  <2>1. \A condition : under({}, condition) = {}
    <3> SUFFICES ASSUME NEW condition PROVE under({}, condition) = {}
      OBVIOUS
    <3>1. {n \in {} : condition \in n.pressure} = {}
      OBVIOUS
    <3> QED
      BY <1>1, <1>3, <3>1, Zenon
  <2>2. unready({}) = {} /\ cordoned({}) = {}
    <3>1. {n \in {} : ~n.ready} = {} /\ {n \in {} : n.unschedulable} = {}
      OBVIOUS
    <3> QED
      BY <1>1, <1>3, <3>1, Zenon
  <2>3. \A nodes : nodeConditionFindings(nodes) =
          unready(nodes) \cup (UNION {under(nodes, condition) : condition \in conditions})
            \cup cordoned(nodes)
    BY Zenon DEF nodeConditionFindings
  <2> HIDE DEF under, conditions, unready, cordoned
  <2> QED
    BY <2>1, <2>2, <2>3
<1>5. \A minor : nodeVersionFindings({}, minor) = {}
  <2> SUFFICES ASSUME NEW minor PROVE nodeVersionFindings({}, minor) = {}
    OBVIOUS
  <2> DEFINE behind == {n \in {} : /\ minor > 0 /\ n.minor > 0
                                   /\ minor - n.minor > kubeletSkewLimit}
             versions == {n.version : n \in {}}
             told == {n.name \o " (" \o n.version \o ")" : n \in behind}
             mixed == {Named(Info, "Mixed kubelet versions", 0, versions, 4)}
             late == Listed(Warning, "kubelets behind the control plane", told, 4)
  <2>1. told = {} /\ versions = {}
    OBVIOUS
  <2>2. nodeVersionFindings({}, minor) =
          late \cup (IF Cardinality(versions) > 1 THEN mixed ELSE {})
    BY Zenon DEF nodeVersionFindings
  <2>3. late = {}
    <3> HIDE DEF told
    <3> QED
      BY <1>1, <2>1
  <2>4. ~ (Cardinality(versions) > 1)
    <3> HIDE DEF versions
    <3> QED
      BY <1>2, <2>1
  <2> HIDE DEF late, mixed, versions
  <2> QED
    BY <2>2, <2>3, <2>4
<1>6. nodeTopologyFindings({}) = {}
  <2> DEFINE zones == {n.zone : n \in {}}
             single == {Named(Info, "All nodes are in a single zone", 0, zones, 1)}
             bare == Listed(Info, "control-plane nodes without a taint",
                            names({n \in {} : n.controlPlane /\ ~n.tainted}), 4)
             alone == Cardinality({}) >= 2 /\ Cardinality(zones) = 1 /\ "" \notin zones
  <2>1. nodeTopologyFindings({}) =
          (IF alone THEN single ELSE {})
            \cup (IF \E n \in {} : ~n.controlPlane THEN bare ELSE {})
    BY Zenon DEF nodeTopologyFindings
  <2>2. ~alone
    BY <1>2
  <2>3. ~ (\E n \in {} : ~n.controlPlane)
    OBVIOUS
  <2> HIDE DEF alone, single, bare
  <2> QED
    BY <2>1, <2>2, <2>3
<1>7. \A pods : nodeCapacityFindings({}, pods) = {}
  <2> SUFFICES ASSUME NEW pods PROVE nodeCapacityFindings({}, pods) = {}
    OBVIOUS
  <2> DEFINE on(n) == {p \in pods : p.node = n.name
                                    /\ p.phase \notin {"Succeeded", "Failed"}}
             full(requested, allocatable) ==
                allocatable > 0 /\ 10 * requested > 9 * allocatable
             reasons(n) ==
                (IF full(cpuOf(on(n)), n.cpu) THEN " cpu" ELSE "") \o
                (IF full(memOf(on(n)), n.mem) THEN " memory" ELSE "")
             told == {n.name \o reasons(n) : n \in {n \in {} : reasons(n) # ""}}
  <2>1. nodeCapacityFindings({}, pods) = Listed(Warning, "nodes near allocatable limits", told, 4)
    BY Zenon DEF nodeCapacityFindings
  <2>2. told = {}
    <3> HIDE DEF reasons
    <3> QED
      OBVIOUS
  <2> HIDE DEF told
  <2> QED
    BY <1>1, <2>1, <2>2
<1>8. QED
  <2>1. Nodes(t) = UNION {nodeConditionFindings({}), nodeVersionFindings({}, clusterMinor(t)),
                          nodeTopologyFindings({}), nodeCapacityFindings({}, All(t, "Pod"))}
    BY Zenon DEF Nodes
  <2> QED
    BY <1>4, <1>5, <1>6, <1>7, <2>1

LEMMA CoverageAgrees ==
    ASSUME NEW s, NEW t, SameBesides(s, t), NEW opts
    PROVE  /\ AppNamespaces(t, opts.includeSystem, opts.only) =
              AppNamespaces(s, opts.includeSystem, opts.only)
           /\ \A ns : teamOfNamespace(t, ns, opts) = teamOfNamespace(s, ns, opts)
<1>1. All(t, "Namespace") = All(s, "Namespace")
  BY DEF SameBesides, setApart
<1>2. AppNamespaces(t, opts.includeSystem, opts.only) =
      AppNamespaces(s, opts.includeSystem, opts.only)
  BY <1>1, Zenon DEF AppNamespaces
<1>3. ASSUME NEW ns PROVE teamOfNamespace(t, ns, opts) = teamOfNamespace(s, ns, opts)
  <2> DEFINE label(u) == {o.team : o \in
                {o \in All(u, "Namespace") : o.name = ns /\ opts.labelled}} \ {""}
             of(labels) == IF opts.teamOf[ns] # "" THEN opts.teamOf[ns]
                           ELSE IF labels # {} THEN CHOOSE team \in labels : TRUE
                           ELSE ""
  <2>1. \A u : teamOfNamespace(u, ns, opts) = of(label(u))
    BY Zenon DEF teamOfNamespace
  <2>2. label(t) = label(s)
    BY <1>1, Zenon
  <2> HIDE DEF of, label
  <2> QED
    BY <2>1, <2>2, Zenon
<1>4. QED
  BY <1>2, <1>3

\* What the recommendations make of the other sections.
withRecommendations(sections, recs, opts) ==
    LET ok == usageAnswered(opts.prometheus)
        all == IF ok THEN savingsFinding(recs, opts.cost)
                            \cup {recommendationFinding(r, opts.cost) : r \in recs}
               ELSE {Plain(Info, "Could not collect usage for rightsizing")}
        place == IF ok THEN "rightsizing" ELSE ""
        folded == IF Cardinality(all) <= topRightsizing THEN all
                  ELSE topFindings(recs, opts.cost)
                         \cup {Plain(Info, "Run with --rightsizing-report")}
    IN IF ~opts.prometheus.configured THEN sections
       ELSE IF opts.rightsizingReport
       THEN [id \in DOMAIN sections \cup {place} |->
                IF id = place THEN all ELSE sections[id]]
       ELSE IF ok THEN [sections EXCEPT !.optimization = @ \cup folded]
       ELSE sections

LEMMA SectionsAre ==
    ASSUME NEW s, NEW covered, NEW usage, NEW opts
    PROVE  sectionsOf(s, covered, usage, opts) =
             withRecommendations(analyzed(s, covered, usage, opts),
                                 recommendations(s, covered, usage), opts)
<1> DEFINE sections == analyzed(s, covered, usage, opts)
           recs == recommendations(s, covered, usage)
<1>1. rightsize(s, covered, usage, opts.cost) =
        savingsFinding(recs, opts.cost)
          \cup {recommendationFinding(r, opts.cost) : r \in recs}
  BY Zenon DEF rightsize
<1>2. CASE ~opts.prometheus.configured
  BY <1>2, Zenon DEF sectionsOf, withRecommendations
<1>3. CASE opts.prometheus.configured
  <2>1. sectionsOf(s, covered, usage, opts) =
          addRightsizing(sections, s, covered, usage, opts)
    BY <1>3, Zenon DEF sectionsOf
  <2> HIDE DEF sections
  <2>2. addRightsizing(sections, s, covered, usage, opts) =
          withRecommendations(sections, recs, opts)
    BY <1>1, <1>3, Zenon DEF addRightsizing, withRecommendations
  <2> QED
    BY <2>1, <2>2, Zenon DEF sections
<1>4. QED
  BY <1>2, <1>3

\* They add the same findings to fewer.
LEMMA RecommendationsAdd ==
    ASSUME NEW A, NEW B, DOMAIN B = DOMAIN A, "optimization" \in DOMAIN A,
           \A id \in DOMAIN B : B[id] \subseteq A[id], NEW recs, NEW opts
    PROVE  LET more == withRecommendations(A, recs, opts)
               fewer == withRecommendations(B, recs, opts)
           IN \A id \in DOMAIN fewer : id \in DOMAIN more /\ fewer[id] \subseteq more[id]
<1> DEFINE ok == usageAnswered(opts.prometheus)
           all == IF ok THEN savingsFinding(recs, opts.cost)
                               \cup {recommendationFinding(r, opts.cost) : r \in recs}
                  ELSE {Plain(Info, "Could not collect usage for rightsizing")}
           place == IF ok THEN "rightsizing" ELSE ""
           folded == IF Cardinality(all) <= topRightsizing THEN all
                     ELSE topFindings(recs, opts.cost)
                            \cup {Plain(Info, "Run with --rightsizing-report")}
           inPlace(sections) == [id \in DOMAIN sections \cup {place} |->
                                  IF id = place THEN all ELSE sections[id]]
           extended(sections) == [sections EXCEPT !.optimization = @ \cup folded]
<1>1. \A sections : withRecommendations(sections, recs, opts) =
        IF ~opts.prometheus.configured THEN sections
        ELSE IF opts.rightsizingReport THEN inPlace(sections)
        ELSE IF ok THEN extended(sections) ELSE sections
  BY Zenon DEF withRecommendations
<1> HIDE DEF ok, all, place, folded
<1>2. \A id \in DOMAIN inPlace(B) :
         id \in DOMAIN inPlace(A) /\ inPlace(B)[id] \subseteq inPlace(A)[id]
  OBVIOUS
<1>3. \A id \in DOMAIN extended(B) :
         id \in DOMAIN extended(A) /\ extended(B)[id] \subseteq extended(A)[id]
  <2>1. DOMAIN extended(B) = DOMAIN A /\ DOMAIN extended(A) = DOMAIN A
    OBVIOUS
  <2>2. ASSUME NEW id \in DOMAIN A PROVE extended(B)[id] \subseteq extended(A)[id]
    <3>1. CASE id = "optimization"
      BY <2>2, <3>1
    <3>2. CASE id # "optimization"
      BY <2>2, <3>2
    <3> QED
      BY <3>1, <3>2
  <2> QED
    BY <2>1, <2>2
<1>4. QED
  <2> HIDE DEF inPlace, extended
  <2> QED
    BY <1>1, <1>2, <1>3, Zenon
=============================================================================
