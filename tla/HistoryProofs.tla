--------------------------- MODULE HistoryProofs ---------------------------
(***************************************************************************)
(* History for every limit, any number of scans and instants.              *)
(***************************************************************************)
EXTENDS History, SequenceTheorems, FiniteSetTheorems, TLAPS

-----------------------------------------------------------------------------
(* Logs.                                                                   *)

\* The runs kept are the last ones, Limit of them at most.
LEMMA KeptAreTheLast ==
    ASSUME NEW S, NEW runs \in Seq(S)
    PROVE  LET kept == KeptOf(runs)
           IN /\ kept \in Seq(S)
              /\ Len(kept) = IF Len(runs) > Limit THEN Limit ELSE Len(runs)
              /\ \A i \in 1..Len(kept) : kept[i] = runs[Len(runs) - Len(kept) + i]
<1> DEFINE n == Len(runs)
           m == IF n > Limit THEN n - Limit + 1 ELSE 1
<1>1. n \in Nat /\ m \in 1..(n + 1) /\ Limit \in Nat /\ Limit >= 2
  BY LenProperties, LimitAssumption
<1>2. \A i \in m..n : runs[i] \in S
  BY <1>1, ElementOfSeq
<1>3. /\ SubSeq(runs, m, n) \in Seq(S)
      /\ Len(SubSeq(runs, m, n)) = IF m <= n THEN n - m + 1 ELSE 0
      /\ \A i \in 1..(n - m + 1) : SubSeq(runs, m, n)[i] = runs[m + i - 1]
  BY <1>1, <1>2, SubSeqProperties
<1>4. KeptOf(runs) = SubSeq(runs, m, n)
  BY DEF KeptOf
<1> DEFINE kept == KeptOf(runs)
<1>5. /\ kept \in Seq(S)
      /\ Len(kept) = IF m <= n THEN n - m + 1 ELSE 0
      /\ \A i \in 1..(n - m + 1) : kept[i] = runs[m + i - 1]
  BY <1>3, <1>4, Zenon
<1> HIDE DEF kept
<1>6. Len(kept) = IF n > Limit THEN Limit ELSE n
  <2>1. CASE n > Limit
    <3>1. m = n - Limit + 1 /\ m <= n /\ n - m + 1 = Limit
      BY <1>1, <2>1
    <3>2. QED
      BY <1>5, <2>1, <3>1
  <2>2. CASE ~(n > Limit)
    <3>1. m = 1 /\ (m <= n <=> n # 0) /\ n - m + 1 = n
      BY <1>1, <2>2
    <3>2. QED
      BY <1>1, <1>5, <2>2, <3>1
  <2>3. QED
    BY <2>1, <2>2
<1>7. \A i \in 1..Len(kept) :
         i \in 1..(n - m + 1) /\ m + i - 1 = n - Len(kept) + i
  BY <1>1, <1>6
<1>8. QED
  BY <1>5, <1>6, <1>7 DEF kept

\* How many elements a push drops.
Dropped(log) == IF Len(log) < Limit THEN 0 ELSE 1

\* A pushed element comes last, and the others move up when one is dropped.
LEMMA PushedComesLast ==
    ASSUME NEW S, NEW log \in Seq(S), Len(log) <= Limit, NEW r \in S
    PROVE  /\ Push(log, r) \in Seq(S)
           /\ Len(Push(log, r)) = Len(log) + 1 - Dropped(log)
           /\ Len(Push(log, r)) <= Limit
           /\ Push(log, r)[Len(Push(log, r))] = r
           /\ \A i \in 1..(Len(Push(log, r)) - 1) :
                 Push(log, r)[i] = log[i + Dropped(log)]
<1>1. Len(log) \in Nat /\ Limit \in Nat /\ Limit >= 2
  BY LenProperties, LimitAssumption
<1>2. CASE Len(log) < Limit
  <2>1. /\ Append(log, r) \in Seq(S)
        /\ Len(Append(log, r)) = Len(log) + 1
        /\ \A i \in 1..Len(log) : Append(log, r)[i] = log[i]
        /\ Append(log, r)[Len(log) + 1] = r
    BY AppendProperties
  <2>2. QED
    BY <1>1, <1>2, <2>1 DEF Push, Dropped
<1>3. CASE ~(Len(log) < Limit)
  <2>1. log # <<>>
    BY <1>1, <1>3
  <2>2. /\ Tail(log) \in Seq(S)
        /\ Len(Tail(log)) = Len(log) - 1
        /\ \A i \in 1..(Len(log) - 1) : Tail(log)[i] = log[i + 1]
    BY <2>1, HeadTailProperties
  <2>3. /\ Append(Tail(log), r) \in Seq(S)
        /\ Len(Append(Tail(log), r)) = Len(Tail(log)) + 1
        /\ \A i \in 1..Len(Tail(log)) : Append(Tail(log), r)[i] = Tail(log)[i]
        /\ Append(Tail(log), r)[Len(Tail(log)) + 1] = r
    BY <2>2, AppendProperties
  <2>4. QED
    BY <1>1, <1>3, <2>2, <2>3 DEF Push, Dropped
<1>4. QED
  BY <1>2, <1>3

\* What a longer past keeps of a shorter one.
LEMMA PastGrows ==
    ASSUME NEW runs \in Seq(Run), NEW r \in Run
    PROVE  LET longer == Append(runs, r)
           IN /\ longer \in Seq(Run)
              /\ Range(longer) = Range(runs) \cup {r}
              /\ \A x : Overtaken(runs, x) => Overtaken(longer, x)
              /\ \A t : Shared(runs, t) => Shared(longer, t)
              /\ \A x \in Range(runs) : x.at < r.at \/ Overtaken(longer, r)
              /\ \A x \in Range(runs) : x.at = r.at => Shared(longer, r.at)
<1> DEFINE longer == Append(runs, r)
           n == Len(runs)
<1>1. /\ longer \in Seq(Run)
      /\ DOMAIN longer = 1..(n + 1) /\ DOMAIN runs = 1..n /\ n \in Nat
      /\ \A i \in 1..n : longer[i] = runs[i]
      /\ longer[n + 1] = r
  BY AppendProperties, LenProperties
<1>2. Range(longer) = Range(runs) \cup {r}
  BY <1>1 DEF Range
<1>3. \A x : Overtaken(runs, x) => Overtaken(longer, x)
  BY <1>1 DEF Overtaken
<1>4. \A t : Shared(runs, t) => Shared(longer, t)
  BY <1>1 DEF Shared
<1>5. ASSUME NEW x \in Range(runs)
      PROVE  /\ x.at < r.at \/ Overtaken(longer, r)
             /\ x.at = r.at => Shared(longer, r.at)
  <2>1. PICK i \in 1..n : runs[i] = x
    BY <1>1 DEF Range
  <2>2. x \in Run
    BY <2>1, ElementOfSeq
  <2>3. x.at \in Int /\ r.at \in Int
    BY <2>2 DEF Run, Instants
  <2>4. i \in DOMAIN longer /\ n + 1 \in DOMAIN longer /\ i < n + 1 /\ i # n + 1
    BY <1>1
  <2>5. x.at >= r.at => Overtaken(longer, r)
    BY <1>1, <2>1, <2>4 DEF Overtaken
  <2>6. x.at = r.at => Shared(longer, r.at)
    BY <1>1, <2>1, <2>4 DEF Shared
  <2>7. QED
    BY <2>3, <2>5, <2>6
<1> HIDE DEF longer
<1>6. QED
  BY <1>1, <1>2, <1>3, <1>4, <1>5 DEF longer
-----------------------------------------------------------------------------
(* The directory.                                                          *)

\* Files named for instants, each torn or holding the run of its instant.
IsDirectory(d) ==
    /\ DOMAIN d \subseteq Instants
    /\ d \in [DOMAIN d -> Maybe(Run)]
    /\ \A t \in DOMAIN d : \A r \in d[t] : r.at = t

\* Only finitely many files can be read, and one that can holds one run.
LEMMA ReadableFiles ==
    ASSUME NEW d, IsDirectory(d)
    PROVE  /\ Readable(d) \subseteq Instants
           /\ IsFiniteSet(Readable(d)) /\ Cardinality(Readable(d)) \in Nat
           /\ \A t \in Readable(d) : \E r \in Run : d[t] = {r} /\ r.at = t
<1>1. Readable(d) \subseteq Instants
  BY DEF Readable, IsDirectory
<1>2. IsFiniteSet(Instants)
  BY HistoryAssumption, FS_Interval DEF Instants
<1>3. IsFiniteSet(Readable(d)) /\ Cardinality(Readable(d)) \in Nat
  BY <1>1, <1>2, FS_Subset, FS_CardinalityType
<1>4. ASSUME NEW t \in Readable(d)
      PROVE  \E r \in Run : d[t] = {r} /\ r.at = t
  BY DEF Readable, IsDirectory, Maybe
<1>5. QED
  BY <1>1, <1>3, <1>4

\* New finds every readable file's run once, oldest first.
LEMMA FoundRuns ==
    ASSUME NEW d, IsDirectory(d), NEW runs \in Found(d)
    PROVE  /\ runs \in Seq(Run)
           /\ \A i \in 1..Len(runs) : /\ runs[i].at \in Readable(d)
                                      /\ d[runs[i].at] = {runs[i]}
           /\ \A i, j \in 1..Len(runs) : i < j => runs[i].at < runs[j].at
           /\ \A t \in Readable(d) : \E i \in 1..Len(runs) : runs[i].at = t
<1> DEFINE S == Readable(d)
           n == Cardinality(S)
<1>1. /\ S \subseteq Instants /\ IsFiniteSet(S) /\ n \in Nat
      /\ \A t \in S : \E r \in Run : d[t] = {r} /\ r.at = t
  BY ReadableFiles
<1>2. PICK ts \in InOrder(S) :
         runs = [i \in DOMAIN ts |-> CHOOSE r \in Run : d[ts[i]] = {r}]
  BY DEF Found
<1>3. /\ ts \in [1..n -> S]
      /\ \A i, j \in 1..n : i # j => ts[i] # ts[j]
      /\ \A i, j \in 1..n : i < j => ts[i] < ts[j]
  BY <1>2 DEF InOrder, SetToSeqs
<1>4. \A i \in 1..n : runs[i] \in Run /\ d[ts[i]] = {runs[i]} /\ runs[i].at = ts[i]
  <2> SUFFICES ASSUME NEW i \in 1..n
               PROVE  runs[i] \in Run /\ d[ts[i]] = {runs[i]} /\ runs[i].at = ts[i]
    OBVIOUS
  <2>1. runs[i] = CHOOSE r \in Run : d[ts[i]] = {r}
    BY <1>2, <1>3
  <2>2. PICK r \in Run : d[ts[i]] = {r} /\ r.at = ts[i]
    BY <1>1, <1>3
  <2>3. QED
    BY <2>1, <2>2
<1>5. runs \in Seq(Run) /\ Len(runs) = n
  <2>1. runs \in [1..n -> Run]
    BY <1>2, <1>3, <1>4
  <2>2. QED
    BY <1>1, <2>1, IsASeq, LenProperties
<1>6. \A t \in S : \E i \in 1..n : ts[i] = t
  <2>1. ts \in Injection(1..n, S)
    BY <1>3 DEF Injection, IsInjective
  <2>2. IsFiniteSet(1..n) /\ Cardinality(1..n) = n
    BY <1>1, FS_Interval
  <2>3. ts \in Surjection(1..n, S)
    BY <1>1, <2>1, <2>2, FS_Injection
  <2>4. QED
    BY <2>3 DEF Surjection
<1>7. QED
  BY <1>3, <1>4, <1>5, <1>6

\* There is an order to find them in: by the number of files that are not newer.
LEMMA FoundExists ==
    ASSUME NEW d, IsDirectory(d)
    PROVE  Found(d) # {}
<1> DEFINE S == Readable(d)
           n == Cardinality(S)
           upTo(t) == {u \in S : u <= t}
           rank == [t \in S |-> Cardinality(upTo(t))]
<1>1. S \subseteq Instants /\ IsFiniteSet(S) /\ n \in Nat
  BY ReadableFiles
<1>2. \A t \in S : t \in Int
  BY <1>1 DEF Instants
<1>3. \A t \in S : IsFiniteSet(upTo(t)) /\ Cardinality(upTo(t)) \in 1..n
  <2> SUFFICES ASSUME NEW t \in S
               PROVE  IsFiniteSet(upTo(t)) /\ Cardinality(upTo(t)) \in 1..n
    OBVIOUS
  <2>1. upTo(t) \in SUBSET S /\ t \in upTo(t)
    BY <1>2
  <2>2. /\ IsFiniteSet(upTo(t)) /\ Cardinality(upTo(t)) <= n
        /\ Cardinality(upTo(t)) \in Nat
    BY <1>1, <2>1, FS_Subset, FS_CardinalityType
  <2>3. Cardinality(upTo(t)) # 0
    BY <2>1, <2>2, FS_EmptySet
  <2>4. QED
    BY <1>1, <2>2, <2>3
<1>4. \A t, u \in S : t < u => rank[t] < rank[u]
  <2> SUFFICES ASSUME NEW t \in S, NEW u \in S, t < u
               PROVE  rank[t] < rank[u]
    OBVIOUS
  <2>1. upTo(t) \in SUBSET upTo(u)
    BY <1>2
  <2>2. u \in upTo(u) /\ u \notin upTo(t)
    BY <1>2
  <2>3. /\ Cardinality(upTo(t)) <= Cardinality(upTo(u))
        /\ Cardinality(upTo(t)) # Cardinality(upTo(u))
    BY <1>3, <2>1, <2>2, FS_Subset
  <2>4. QED
    BY <1>3, <2>3
<1>5. \A i \in 1..n : \E t \in S : rank[t] = i
  <2>1. rank \in [S -> 1..n]
    BY <1>3
  <2>2. \A t, u \in S : rank[t] = rank[u] => t = u
    <3> SUFFICES ASSUME NEW t \in S, NEW u \in S, t # u
                 PROVE  rank[t] # rank[u]
      OBVIOUS
    <3>1. t \in Int /\ u \in Int
      BY <1>2
    <3>2. t < u \/ u < t
      BY <3>1
    <3>3. rank[t] \in Int /\ rank[u] \in Int
      BY <2>1
    <3>4. rank[t] < rank[u] \/ rank[u] < rank[t]
      BY <1>4, <3>2
    <3> HIDE DEF rank
    <3>5. QED
      BY <3>3, <3>4
  <2>3. rank \in Injection(S, 1..n)
    BY <2>1, <2>2 DEF Injection, IsInjective
  <2>4. IsFiniteSet(1..n) /\ Cardinality(1..n) = n
    BY <1>1, FS_Interval
  <2>5. rank \in Surjection(S, 1..n)
    BY <1>1, <2>3, <2>4, FS_Injection
  <2>6. QED
    BY <2>5 DEF Surjection
<1> DEFINE ts == [i \in 1..n |-> CHOOSE t \in S : rank[t] = i]
<1>6. \A i \in 1..n : ts[i] \in S /\ rank[ts[i]] = i
  BY <1>5
<1> HIDE DEF rank
<1>7. \A i, j \in 1..n : i < j => ts[i] < ts[j]
  <2> SUFFICES ASSUME NEW i \in 1..n, NEW j \in 1..n, i < j
               PROVE  ts[i] < ts[j]
    OBVIOUS
  <2>1. /\ ts[i] \in S /\ ts[j] \in S /\ ts[i] \in Int /\ ts[j] \in Int
        /\ rank[ts[i]] = i /\ rank[ts[j]] = j
    BY <1>2, <1>6
  <2>2. ts[j] < ts[i] => rank[ts[j]] < rank[ts[i]]
    BY <1>4, <2>1
  <2>3. QED
    BY <2>1, <2>2
<1>8. ts \in [1..n -> S]
  BY <1>6
<1> HIDE DEF ts
<1>9. \A i, j \in 1..n : i # j => ts[i] # ts[j]
  <2> SUFFICES ASSUME NEW i \in 1..n, NEW j \in 1..n, i # j
               PROVE  ts[i] # ts[j]
    OBVIOUS
  <2>1. ts[i] \in Int /\ ts[j] \in Int /\ (i < j \/ j < i)
    BY <1>2, <1>8
  <2>2. QED
    BY <1>7, <2>1
<1>10. ts \in InOrder(S)
  BY <1>7, <1>8, <1>9 DEF InOrder, SetToSeqs
<1>11. [i \in DOMAIN ts |-> CHOOSE r \in Run : d[ts[i]] = {r}] \in Found(d)
  BY <1>10 DEF Found
<1>12. QED
  BY <1>11

\* Intervals of which one is mapped onto the other one to one are as long.
LEMMA MatchedIntervals ==
    ASSUME NEW a \in Nat, NEW b \in Nat, NEW k \in Nat, NEW n \in Nat, a <= k, b <= n,
           NEW f \in Bijection((a + 1)..k, (b + 1)..n)
    PROVE  k - a = n - b
<1>1. ExistsBijection((a + 1)..k, (b + 1)..n)
  BY DEF ExistsBijection
<1>2. /\ IsFiniteSet((a + 1)..k)
      /\ Cardinality((a + 1)..k) = IF a + 1 > k THEN 0 ELSE k - (a + 1) + 1
      /\ Cardinality((b + 1)..n) = IF b + 1 > n THEN 0 ELSE n - (b + 1) + 1
  BY FS_Interval
<1>3. Cardinality((b + 1)..n) = Cardinality((a + 1)..k)
  BY <1>1, <1>2, FS_Bijection
<1> DEFINE c == Cardinality((a + 1)..k)
           e == Cardinality((b + 1)..n)
<1>4. c = k - a /\ e = n - b /\ e = c
  BY <1>2, <1>3
<1>5. QED
  BY <1>4

\* A log is what a restart keeps when its runs are in the directory, in order,
\* and every other readable file is older than all of them (and a log that is
\* not full has no such file).
LEMMA NewestAreKept ==
    ASSUME NEW d, IsDirectory(d), NEW runs \in Found(d),
           NEW log \in Seq(Run), Len(log) <= Limit,
           \A i, j \in 1..Len(log) : i < j => log[i].at < log[j].at,
           \A i \in 1..Len(log) : log[i].at \in Readable(d) /\ d[log[i].at] = {log[i]},
           \A t \in Readable(d) :
              \/ \E i \in 1..Len(log) : log[i].at = t
              \/ Len(log) = Limit /\ \A i \in 1..Len(log) : t < log[i].at
    PROVE  KeptOf(runs) = log
<1> DEFINE n == Len(runs)
           k == Len(log)
           older(t) == k = Limit /\ \A i \in 1..k : t < log[i].at
<1>1. /\ runs \in Seq(Run) /\ n \in Nat
      /\ \A i \in 1..n : runs[i].at \in Readable(d) /\ d[runs[i].at] = {runs[i]}
      /\ \A i, j \in 1..n : i < j => runs[i].at < runs[j].at
      /\ \A t \in Readable(d) : \E i \in 1..n : runs[i].at = t
  <2>1. runs \in Seq(Run)
    BY FoundRuns
  <2>2. \A i \in 1..Len(runs) : runs[i].at \in Readable(d) /\ d[runs[i].at] = {runs[i]}
    BY FoundRuns
  <2>3. \A i, j \in 1..Len(runs) : i < j => runs[i].at < runs[j].at
    BY FoundRuns
  <2>4. \A t \in Readable(d) : \E i \in 1..Len(runs) : runs[i].at = t
    BY FoundRuns
  <2>5. n \in Nat
    BY <2>1, LenProperties
  <2>6. QED
    BY <2>1, <2>2, <2>3, <2>4, <2>5
<1>2. k \in Nat /\ Limit \in Nat /\ Limit >= 2 /\ k <= Limit
  BY LenProperties, LimitAssumption
<1>a. /\ \A i, j \in 1..k : i < j => log[i].at < log[j].at
      /\ \A i \in 1..k : log[i].at \in Readable(d) /\ d[log[i].at] = {log[i]}
      /\ \A t \in Readable(d) : (\E i \in 1..k : log[i].at = t) \/ older(t)
  OBVIOUS
<1>3. /\ \A i \in 1..n : runs[i] \in Run /\ runs[i].at \in Int
      /\ \A i \in 1..k : log[i] \in Run /\ log[i].at \in Int
  <2>1. \A r \in Run : r.at \in Int
    BY DEF Run, Instants
  <2>2. QED
    BY <1>1, <1>2, <2>1, ElementOfSeq
<1>b. Len(runs) = n /\ Len(log) = k
  OBVIOUS
<1> HIDE DEF n, k
<1> DEFINE q == [i \in 1..k |-> CHOOSE m \in 1..n : runs[m].at = log[i].at]
<1>4. \A i \in 1..k : q[i] \in 1..n /\ runs[q[i]].at = log[i].at
  BY <1>1, <1>a
<1>5. DOMAIN q = 1..k
  OBVIOUS
<1> HIDE DEF q
<1>6. \A i \in 1..k : runs[q[i]] = log[i]
  <2> SUFFICES ASSUME NEW i \in 1..k
               PROVE  runs[q[i]] = log[i]
    OBVIOUS
  <2>1. d[log[i].at] = {log[i]} /\ d[log[i].at] = {runs[q[i]]}
    BY <1>1, <1>4, <1>a
  <2>2. QED
    BY <2>1
<1>7. \A i, j \in 1..k : i < j => q[i] < q[j]
  <2> SUFFICES ASSUME NEW i \in 1..k, NEW j \in 1..k, i < j
               PROVE  q[i] < q[j]
    OBVIOUS
  <2>1. runs[q[i]].at < runs[q[j]].at
    BY <1>4, <1>a
  <2>2. q[i] \in Int /\ q[j] \in Int /\ runs[q[i]].at \in Int /\ runs[q[j]].at \in Int
    BY <1>3, <1>4
  <2>3. q[j] < q[i] => runs[q[j]].at < runs[q[i]].at
    BY <1>1, <1>4
  <2>4. QED
    BY <2>1, <2>2, <2>3
<1>8. ASSUME NEW m \in 1..n, ~older(runs[m].at)
      PROVE  \E j \in 1..k : q[j] = m
  <2>1. PICK j \in 1..k : log[j].at = runs[m].at
    BY <1>1, <1>8, <1>a
  <2>2. q[j] \in 1..n /\ runs[q[j]].at = runs[m].at
    BY <1>4, <2>1
  <2>3. ~(q[j] < m) /\ ~(m < q[j])
    BY <1>1, <1>3, <2>2
  <2>4. QED
    BY <2>2, <2>3
<1>9. ASSUME NEW i \in 1..k
      PROVE  n - q[i] = k - i
  <2> DEFINE g == [j \in (i + 1)..k |-> q[j]]
  <2>1. \A j \in (i + 1)..k : g[j] \in (q[i] + 1)..n
    <3> SUFFICES ASSUME NEW j \in (i + 1)..k
                 PROVE  q[j] \in (q[i] + 1)..n
      OBVIOUS
    <3>1. j \in 1..k /\ i < j
      BY <1>2
    <3>2. q[i] < q[j] /\ q[i] \in 1..n /\ q[j] \in 1..n
      BY <1>4, <1>7, <3>1
    <3>3. QED
      BY <1>1, <3>2
  <2>2. \A j, l \in (i + 1)..k : g[j] = g[l] => j = l
    <3> SUFFICES ASSUME NEW j \in (i + 1)..k, NEW l \in (i + 1)..k, q[j] = q[l]
                 PROVE  j = l
      OBVIOUS
    <3>1. j \in 1..k /\ l \in 1..k /\ q[j] \in Int
      BY <1>2, <1>4
    <3>2. ~(j < l) /\ ~(l < j)
      BY <1>7, <3>1
    <3>3. QED
      BY <3>1, <3>2
  <2>3. ASSUME NEW m \in (q[i] + 1)..n
        PROVE  \E j \in (i + 1)..k : g[j] = m
    <3>1. m \in 1..n /\ q[i] < m /\ q[i] \in 1..n
      BY <1>1, <1>4
    <3>2. log[i].at < runs[m].at
      BY <1>1, <1>4, <3>1
    <3>3. ~older(runs[m].at)
      <4>1. log[i].at \in Int /\ runs[m].at \in Int
        BY <1>3, <3>1
      <4>2. QED
        BY <3>2, <4>1
    <3>4. PICK j \in 1..k : q[j] = m
      BY <1>8, <3>1, <3>3
    <3>5. ~(j < i) /\ j # i
      BY <1>7, <1>4, <3>1, <3>4
    <3>6. j \in (i + 1)..k
      BY <1>2, <3>4, <3>5
    <3>7. QED
      BY <3>4, <3>6
  <2>4. g \in Bijection((i + 1)..k, (q[i] + 1)..n)
    BY <2>1, <2>2, <2>3 DEF Bijection, Injection, Surjection, IsInjective
  <2>5. i \in Nat /\ i <= k /\ q[i] \in Nat /\ q[i] <= n
    BY <1>1, <1>2, <1>4
  <2>6. n \in Nat /\ k \in Nat
    BY <1>1, <1>2
  <2> HIDE DEF g
  <2>7. \A a, b \in Nat : \A f \in Bijection((a + 1)..k, (b + 1)..n) :
            a <= k /\ b <= n => k - a = n - b
    BY <2>6, MatchedIntervals
  <2>8. k - i = n - q[i]
    BY <2>4, <2>5, <2>7, Zenon
  <2>9. QED
    BY <2>8
<1>10. k # 0 => n = q[1] + k - 1 /\ q[1] \in 1..n
  <2> SUFFICES ASSUME k # 0
               PROVE  n = q[1] + k - 1 /\ q[1] \in 1..n
    OBVIOUS
  <2>1. 1 \in 1..k
    BY <1>2
  <2>2. n - q[1] = k - 1 /\ q[1] \in 1..n
    BY <1>4, <1>9, <2>1
  <2>3. QED
    BY <1>1, <1>2, <2>2
<1>11. k < Limit => n = k
  <2> SUFFICES ASSUME k < Limit
               PROVE  n = k
    OBVIOUS
  <2>1. \A m \in 1..n : \E j \in 1..k : q[j] = m
    BY <1>2, <1>8
  <2>2. CASE n = 0
    BY <1>2, <1>10, <2>2
  <2>3. CASE n # 0
    <3>1. 1 \in 1..n
      BY <1>1, <2>3
    <3>2. PICK j \in 1..k : q[j] = 1
      BY <2>1, <3>1
    <3>3. 1 \in 1..k /\ k # 0
      BY <1>2, <3>2
    <3>4. q[1] \in 1..n /\ (1 < j => q[1] < q[j])
      BY <1>4, <1>7, <3>2, <3>3
    <3>5. q[1] = 1
      BY <3>2, <3>4
    <3>6. QED
      BY <1>2, <1>10, <3>3, <3>5
  <2>4. QED
    BY <2>2, <2>3
<1> DEFINE kept == KeptOf(runs)
<1>12. /\ kept \in Seq(Run)
       /\ Len(kept) = IF n > Limit THEN Limit ELSE n
       /\ \A i \in 1..Len(kept) : kept[i] = runs[n - Len(kept) + i]
  <2>1. /\ kept \in Seq(Run)
        /\ Len(kept) = IF Len(runs) > Limit THEN Limit ELSE Len(runs)
        /\ \A i \in 1..Len(kept) : kept[i] = runs[Len(runs) - Len(kept) + i]
    BY <1>1, KeptAreTheLast
  <2> HIDE DEF kept
  <2>2. QED
    BY <2>1, <1>b
<1> HIDE DEF kept
<1>13. Len(kept) = k
  <2>1. k = Limit => n >= Limit
    BY <1>1, <1>2, <1>10
  <2>2. QED
    BY <1>1, <1>2, <1>11, <1>12, <2>1
<1>14. \A i \in 1..k : kept[i] = log[i]
  <2> SUFFICES ASSUME NEW i \in 1..k
               PROVE  kept[i] = log[i]
    OBVIOUS
  <2>1. n - k + i = q[i]
    BY <1>1, <1>2, <1>4, <1>9
  <2>2. kept[i] = runs[n - k + i]
    BY <1>12, <1>13
  <2>3. QED
    BY <1>6, <2>1, <2>2
<1>15. kept = log
  BY <1>12, <1>13, <1>14, <1>b, SeqEqual
<1>16. QED
  BY <1>15 DEF kept
-----------------------------------------------------------------------------
(* The inductive invariant.                                                *)

\* A store that is not open has nothing in memory.
ClosedIsEmpty ==
    ~up => ~dir /\ entries = <<>> /\ files = <<>> /\ prev = {} /\ last = {}

Pair == prev = FromEnd(entries, 1) /\ last = FromEnd(entries, 0)

\* Files hold recorded runs under their names,
FilesAreRecorded ==
    IsDirectory(disk) /\ \A t \in DOMAIN disk : disk[t] \subseteq Range(past)

\* and so do the entries.
EntriesAreRecorded ==
    \A i \in DOMAIN entries :
        entries[i] \in Range(past) /\ files[i] \subseteq {entries[i].at}

\* An entry is newer than the ones before it, or was recorded late.
EntriesInTurn ==
    \A i, j \in DOMAIN entries : i < j =>
        /\ entries[i].at < entries[j].at \/ Overtaken(past, entries[j])
        /\ entries[i].at = entries[j].at => Shared(past, entries[j].at)

\* An entry in a file is there, was recorded late, or was written over by a
\* later entry of the same instant.
EntriesAreWhole ==
    \A i \in DOMAIN entries : \A t \in files[i] :
        \/ t \in DOMAIN disk /\ disk[t] = {entries[i]}
        \/ Overtaken(past, entries[i])
        \/ \E j \in DOMAIN entries : i < j /\ entries[j].at = t

\* A file without an entry is left only when the log is full, and is older than
\* the entries that were recorded in their turn.
LeftoversAreOld ==
    dir => \A t \in Readable(disk) :
        \/ \E i \in DOMAIN entries : entries[i].at = t
        \/ /\ Len(entries) = Limit
           /\ \A i \in DOMAIN entries :
                 t < entries[i].at \/ Overtaken(past, entries[i])

Inv ==
    /\ TypeOK
    /\ ClosedIsEmpty
    /\ Pair
    /\ FilesAreRecorded
    /\ EntriesAreRecorded
    /\ EntriesInTurn
    /\ RetainedRunsAreOnDisk
    /\ EntriesAreWhole
    /\ LeftoversAreOld

LEMMA InitInv == Init => Inv
<1> SUFFICES ASSUME Init
             PROVE  Inv
  OBVIOUS
<1> USE DEF Init
<1>1. /\ DOMAIN disk = {} /\ DOMAIN entries = {} /\ Len(entries) = 0
      /\ Len(files) = 0 /\ Len(past) = 0
  OBVIOUS
<1>2. Limit \in Nat /\ Limit >= 2
  BY LimitAssumption
<1>3. TypeOK
  <2>1. entries \in Seq(Run) /\ files \in Seq(Maybe(Instants)) /\ past \in Seq(Run)
    OBVIOUS
  <2>2. /\ disk \in [DOMAIN disk -> Maybe(Run)] /\ DOMAIN disk \subseteq Instants
        /\ scan \in [Scanners -> Maybe(Run)]
    BY <1>1 DEF Maybe
  <2>3. now \in 0..MaxInstant /\ prev \in Maybe(Run) /\ last \in Maybe(Run)
    BY HistoryAssumption DEF Maybe
  <2>4. up \in BOOLEAN /\ dir \in BOOLEAN
    OBVIOUS
  <2>5. DOMAIN disk \subseteq Instants /\ Len(entries) <= Limit /\ Len(files) = Len(entries)
    BY <1>1, <1>2
  <2> HIDE DEF Init
  <2>6. QED
    BY <2>1, <2>2, <2>3, <2>4, <2>5 DEF TypeOK
<1>4. Pair
  BY <1>1 DEF Pair, FromEnd
<1>5. IsDirectory(disk) /\ FilesAreRecorded
  BY <1>1 DEF IsDirectory, FilesAreRecorded
<1>6. QED
  BY <1>1, <1>3, <1>4, <1>5
     DEF Inv, ClosedIsEmpty, EntriesAreRecorded, EntriesInTurn, RetainedRunsAreOnDisk,
         EntriesAreWhole, LeftoversAreOld

\* What Append's writing leaves: at most the file of r's instant changes, and
\* when r counts as persisted the file holds r.
Wrote(r, file, d) ==
    /\ IsDirectory(d)
    /\ \A t \in DOMAIN d : d[t] \subseteq Range(past) \cup {r}
    /\ \A t \in DOMAIN d \ {r.at} : t \in DOMAIN disk /\ d[t] = disk[t]
    /\ \A t \in DOMAIN disk : t \in DOMAIN d
    /\ \/ file = {}
       \/ file = {r.at} /\ r.at \in DOMAIN d /\ d[r.at] = {r}

\* push keeps the invariant.
LEMMA PushInv ==
    ASSUME Inv, up, up' = up, dir' = dir,
           now' \in 0..MaxInstant, scan' \in [Scanners -> Maybe(Run)],
           NEW r \in Run, NEW file, NEW d,
           Wrote(r, file, d), push(r, file, d), past' = Append(past, r)
    PROVE  Inv'
<1> DEFINE drop == Dropped(entries)
           n == Len(entries')
<1>1. /\ entries \in Seq(Run) /\ Len(entries) <= Limit /\ Len(entries) \in Nat
      /\ files \in Seq(Maybe(Instants)) /\ Len(files) = Len(entries)
      /\ past \in Seq(Run) /\ Limit \in Nat /\ Limit >= 2
      /\ DOMAIN entries = 1..Len(entries)
  BY LimitAssumption, LenProperties DEF Inv, TypeOK
<1>2. /\ r.at \in Instants /\ file \in Maybe(Instants)
      /\ \A x \in Run : x.at \in Int
  BY DEF Wrote, Maybe, Run, Instants
<1>3. /\ entries' \in Seq(Run) /\ n = Len(entries) + 1 - drop /\ n <= Limit
      /\ entries'[n] = r
      /\ \A i \in 1..(n - 1) : entries'[i] = entries[i + drop]
  <2>1. entries' = Push(entries, r)
    BY DEF push
  <2>2. /\ Push(entries, r) \in Seq(Run)
        /\ Len(Push(entries, r)) = Len(entries) + 1 - Dropped(entries)
        /\ Len(Push(entries, r)) <= Limit
        /\ Push(entries, r)[Len(Push(entries, r))] = r
        /\ \A i \in 1..(Len(Push(entries, r)) - 1) :
              Push(entries, r)[i] = entries[i + Dropped(entries)]
    BY <1>1, PushedComesLast
  <2>3. QED
    BY <2>1, <2>2
<1>4. /\ files' \in Seq(Maybe(Instants)) /\ Len(files') = n
      /\ files'[n] = file
      /\ \A i \in 1..(n - 1) : files'[i] = files[i + drop]
  <2>1. files' = Push(files, file)
    BY DEF push
  <2>2. Dropped(files) = drop /\ Len(files) <= Limit
    BY <1>1 DEF Dropped
  <2> DEFINE S == Maybe(Instants)
  <2>a. files \in Seq(S) /\ file \in S
    BY <1>1, <1>2
  <2> HIDE DEF S
  <2>3. /\ Push(files, file) \in Seq(S)
        /\ Len(Push(files, file)) = Len(files) + 1 - Dropped(files)
        /\ Push(files, file)[Len(Push(files, file))] = file
        /\ \A i \in 1..(Len(Push(files, file)) - 1) :
              Push(files, file)[i] = files[i + Dropped(files)]
    BY <2>a, <2>2, PushedComesLast
  <2> HIDE DEF drop, n
  <2>4. Len(files') = n
    BY <1>1, <1>3, <2>1, <2>2, <2>3
  <2>5. QED
    BY <2>1, <2>2, <2>3, <2>4 DEF S
<1>5. /\ drop \in {0, 1} /\ (drop = 1 <=> Len(entries) = Limit)
      /\ n \in Nat /\ n >= 1 /\ (drop = 1 => n = Limit)
      /\ DOMAIN entries' = 1..n
  <2>1. drop \in {0, 1} /\ (drop = 1 <=> Len(entries) = Limit)
    BY <1>1 DEF Dropped
  <2>2. n \in Nat /\ DOMAIN entries' = 1..n
    BY <1>3, LenProperties
  <2> HIDE DEF drop, n
  <2>3. n >= 1 /\ (drop = 1 => n = Limit)
    BY <1>1, <1>3, <2>1
  <2>4. QED
    BY <2>1, <2>2, <2>3
<1> HIDE DEF drop, n
\* Each entry is r, the last one, or was one before.
<1>6. ASSUME NEW i \in DOMAIN entries', i # n
      PROVE  /\ i < n /\ i + drop \in DOMAIN entries
             /\ entries'[i] = entries[i + drop] /\ files'[i] = files[i + drop]
  <2>1. i \in 1..(n - 1) /\ i < n
    BY <1>5, <1>6
  <2>2. i + drop \in 1..Len(entries)
    BY <1>1, <1>3, <1>5, <2>1
  <2>3. QED
    BY <1>1, <1>3, <1>4, <2>1, <2>2
<1>7. ASSUME NEW k \in DOMAIN entries, k # 1 \/ drop = 0
      PROVE  /\ k - drop \in DOMAIN entries' /\ k - drop < n
             /\ entries'[k - drop] = entries[k]
  <2>1. k - drop \in 1..(n - 1) /\ (k - drop) + drop = k
    BY <1>1, <1>3, <1>5, <1>7
  <2>2. entries'[k - drop] = entries[(k - drop) + drop]
    BY <1>3, <2>1
  <2>3. QED
    BY <1>5, <2>1, <2>2
<1>8. /\ past' \in Seq(Run)
      /\ Range(past') = Range(past) \cup {r}
      /\ \A x : Overtaken(past, x) => Overtaken(past', x)
      /\ \A t : Shared(past, t) => Shared(past', t)
      /\ \A x \in Range(past) : x.at < r.at \/ Overtaken(past', r)
      /\ \A x \in Range(past) : x.at = r.at => Shared(past', r.at)
  BY <1>1, PastGrows
\* What is left of the directory.
<1>9. /\ disk' = [t \in DOMAIN disk' |-> disk'[t]]
      /\ \A t \in DOMAIN disk' : t \in DOMAIN d /\ disk'[t] = d[t]
      /\ \A t \in DOMAIN d \ DOMAIN disk' :
            drop = 1 /\ 1 \in DOMAIN entries /\ t = entries[1].at
  <2>1. CASE disk' = d
    BY <2>1 DEF Wrote, IsDirectory
  <2>2. CASE Len(entries) = Limit /\ disk' = Removed(d, Oldest(files))
    <3>1. drop = 1 /\ 1 \in DOMAIN entries
      BY <1>1, <1>5, <2>2
    <3>2. files[1] \subseteq {entries[1].at}
      BY <3>1 DEF Inv, EntriesAreRecorded
    <3>3. /\ disk' = [t \in DOMAIN disk' |-> disk'[t]]
          /\ DOMAIN disk' = DOMAIN d \ files[1]
          /\ \A t \in DOMAIN disk' : disk'[t] = d[t]
      BY <2>2 DEF Removed, Oldest
    <3>4. QED
      BY <3>1, <3>2, <3>3
  <2>3. QED
    BY <2>1, <2>2 DEF push
<1>10. IsDirectory(disk')
  BY <1>9 DEF Wrote, IsDirectory
<1>11. FilesAreRecorded'
  BY <1>8, <1>9, <1>10 DEF Wrote, FilesAreRecorded
<1>12. TypeOK'
  <2>1. /\ up \in BOOLEAN /\ dir \in BOOLEAN /\ last \in Maybe(Run)
        /\ prev' = last /\ last' = {r}
    BY DEF Inv, TypeOK, push
  <2>2. last' \in Maybe(Run)
    BY <2>1 DEF Maybe
  <2>3. up' \in BOOLEAN /\ dir' \in BOOLEAN /\ prev' \in Maybe(Run)
    BY <2>1
  <2>4. Len(entries') <= Limit /\ Len(files') = Len(entries')
    BY <1>3, <1>4 DEF n
  <2>5. DOMAIN disk' \subseteq Instants /\ disk' \in [DOMAIN disk' -> Maybe(Run)]
    BY <1>10 DEF IsDirectory
  <2>6. QED
    BY <1>3, <1>4, <1>8, <2>2, <2>3, <2>4, <2>5 DEF TypeOK
<1>13. ClosedIsEmpty'
  BY DEF ClosedIsEmpty
<1>14. Pair'
  <2>1. prev' = FromEnd(entries, 0) /\ last' = {r}
    BY DEF Inv, Pair, push
  <2>2. last' = FromEnd(entries', 0)
    BY <1>3, <1>5, <2>1 DEF FromEnd, n
  <2>3. CASE Len(entries) = 0
    <3>1. n = 1
      BY <1>1, <1>3, <1>5, <2>3
    <3>2. QED
      BY <2>1, <2>2, <2>3, <3>1 DEF FromEnd, Pair, n
  <2>4. CASE Len(entries) # 0
    <3>1. n > 1 /\ n - 1 \in 1..(n - 1) /\ (n - 1) + drop = Len(entries) /\ Len(entries) > 0
      BY <1>1, <1>3, <1>5, <2>4
    <3>2. entries'[n - 1] = entries[Len(entries)]
      BY <1>3, <3>1
    <3>3. FromEnd(entries', 1) = {entries'[n - 1]}
      BY <3>1 DEF FromEnd, n
    <3>4. FromEnd(entries, 0) = {entries[Len(entries)]}
      BY <1>1, <3>1 DEF FromEnd
    <3>5. QED
      BY <2>1, <2>2, <3>2, <3>3, <3>4 DEF Pair
  <2>5. QED
    BY <2>3, <2>4
<1>15. EntriesAreRecorded'
  <2> SUFFICES ASSUME NEW i \in DOMAIN entries'
               PROVE  entries'[i] \in Range(past') /\ files'[i] \subseteq {entries'[i].at}
    BY DEF EntriesAreRecorded
  <2>1. CASE i = n
    BY <1>3, <1>4, <1>8, <2>1 DEF Wrote
  <2>2. CASE i # n
    BY <1>6, <1>8, <2>2 DEF Inv, EntriesAreRecorded
  <2>3. QED
    BY <2>1, <2>2
<1>16. EntriesInTurn'
  <2> SUFFICES ASSUME NEW i \in DOMAIN entries', NEW j \in DOMAIN entries', i < j
               PROVE  /\ \/ entries'[i].at < entries'[j].at
                         \/ Overtaken(past', entries'[j])
                      /\ entries'[i].at = entries'[j].at => Shared(past', entries'[j].at)
    BY DEF EntriesInTurn
  <2>1. i # n /\ i + drop \in DOMAIN entries /\ entries'[i] = entries[i + drop]
    BY <1>5, <1>6
  <2>2. CASE j = n
    <3>1. entries'[i] \in Range(past)
      BY <2>1 DEF Inv, EntriesAreRecorded
    <3>2. QED
      BY <1>3, <1>8, <2>2, <3>1
  <2>3. CASE j # n
    <3>1. j + drop \in DOMAIN entries /\ entries'[j] = entries[j + drop]
      BY <1>6, <2>3
    <3>2. i + drop < j + drop
      BY <1>5
    <3>3. QED
      BY <1>8, <2>1, <3>1, <3>2 DEF Inv, EntriesInTurn
  <2>4. QED
    BY <2>2, <2>3
\* Of two entries of one instant the later one was recorded late.
<1>17. ASSUME NEW k \in DOMAIN entries, k # 1, 1 \in DOMAIN entries,
              entries[1].at = entries[k].at
       PROVE  Overtaken(past, entries[k]) /\ Shared(past, entries[k].at)
  <2>1. 1 < k /\ entries[k] \in Run /\ entries[1] \in Run
    BY <1>1, <1>17, ElementOfSeq
  <2>2. entries[k].at \in Int
    BY <1>2, <2>1
  <2>3. QED
    BY <1>17, <2>1, <2>2 DEF Inv, EntriesInTurn
<1>18. RetainedRunsAreOnDisk'
  <2> SUFFICES ASSUME NEW i \in DOMAIN entries', NEW t \in files'[i],
                      ~Shared(past', t)
               PROVE  t \in DOMAIN disk' /\ disk'[t] = {entries'[i]}
    BY DEF RetainedRunsAreOnDisk
  <2>1. CASE i = n
    <3>1. t = r.at /\ t \in DOMAIN d /\ d[t] = {r} /\ entries'[i] = r
      BY <1>3, <1>4, <2>1 DEF Wrote
    <3>2. t \in DOMAIN disk'
      <4> SUFFICES ASSUME t \notin DOMAIN disk'
                   PROVE  FALSE
        OBVIOUS
      <4>1. 1 \in DOMAIN entries /\ entries[1].at = r.at
        BY <1>9, <3>1
      <4>2. entries[1] \in Range(past)
        BY <4>1 DEF Inv, EntriesAreRecorded
      <4>3. QED
        BY <1>8, <3>1, <4>1, <4>2
    <3>3. QED
      BY <1>9, <3>1, <3>2
  <2>2. CASE i # n
    <3> DEFINE k == i + drop
    <3>1. k \in DOMAIN entries /\ entries'[i] = entries[k] /\ t \in files[k]
      BY <1>6, <2>2
    <3> HIDE DEF k
    <3>2. t = entries[k].at /\ entries[k] \in Range(past)
      BY <3>1 DEF Inv, EntriesAreRecorded
    <3>3. ~Shared(past, t) /\ t # r.at
      BY <1>8, <3>2
    <3>4. t \in DOMAIN disk /\ disk[t] = {entries[k]}
      BY <3>1, <3>3 DEF Inv, RetainedRunsAreOnDisk
    <3>5. t \in DOMAIN d /\ d[t] = disk[t]
      BY <3>3, <3>4 DEF Wrote
    <3>6. t \in DOMAIN disk'
      <4> SUFFICES ASSUME t \notin DOMAIN disk'
                   PROVE  FALSE
        OBVIOUS
      <4>1. drop = 1 /\ 1 \in DOMAIN entries /\ t = entries[1].at
        BY <1>9, <3>5
      <4>2. k # 1
        BY <1>5, <4>1 DEF k
      <4>3. QED
        BY <1>17, <3>1, <3>2, <3>3, <4>1, <4>2
    <3>7. QED
      BY <1>9, <3>1, <3>4, <3>5, <3>6
  <2>3. QED
    BY <2>1, <2>2
<1>19. EntriesAreWhole'
  <2> SUFFICES ASSUME NEW i \in DOMAIN entries', NEW t \in files'[i],
                      ~Overtaken(past', entries'[i]),
                      ~\E j \in DOMAIN entries' : i < j /\ entries'[j].at = t
               PROVE  t \in DOMAIN disk' /\ disk'[t] = {entries'[i]}
    BY DEF EntriesAreWhole
  <2>1. CASE i = n
    <3>1. t = r.at /\ t \in DOMAIN d /\ d[t] = {r} /\ entries'[i] = r
      BY <1>3, <1>4, <2>1 DEF Wrote
    <3>2. t \in DOMAIN disk'
      <4> SUFFICES ASSUME t \notin DOMAIN disk'
                   PROVE  FALSE
        OBVIOUS
      <4>1. 1 \in DOMAIN entries /\ entries[1].at = r.at
        BY <1>9, <3>1
      <4>2. entries[1] \in Range(past) /\ r.at \in Int
        BY <1>2, <4>1 DEF Inv, EntriesAreRecorded
      <4>3. ~(entries[1].at < r.at)
        BY <4>1, <4>2
      <4>4. QED
        BY <1>8, <3>1, <4>2, <4>3
    <3>3. QED
      BY <1>9, <3>1, <3>2
  <2>2. CASE i # n
    <3> DEFINE k == i + drop
    <3>1. k \in DOMAIN entries /\ entries'[i] = entries[k] /\ t \in files[k] /\ i < n
      BY <1>6, <2>2
    <3>2. \A j \in DOMAIN entries : k < j => entries[j].at # t
      <4> SUFFICES ASSUME NEW j \in DOMAIN entries, k < j
                   PROVE  entries[j].at # t
        OBVIOUS
      <4>1. j # 1 \/ drop = 0
        BY <1>1, <1>5
      <4>2. /\ j - drop \in DOMAIN entries' /\ entries'[j - drop] = entries[j]
            /\ i < j - drop
        BY <1>1, <1>5, <1>7, <4>1
      <4>3. QED
        BY <4>2
    <3>3. t # r.at
      BY <1>3, <1>5, <3>1
    <3>4. k # 1 \/ drop = 0
      BY <1>5
    <3> HIDE DEF k
    <3>5. t = entries[k].at /\ ~Overtaken(past, entries[k])
      BY <1>8, <3>1 DEF Inv, EntriesAreRecorded
    <3>6. t \in DOMAIN disk /\ disk[t] = {entries[k]}
      BY <3>1, <3>2, <3>5 DEF Inv, EntriesAreWhole
    <3>7. t \in DOMAIN d /\ d[t] = disk[t]
      BY <3>3, <3>6 DEF Wrote
    <3>8. t \in DOMAIN disk'
      BY <1>9, <1>17, <3>1, <3>4, <3>5, <3>7
    <3>9. QED
      BY <1>9, <3>1, <3>6, <3>7, <3>8
  <2>3. QED
    BY <2>1, <2>2
<1>20. LeftoversAreOld'
  <2> SUFFICES ASSUME dir', NEW t \in Readable(disk'),
                      ~\E i \in DOMAIN entries' : entries'[i].at = t
               PROVE  /\ n = Limit
                      /\ \A i \in DOMAIN entries' :
                            t < entries'[i].at \/ Overtaken(past', entries'[i])
    BY DEF LeftoversAreOld, n
  <2>1. t \in DOMAIN disk' /\ t \in DOMAIN d /\ d[t] # {} /\ t # r.at
    BY <1>3, <1>5, <1>9 DEF Readable
  <2>2. t \in Readable(disk)
    BY <2>1 DEF Readable, Wrote
  <2>3. \E x \in Range(past) : x.at = t
    BY <2>2 DEF Inv, FilesAreRecorded, IsDirectory, Readable
  <2>4. t < r.at \/ Overtaken(past', r)
    BY <1>8, <2>3
  <2>5. /\ Len(entries) = Limit
        /\ \A k \in DOMAIN entries :
              k # 1 => t < entries[k].at \/ Overtaken(past, entries[k])
    <3>1. CASE \E k \in DOMAIN entries : entries[k].at = t
      <4>1. PICK k \in DOMAIN entries : entries[k].at = t
        BY <3>1
      <4>2. k = 1 /\ drop = 1
        BY <1>5, <1>7, <4>1
      <4>3. \A l \in DOMAIN entries :
               l # 1 => entries[1].at < entries[l].at \/ Overtaken(past, entries[l])
        <5> SUFFICES ASSUME NEW l \in DOMAIN entries, l # 1
                     PROVE  entries[1].at < entries[l].at \/ Overtaken(past, entries[l])
          OBVIOUS
        <5>1. 1 \in DOMAIN entries /\ 1 < l
          BY <1>1, <4>1, <4>2
        <5>2. QED
          BY <5>1 DEF Inv, EntriesInTurn
      <4>4. QED
        BY <1>5, <4>1, <4>2, <4>3
    <3>2. CASE ~\E k \in DOMAIN entries : entries[k].at = t
      BY <2>2, <3>2 DEF Inv, LeftoversAreOld
    <3>3. QED
      BY <3>1, <3>2
  <2>6. drop = 1 /\ n = Limit
    BY <1>5, <2>5
  <2>7. ASSUME NEW i \in DOMAIN entries'
        PROVE  t < entries'[i].at \/ Overtaken(past', entries'[i])
    <3>1. CASE i = n
      BY <1>3, <2>4, <3>1
    <3>2. CASE i # n
      <4>1. /\ i + 1 \in DOMAIN entries /\ entries'[i] = entries[i + 1]
            /\ i + 1 # 1
        BY <1>5, <1>6, <2>6, <3>2
      <4>2. QED
        BY <1>8, <2>5, <4>1
    <3>3. QED
      BY <3>1, <3>2
  <2>8. QED
    BY <2>6, <2>7
<1>21. QED
  BY <1>11, <1>12, <1>13, <1>14, <1>15, <1>16, <1>18, <1>19, <1>20 DEF Inv

\* The invariant of a store that is not open is about its directory alone.
LEMMA ClosedInv ==
    ASSUME TypeOK', FilesAreRecorded', up' = FALSE, dir' = FALSE,
           entries' = <<>>, files' = <<>>, prev' = {}, last' = {}
    PROVE  Inv'
<1>1. DOMAIN entries' = {} /\ Len(entries') = 0
  OBVIOUS
<1>2. Pair'
  BY <1>1 DEF Pair, FromEnd
<1>3. QED
  BY <1>1, <1>2
     DEF Inv, ClosedIsEmpty, EntriesAreRecorded, EntriesInTurn, RetainedRunsAreOnDisk,
         EntriesAreWhole, LeftoversAreOld

\* Removing files keeps a directory.
LEMMA RemovedFiles ==
    ASSUME NEW d, IsDirectory(d), NEW ts
    PROVE  /\ IsDirectory(Removed(d, ts))
           /\ DOMAIN Removed(d, ts) = DOMAIN d \ ts
           /\ \A t \in DOMAIN d \ ts : Removed(d, ts)[t] = d[t]
BY DEF IsDirectory, Removed

\* Writing a file keeps a directory, when it holds at most the run it is named for.
LEMMA WrittenFiles ==
    ASSUME NEW d, IsDirectory(d), NEW r \in Run, NEW c \in {{}, {r}}
    PROVE  /\ IsDirectory(Written(d, r.at, c))
           /\ DOMAIN Written(d, r.at, c) = DOMAIN d \cup {r.at}
           /\ Written(d, r.at, c)[r.at] = c
           /\ \A t \in DOMAIN d \ {r.at} : Written(d, r.at, c)[t] = d[t]
<1>1. r.at \in Instants /\ c \in Maybe(Run)
  BY DEF Run, Maybe
<1>2. QED
  BY <1>1 DEF IsDirectory, Written

\* The three ways an append can end.
LEMMA WaysToWrite ==
    ASSUME FilesAreRecorded, NEW r \in Run
    PROVE  /\ Wrote(r, FileOf(r), Written(disk, r.at, {r}))
           /\ Wrote(r, {}, disk)
           /\ Wrote(r, {}, Written(disk, r.at, {}))
<1>1. IsDirectory(disk) /\ \A t \in DOMAIN disk : disk[t] \subseteq Range(past)
  BY DEF FilesAreRecorded
<1>2. ASSUME NEW c \in {{}, {r}}
      PROVE  /\ IsDirectory(Written(disk, r.at, c))
             /\ DOMAIN Written(disk, r.at, c) = DOMAIN disk \cup {r.at}
             /\ Written(disk, r.at, c)[r.at] = c
             /\ \A t \in DOMAIN disk \ {r.at} : Written(disk, r.at, c)[t] = disk[t]
             /\ \A t \in DOMAIN Written(disk, r.at, c) :
                   Written(disk, r.at, c)[t] \subseteq Range(past) \cup {r}
  <2>1. IsDirectory(Written(disk, r.at, c))
    BY <1>1, WrittenFiles
  <2>2. DOMAIN Written(disk, r.at, c) = DOMAIN disk \cup {r.at}
    BY DEF Written
  <2>3. /\ Written(disk, r.at, c)[r.at] = c
        /\ \A t \in DOMAIN disk \ {r.at} : Written(disk, r.at, c)[t] = disk[t]
    BY DEF Written
  <2>4. QED
    BY <1>1, <2>1, <2>2, <2>3
<1>3. Wrote(r, {}, disk)
  BY <1>1 DEF Wrote
<1>4. Wrote(r, FileOf(r), Written(disk, r.at, {r}))
  BY <1>2 DEF Wrote, FileOf
<1>5. Wrote(r, {}, Written(disk, r.at, {}))
  BY <1>2 DEF Wrote
<1>6. QED
  BY <1>3, <1>4, <1>5

\* Opening the store establishes the invariant from the directory.
LEMMA OpenInv ==
    ASSUME Inv, Open
    PROVE  Inv'
<1>1. PICK runs \in Found(disk) :
         LET kept == KeptOf(runs)
             gone == {runs[i].at : i \in 1..(Len(runs) - Len(kept))}
         IN /\ entries' = kept
            /\ files' = [i \in DOMAIN kept |-> FileOf(kept[i])]
            /\ prev' = FromEnd(runs, 1)
            /\ last' = FromEnd(runs, 0)
            /\ \E removed \in SUBSET gone : disk' = Removed(disk, removed)
  BY DEF Open
<1> DEFINE n == Len(runs)
           k == Len(KeptOf(runs))
<1>2. /\ IsDirectory(disk) /\ \A t \in DOMAIN disk : disk[t] \subseteq Range(past)
      /\ UNCHANGED <<now, scan, past>> /\ up' = TRUE /\ dir' = TRUE
      /\ Limit \in Nat /\ Limit >= 2
  BY LimitAssumption DEF Inv, FilesAreRecorded, Open
<1>3. /\ runs \in Seq(Run)
      /\ \A i \in 1..n : runs[i].at \in Readable(disk) /\ disk[runs[i].at] = {runs[i]}
      /\ \A i, j \in 1..n : i < j => runs[i].at < runs[j].at
      /\ \A t \in Readable(disk) : \E i \in 1..n : runs[i].at = t
  <2>1. runs \in Seq(Run)
    BY <1>2, FoundRuns
  <2>2. \A i \in 1..n : runs[i].at \in Readable(disk) /\ disk[runs[i].at] = {runs[i]}
    BY <1>2, FoundRuns
  <2>3. \A i, j \in 1..n : i < j => runs[i].at < runs[j].at
    BY <1>2, FoundRuns
  <2>4. \A t \in Readable(disk) : \E i \in 1..n : runs[i].at = t
    BY <1>2, FoundRuns
  <2>5. QED
    BY <2>1, <2>2, <2>3, <2>4
<1>4. /\ KeptOf(runs) \in Seq(Run)
      /\ k = IF n > Limit THEN Limit ELSE n
      /\ \A i \in 1..k : KeptOf(runs)[i] = runs[n - k + i]
  BY <1>3, KeptAreTheLast
<1>5. /\ entries' \in Seq(Run) /\ Len(entries') = k /\ DOMAIN entries' = 1..k
      /\ \A i \in 1..k : entries'[i] = runs[n - k + i]
  BY <1>1, <1>4, LenProperties
<1>6. /\ DOMAIN files' = 1..k /\ \A i \in 1..k : files'[i] = {entries'[i].at}
      /\ files' = [i \in 1..k |-> files'[i]]
  BY <1>1, <1>5 DEF FileOf
<1>7. PICK removed \in SUBSET {runs[i].at : i \in 1..(n - k)} :
         disk' = Removed(disk, removed)
  BY <1>1
<1>8. /\ IsDirectory(disk') /\ DOMAIN disk' = DOMAIN disk \ removed
      /\ \A t \in DOMAIN disk' : disk'[t] = disk[t]
  <2>1. IsDirectory(Removed(disk, removed))
    BY <1>2, RemovedFiles
  <2>2. /\ DOMAIN Removed(disk, removed) = DOMAIN disk \ removed
        /\ \A t \in DOMAIN disk \ removed : Removed(disk, removed)[t] = disk[t]
    BY DEF Removed
  <2>3. QED
    BY <1>7, <2>1, <2>2
<1>9. n \in Nat /\ k \in Nat /\ k <= n /\ k <= Limit /\ (k < n => k = Limit)
  <2>1. n \in Nat
    BY <1>3, LenProperties
  <2> HIDE DEF k, n
  <2>2. QED
    BY <1>2, <1>4, <2>1
<1>a. \A i \in 1..n : runs[i] \in Run /\ runs[i].at \in Int /\ runs[i].at \in Instants
  <2>1. \A r \in Run : r.at \in Int /\ r.at \in Instants
    BY DEF Run, Instants
  <2>2. QED
    BY <1>3, <2>1, ElementOfSeq
<1> HIDE DEF n, k
\* Each entry is a run found, and its file stays.
<1>10. ASSUME NEW i \in DOMAIN entries'
       PROVE  /\ n - k + i \in 1..n /\ entries'[i] = runs[n - k + i]
              /\ entries'[i] \in Run /\ entries'[i].at \in Instants
              /\ entries'[i].at \in DOMAIN disk'
              /\ disk'[entries'[i].at] = {entries'[i]}
              /\ entries'[i] \in Range(past)
  <2> DEFINE m == n - k + i
  <2>1. m \in 1..n /\ \A l \in 1..(n - k) : l \in 1..n /\ l < m
    BY <1>5, <1>9
  <2>2. entries'[i] = runs[m]
    BY <1>5
  <2> HIDE DEF m
  <2>3. runs[m] \in Run /\ runs[m].at \in Int /\ runs[m].at \in Instants
    BY <1>a, <2>1
  <2>4. runs[m].at \in DOMAIN disk /\ disk[runs[m].at] = {runs[m]}
    BY <1>3, <2>1 DEF Readable
  <2>5. \A l \in 1..(n - k) : runs[l].at # runs[m].at
    BY <1>3, <2>1, <2>3
  <2>6. runs[m].at \in DOMAIN disk'
    BY <1>7, <1>8, <2>4, <2>5
  <2>7. runs[m] \in Range(past)
    BY <1>2, <2>4
  <2>8. QED
    BY <1>8, <2>1, <2>2, <2>3, <2>4, <2>6, <2>7 DEF m
<1>11. \A i, j \in DOMAIN entries' : i < j => entries'[i].at < entries'[j].at
  <2> SUFFICES ASSUME NEW i \in DOMAIN entries', NEW j \in DOMAIN entries', i < j
               PROVE  entries'[i].at < entries'[j].at
    OBVIOUS
  <2>1. n - k + i < n - k + j
    BY <1>5, <1>9
  <2>2. QED
    BY <1>3, <1>10, <2>1
<1>12. FilesAreRecorded'
  BY <1>2, <1>8 DEF FilesAreRecorded
<1>13. files' \in Seq(Maybe(Instants)) /\ Len(files') = Len(entries')
  <2>1. files' \in [1..k -> Maybe(Instants)]
    BY <1>5, <1>6, <1>10 DEF Maybe
  <2>2. QED
    BY <1>5, <1>9, <2>1, IsASeq, LenProperties
<1>14. prev' = FromEnd(runs, 1) /\ last' = FromEnd(runs, 0)
  BY <1>1
<1>15. Pair'
  <2>1. FromEnd(runs, 0) = FromEnd(entries', 0)
    <3>1. k = 0 <=> n = 0
      BY <1>2, <1>9
    <3>2. k # 0 => entries'[k] = runs[n]
      BY <1>5, <1>9
    <3>3. CASE k = 0
      BY <1>5, <3>1, <3>3 DEF FromEnd, n
    <3>4. CASE k # 0
      <4>1. FromEnd(runs, 0) = {runs[n]}
        BY <1>9, <3>1, <3>4 DEF FromEnd, n
      <4>2. FromEnd(entries', 0) = {entries'[k]}
        BY <1>5, <1>9, <3>4 DEF FromEnd
      <4>3. QED
        BY <3>2, <3>4, <4>1, <4>2
    <3>5. QED
      BY <3>3, <3>4
  <2>2. FromEnd(runs, 1) = FromEnd(entries', 1)
    <3>1. k > 1 <=> n > 1
      BY <1>2, <1>9
    <3>2. k > 1 => entries'[k - 1] = runs[n - 1]
      BY <1>5, <1>9
    <3>3. QED
      BY <1>5, <1>9, <3>1, <3>2 DEF FromEnd, n
  <2>3. QED
    BY <1>14, <2>1, <2>2 DEF Pair
<1>16. TypeOK'
  <2>1. \A i \in 1..n : runs[i] \in Run
    BY <1>3, ElementOfSeq DEF n
  <2>2. prev' \in Maybe(Run) /\ last' \in Maybe(Run)
    BY <1>9, <1>14, <2>1 DEF FromEnd, Maybe, n
  <2>3. now' \in 0..MaxInstant /\ scan' \in [Scanners -> Maybe(Run)] /\ past' \in Seq(Run)
    BY <1>2 DEF Inv, TypeOK
  <2>4. DOMAIN disk' \subseteq Instants /\ disk' \in [DOMAIN disk' -> Maybe(Run)]
    BY <1>8 DEF IsDirectory
  <2>5. QED
    BY <1>2, <1>5, <1>9, <1>13, <2>2, <2>3, <2>4 DEF TypeOK
<1>17. LeftoversAreOld'
  <2> SUFFICES ASSUME NEW t \in Readable(disk'),
                      ~\E i \in DOMAIN entries' : entries'[i].at = t
               PROVE  /\ Len(entries') = Limit
                      /\ \A i \in DOMAIN entries' : t < entries'[i].at
    BY DEF LeftoversAreOld
  <2>1. t \in Readable(disk)
    BY <1>8 DEF Readable
  <2>2. PICK l \in 1..n : runs[l].at = t
    BY <1>3, <2>1
  <2>3. l <= n - k
    <3> SUFFICES ASSUME l > n - k
                 PROVE  FALSE
      BY <1>9
    <3>1. l - (n - k) \in 1..k /\ n - k + (l - (n - k)) = l
      BY <1>9
    <3>2. QED
      BY <1>5, <2>2, <3>1
  <2>4. Len(entries') = Limit
    BY <1>5, <1>9, <2>3
  <2>5. ASSUME NEW i \in DOMAIN entries'
        PROVE  t < entries'[i].at
    <3>1. l < n - k + i
      BY <1>5, <1>9, <2>3
    <3>2. QED
      BY <1>3, <1>10, <2>2, <3>1
  <2>6. QED
    BY <2>4, <2>5
<1>18. ClosedIsEmpty'
  BY <1>2 DEF ClosedIsEmpty
<1>19. EntriesAreRecorded' /\ RetainedRunsAreOnDisk' /\ EntriesAreWhole'
  BY <1>2, <1>5, <1>6, <1>10
     DEF EntriesAreRecorded, RetainedRunsAreOnDisk, EntriesAreWhole
<1>20. EntriesInTurn'
  <2>1. \A i \in DOMAIN entries' : entries'[i].at \in Int
    BY <1>10 DEF Instants
  <2>2. QED
    BY <1>11, <2>1 DEF EntriesInTurn
<1>21. QED
  BY <1>12, <1>15, <1>16, <1>17, <1>18, <1>19, <1>20 DEF Inv
\* What a recorded report leaves in the fields that every append shares.
LEMMA RecordedRun ==
    ASSUME TypeOK, NEW p \in Scanners, NEW r \in scan[p], Recorded(p, r)
    PROVE  r \in Run /\ scan' \in [Scanners -> Maybe(Run)] /\ past' = Append(past, r)
<1>1. scan \in [Scanners -> Maybe(Run)]
  BY DEF TypeOK
<1>2. r \in Run
  BY <1>1 DEF Maybe
<1>3. {} \in Maybe(Run)
  BY DEF Maybe
<1> DEFINE S == Maybe(Run)
<1>4. scan \in [Scanners -> S] /\ {} \in S
  BY <1>1, <1>3
<1> HIDE DEF S
<1>5. scan' \in [Scanners -> S]
  BY <1>4 DEF Recorded
<1>6. QED
  BY <1>2, <1>5 DEF Recorded, S

\* An append, however its writing ends.
LEMMA AppendInv ==
    ASSUME Inv, NEW p \in Scanners,
           AppendRun(p) \/ AppendUnwritten(p) \/ AppendTorn(p)
    PROVE  Inv'
<1>1. TypeOK /\ FilesAreRecorded
  BY DEF Inv
<1>2. PICK r \in scan[p] :
         /\ Recorded(p, r)
         /\ \/ push(r, FileOf(r), Written(disk, r.at, {r}))
            \/ push(r, {}, disk)
            \/ push(r, {}, Written(disk, r.at, {}))
  BY DEF AppendRun, AppendUnwritten, AppendTorn
<1>3. r \in Run /\ scan' \in [Scanners -> Maybe(Run)] /\ past' = Append(past, r)
  BY <1>1, <1>2, RecordedRun
<1>4. up /\ up' = up /\ dir' = dir /\ now' = now
  BY DEF AppendRun, AppendUnwritten, AppendTorn
<1>5. now' \in 0..MaxInstant
  BY <1>1, <1>4 DEF TypeOK
<1>6. /\ Wrote(r, FileOf(r), Written(disk, r.at, {r}))
      /\ Wrote(r, {}, disk)
      /\ Wrote(r, {}, Written(disk, r.at, {}))
  BY <1>1, <1>3, WaysToWrite
<1>7. CASE push(r, FileOf(r), Written(disk, r.at, {r}))
  BY <1>3, <1>4, <1>5, <1>6, <1>7, PushInv
<1>8. CASE push(r, {}, disk)
  BY <1>3, <1>4, <1>5, <1>6, <1>8, PushInv
<1>9. CASE push(r, {}, Written(disk, r.at, {}))
  BY <1>3, <1>4, <1>5, <1>6, <1>9, PushInv
<1>10. QED
  BY <1>2, <1>7, <1>8, <1>9

\* When the process dies only the directory is left.
LEMMA DeadInv ==
    ASSUME Inv, Dead, UNCHANGED now, past' \in Seq(Run), FilesAreRecorded'
    PROVE  Inv'
<1>1. /\ up' = FALSE /\ dir' = FALSE
      /\ entries' = <<>> /\ files' = <<>> /\ prev' = {} /\ last' = {}
  BY DEF Dead
<1>2. scan' \in [Scanners -> Maybe(Run)] /\ prev' \in Maybe(Run) /\ last' \in Maybe(Run)
  BY <1>1 DEF Dead, Maybe
<1>3. entries' \in Seq(Run) /\ files' \in Seq(Maybe(Instants))
  BY <1>1
<1>4. Len(entries') <= Limit /\ Len(files') = Len(entries')
  BY <1>1, LimitAssumption
<1>5. now' \in 0..MaxInstant
  BY DEF Inv, TypeOK
<1>6. DOMAIN disk' \subseteq Instants /\ disk' \in [DOMAIN disk' -> Maybe(Run)]
  BY DEF FilesAreRecorded, IsDirectory
<1>7. TypeOK'
  BY <1>1, <1>2, <1>3, <1>4, <1>5, <1>6 DEF TypeOK
<1>8. QED
  BY <1>1, <1>7, ClosedInv

\* The process dies inside Append.
LEMMA CrashWhileAppendingInv ==
    ASSUME Inv, NEW p \in Scanners, CrashWhileAppending(p)
    PROVE  Inv'
<1>1. PICK r \in scan[p] :
         /\ past' = Append(past, r)
         /\ \E c \in {{}, {r}} : disk' = Written(disk, r.at, c)
  BY DEF CrashWhileAppending
<1>2. /\ r \in Run /\ past \in Seq(Run)
      /\ IsDirectory(disk) /\ \A t \in DOMAIN disk : disk[t] \subseteq Range(past)
  BY DEF Inv, TypeOK, FilesAreRecorded, Maybe
<1>3. past' \in Seq(Run) /\ Range(past') = Range(past) \cup {r}
  BY <1>1, <1>2, PastGrows
<1>4. PICK c \in {{}, {r}} : disk' = Written(disk, r.at, c)
  BY <1>1
<1>5. IsDirectory(disk')
  <2>1. IsDirectory(Written(disk, r.at, c))
    BY <1>2, WrittenFiles
  <2>2. QED
    BY <1>4, <2>1
<1>6. \A t \in DOMAIN disk' : disk'[t] \subseteq Range(past')
  <2>1. /\ DOMAIN disk' = DOMAIN disk \cup {r.at}
        /\ disk'[r.at] = c
        /\ \A t \in DOMAIN disk \ {r.at} : disk'[t] = disk[t]
    BY <1>4 DEF Written
  <2>2. QED
    BY <1>2, <1>3, <2>1
<1>7. FilesAreRecorded'
  BY <1>5, <1>6 DEF FilesAreRecorded
<1>8. QED
  BY <1>3, <1>7, DeadInv DEF CrashWhileAppending

\* The process dies inside New.
LEMMA CrashWhileOpeningInv ==
    ASSUME Inv, CrashWhileOpening
    PROVE  Inv'
<1>1. PICK ts : disk' = Removed(disk, ts)
  BY DEF CrashWhileOpening
<1>2. /\ UNCHANGED <<now, scan, up, dir, memory, past>> /\ up = FALSE
      /\ IsDirectory(disk) /\ \A t \in DOMAIN disk : disk[t] \subseteq Range(past)
      /\ TypeOK /\ ClosedIsEmpty
  BY DEF Inv, TypeOK, FilesAreRecorded, CrashWhileOpening
<1>3. IsDirectory(disk')
  <2>1. IsDirectory(Removed(disk, ts))
    BY <1>2, RemovedFiles
  <2>2. QED
    BY <1>1, <2>1
<1>4. \A t \in DOMAIN disk' : t \in DOMAIN disk /\ disk'[t] = disk[t]
  BY <1>1 DEF Removed
<1>5. FilesAreRecorded'
  BY <1>2, <1>3, <1>4 DEF FilesAreRecorded
<1>6. TypeOK'
  BY <1>2, <1>3 DEF TypeOK, memory, IsDirectory
<1>7. /\ up' = FALSE /\ dir' = FALSE
      /\ entries' = <<>> /\ files' = <<>> /\ prev' = {} /\ last' = {}
  BY <1>2 DEF ClosedIsEmpty, memory
<1>8. QED
  BY <1>5, <1>6, <1>7, ClosedInv

\* A store that could not open its directory starts empty.
LEMMA OpenInMemoryInv ==
    ASSUME Inv, OpenInMemory
    PROVE  Inv'
<1>1. /\ up' = TRUE /\ dir' = FALSE /\ UNCHANGED <<now, scan, disk, memory, past>>
      /\ entries = <<>> /\ files = <<>> /\ prev = {} /\ last = {}
  BY DEF OpenInMemory, Inv, ClosedIsEmpty
<1>2. TypeOK'
  BY <1>1 DEF Inv, TypeOK, memory
<1>3. QED
  BY <1>1, <1>2
     DEF Inv, ClosedIsEmpty, Pair, FilesAreRecorded, EntriesAreRecorded, EntriesInTurn,
         RetainedRunsAreOnDisk, EntriesAreWhole, LeftoversAreOld, memory

\* A scan that generates its report touches neither the store nor the directory.
LEMMA GenerateInv ==
    ASSUME Inv, NEW p \in Scanners, Generate(p)
    PROVE  Inv'
<1>1. PICK r \in Run : scan' = [scan EXCEPT ![p] = {r}] /\ now' = r.at
  BY DEF Generate
<1>2. UNCHANGED <<up, dir, disk, entries, files, prev, last, past>>
  BY DEF Generate, memory
<1> DEFINE S == Maybe(Run)
<1>3. scan \in [Scanners -> S] /\ {r} \in S
  BY DEF Inv, TypeOK, Maybe
<1>4. now' \in 0..MaxInstant
  BY <1>1, HistoryAssumption DEF Run, Instants
<1> HIDE DEF S
<1>5. scan' \in [Scanners -> S]
  BY <1>1, <1>3
<1>6. TypeOK'
  BY <1>2, <1>4, <1>5 DEF Inv, TypeOK, S
<1>7. QED
  BY <1>2, <1>6
     DEF Inv, ClosedIsEmpty, Pair, FilesAreRecorded, EntriesAreRecorded, EntriesInTurn,
         RetainedRunsAreOnDisk, EntriesAreWhole, LeftoversAreOld

LEMMA StepInv == Inv /\ [Next]_vars => Inv'
<1> SUFFICES ASSUME Inv, [Next]_vars
             PROVE  Inv'
  OBVIOUS
<1>1. CASE Open
  BY <1>1, OpenInv
<1>2. CASE OpenInMemory
  BY <1>2, OpenInMemoryInv
<1>3. CASE Crash
  <2>1. past' \in Seq(Run) /\ FilesAreRecorded'
    BY <1>3 DEF Crash, Inv, TypeOK, FilesAreRecorded
  <2>2. QED
    BY <1>3, <2>1, DeadInv DEF Crash
<1>4. CASE CrashWhileOpening
  BY <1>4, CrashWhileOpeningInv
<1>5. ASSUME NEW p \in Scanners,
             \/ Generate(p) \/ CrashWhileAppending(p)
             \/ AppendRun(p) \/ AppendUnwritten(p) \/ AppendTorn(p)
      PROVE  Inv'
  BY <1>5, GenerateInv, CrashWhileAppendingInv, AppendInv
<1>6. CASE UNCHANGED vars
  BY <1>6
     DEF vars, memory, Inv, TypeOK, ClosedIsEmpty, Pair, FilesAreRecorded,
         EntriesAreRecorded, EntriesInTurn, RetainedRunsAreOnDisk, EntriesAreWhole,
         LeftoversAreOld
<1>7. QED
  BY <1>1, <1>2, <1>3, <1>4, <1>5, <1>6 DEF Next
-----------------------------------------------------------------------------
(* The theorems.                                                           *)

LEMMA InvHolds == Spec => []Inv
BY InitInv, StepInv, PTL DEF Spec

\* What New, Append and the crashes assign stays in its type, and a log never
\* exceeds the limit.
THEOREM TypeCorrect == Spec => []TypeOK
<1>1. Inv => TypeOK
  BY DEF Inv
<1>2. QED
  BY <1>1, InvHolds, PTL

\* The diff Server and Manager show compares the two newest runs of the index,
\* at any limit and after any restart.
THEOREM DiffIsRight == Spec => []DiffIsOfNewestRuns
<1>1. Inv => DiffIsOfNewestRuns
  BY DEF Inv, Pair, DiffIsOfNewestRuns
<1>2. QED
  BY <1>1, InvHolds, PTL

\* A run whose file the store remembers is on disk, whole, unless another run of
\* its millisecond was recorded: nothing Append or New removes is still listed.
THEOREM RetainedRunsAreThere == Spec => []RetainedRunsAreOnDisk
<1>1. Inv => RetainedRunsAreOnDisk
  BY DEF Inv
<1>2. QED
  BY <1>1, InvHolds, PTL

\* A restart shows the runs the process showed, when each was written and recorded
\* in its turn: pruning, torn files and late runs before them do no harm.
THEOREM RestartLosesNothing == Spec => []RestartIsLossless
<1>1. Inv => RestartIsLossless
  <2> SUFFICES ASSUME Inv, up, dir,
                      \A i \in DOMAIN entries :
                         files[i] # {} /\ ~Overtaken(past, entries[i]),
                      NEW runs \in Found(disk)
               PROVE  KeptOf(runs) = entries
    BY DEF RestartIsLossless
  <2>1. /\ entries \in Seq(Run) /\ Len(entries) <= Limit
        /\ DOMAIN entries = 1..Len(entries) /\ IsDirectory(disk)
    BY LenProperties DEF Inv, TypeOK, FilesAreRecorded
  <2>2. \A i, j \in 1..Len(entries) : i < j => entries[i].at < entries[j].at
    BY <2>1 DEF Inv, EntriesInTurn
  <2>3. \A i \in 1..Len(entries) : entries[i].at \in Int
    <3>1. \A r \in Run : r.at \in Int
      BY DEF Run, Instants
    <3>2. QED
      BY <2>1, <3>1, ElementOfSeq
  <2>4. ASSUME NEW i \in 1..Len(entries)
        PROVE  entries[i].at \in Readable(disk) /\ disk[entries[i].at] = {entries[i]}
    <3>1. entries[i].at \in files[i]
      BY <2>1 DEF Inv, EntriesAreRecorded
    <3>2. \A j \in DOMAIN entries : i < j => entries[j].at # entries[i].at
      BY <2>1, <2>2, <2>3
    <3>3. entries[i].at \in DOMAIN disk /\ disk[entries[i].at] = {entries[i]}
      BY <2>1, <3>1, <3>2 DEF Inv, EntriesAreWhole
    <3>4. QED
      BY <3>3 DEF Readable
  <2>5. \A t \in Readable(disk) :
           \/ \E i \in 1..Len(entries) : entries[i].at = t
           \/ Len(entries) = Limit /\ \A i \in 1..Len(entries) : t < entries[i].at
    BY <2>1 DEF Inv, LeftoversAreOld
  <2>6. QED
    BY <2>1, <2>2, <2>4, <2>5, NewestAreKept
<1>2. QED
  BY <1>1, InvHolds, PTL
-----------------------------------------------------------------------------
(* The refinement.                                                         *)

\* What HistorySpec's Recover lets a store show.
Recoverable(log, runs) ==
    \E k \in 0..Limit : \E found \in [1..k -> Range(runs)] :
        /\ \A i, j \in 1..k : i < j => found[i].at < found[j].at
        /\ log = found

\* The runs New keeps of a directory of recorded runs are recoverable.
LEMMA KeptIsRecoverable ==
    ASSUME NEW d, IsDirectory(d), NEW all,
           \A t \in DOMAIN d : d[t] \subseteq Range(all),
           NEW runs \in Found(d)
    PROVE  Recoverable(KeptOf(runs), all)
<1> DEFINE n == Len(runs)
           kept == KeptOf(runs)
           k == Len(kept)
<1>1. runs \in Seq(Run)
  BY FoundRuns
<1>2. \A i \in 1..n : runs[i].at \in Readable(d) /\ d[runs[i].at] = {runs[i]}
  BY FoundRuns
<1>3. \A i, j \in 1..n : i < j => runs[i].at < runs[j].at
  BY FoundRuns
<1>4. /\ kept \in Seq(Run)
      /\ k = IF n > Limit THEN Limit ELSE n
      /\ \A i \in 1..k : kept[i] = runs[n - k + i]
  BY <1>1, KeptAreTheLast
<1>5. n \in Nat
  BY <1>1, LenProperties
<1>6. kept = [i \in 1..k |-> kept[i]]
  BY <1>4, LenProperties
<1> HIDE DEF n, kept, k
<1>7. Limit \in Nat /\ k \in 0..Limit /\ k <= n
  BY <1>4, <1>5, LimitAssumption
<1>8. \A i \in 1..k : kept[i] \in Range(all)
  <2> SUFFICES ASSUME NEW i \in 1..k
               PROVE  kept[i] \in Range(all)
    OBVIOUS
  <2>1. n - k + i \in 1..n /\ kept[i] = runs[n - k + i]
    BY <1>4, <1>5, <1>7
  <2>2. QED
    BY <1>2, <2>1 DEF Readable
<1>9. \A i, j \in 1..k : i < j => kept[i].at < kept[j].at
  <2> SUFFICES ASSUME NEW i \in 1..k, NEW j \in 1..k, i < j
               PROVE  kept[i].at < kept[j].at
    OBVIOUS
  <2>1. /\ n - k + i \in 1..n /\ n - k + j \in 1..n /\ n - k + i < n - k + j
        /\ kept[i] = runs[n - k + i] /\ kept[j] = runs[n - k + j]
    BY <1>4, <1>5, <1>7
  <2>2. QED
    BY <1>3, <2>1
<1>10. kept \in [1..k -> Range(all)]
  BY <1>6, <1>8
<1>11. QED
  BY <1>7, <1>9, <1>10 DEF Recoverable, kept

\* So is what the directory of a closed store holds.
LEMMA RestoredIsRecoverable ==
    ASSUME NEW d, IsDirectory(d), NEW all,
           \A t \in DOMAIN d : d[t] \subseteq Range(all)
    PROVE  Recoverable(Restored(d), all)
<1>1. PICK runs \in Found(d) : Restored(d) = KeptOf(runs)
  BY FoundExists DEF Restored
<1>2. Recoverable(KeptOf(runs), all)
  BY KeptIsRecoverable
<1>3. QED
  BY <1>1, <1>2

\* An empty directory holds no run.
LEMMA InitialRefines == Init => Log!Init
<1> SUFFICES ASSUME Init
             PROVE  Log!Init
  OBVIOUS
<1>1. IsDirectory(disk) /\ Readable(disk) = {}
  BY DEF Init, IsDirectory, Readable
<1>2. PICK runs \in Found(disk) : Restored(disk) = KeptOf(runs)
  BY <1>1, FoundExists DEF Restored
<1>3. runs \in Seq(Run)
  BY <1>1, FoundRuns
<1>4. \A i \in 1..Len(runs) : runs[i].at \in Readable(disk)
  BY <1>1, FoundRuns
<1>5. Len(runs) = 0
  BY <1>1, <1>3, <1>4, LenProperties
<1>6. /\ KeptOf(runs) \in Seq(Run)
      /\ Len(KeptOf(runs)) = IF Len(runs) > Limit THEN Limit ELSE Len(runs)
  BY <1>3, KeptAreTheLast
<1>7. KeptOf(runs) = <<>>
  BY <1>5, <1>6, LimitAssumption, EmptySeq
<1>8. QED
  BY <1>2, <1>7 DEF Log!Init, Shown, Init

\* Every step records a run, recovers, or leaves the log alone.
LEMMA StepRefines ==
    Inv /\ Inv' /\ [Next]_vars => [Log!Record \/ Log!Recover]_<<past, Shown>>
<1> SUFFICES ASSUME Inv, Inv', [Next]_vars
             PROVE  Log!Record \/ Log!Recover \/ UNCHANGED <<past, Shown>>
  OBVIOUS
<1>1. ASSUME Recoverable(Shown', past'),
             past' = past \/ \E r \in Run : past' = Append(past, r)
      PROVE  Log!Recover
  <2>1. Log!Range(past') = Range(past')
    BY DEF Log!Range, Range
  <2>2. Log!Run = Run
    BY DEF Log!Run, Log!Reports, Run, Reports
  <2>3. \E k \in 0..Limit : \E found \in [1..k -> Log!Range(past')] :
           /\ \A i, j \in 1..k : i < j => found[i].at < found[j].at
           /\ Shown' = found
    BY <1>1, <2>1 DEF Recoverable
  <2>4. QED
    BY <1>1, <2>2, <2>3 DEF Log!Recover
\* A closed store shows its directory.
<1>2. ASSUME ~up'
      PROVE  Recoverable(Shown', past')
  <2>1. IsDirectory(disk') /\ \A t \in DOMAIN disk' : disk'[t] \subseteq Range(past')
    BY DEF Inv, FilesAreRecorded
  <2>2. Recoverable(Restored(disk'), past')
    BY <2>1, RestoredIsRecoverable
  <2>3. QED
    BY <1>2, <2>2 DEF Shown
<1>3. CASE Open
  <2>1. IsDirectory(disk) /\ \A t \in DOMAIN disk : disk[t] \subseteq Range(past)
    BY DEF Inv, FilesAreRecorded
  <2>2. PICK runs \in Found(disk) : entries' = KeptOf(runs)
    BY <1>3 DEF Open
  <2>3. Recoverable(KeptOf(runs), past)
    BY <2>1, KeptIsRecoverable
  <2>4. Shown' = KeptOf(runs) /\ past' = past
    BY <1>3, <2>2 DEF Open, Shown
  <2>5. QED
    BY <1>1, <2>3, <2>4
<1>4. CASE OpenInMemory
  <2>1. Shown' = <<>> /\ past' = past
    BY <1>4 DEF OpenInMemory, Shown, Inv, ClosedIsEmpty, memory
  <2>2. /\ 0 \in 0..Limit /\ <<>> \in [1..0 -> Range(past)]
        /\ \A i \in 1..0 : FALSE
    BY LimitAssumption
  <2>3. Recoverable(<<>>, past)
    BY <2>2 DEF Recoverable
  <2>4. QED
    BY <1>1, <2>1, <2>3
<1>5. CASE Crash \/ CrashWhileOpening
  <2>1. ~up' /\ past' = past
    BY <1>5 DEF Crash, Dead, CrashWhileOpening
  <2>2. QED
    BY <1>1, <1>2, <2>1
<1>6. ASSUME NEW p \in Scanners, CrashWhileAppending(p)
      PROVE  Log!Recover
  <2>1. PICK r \in scan[p] : past' = Append(past, r)
    BY <1>6 DEF CrashWhileAppending
  <2>2. r \in Run
    BY <2>1 DEF Inv, TypeOK, Maybe
  <2>3. ~up'
    BY <1>6 DEF CrashWhileAppending, Dead
  <2>4. QED
    BY <1>1, <1>2, <2>1, <2>2, <2>3
<1>7. ASSUME NEW p \in Scanners,
             AppendRun(p) \/ AppendUnwritten(p) \/ AppendTorn(p)
      PROVE  Log!Record
  <2>1. PICK r \in scan[p] : Recorded(p, r) /\ entries' = Push(entries, r)
    BY <1>7 DEF AppendRun, AppendUnwritten, AppendTorn, push
  <2>2. r \in Run /\ past' = Append(past, r)
    BY <2>1 DEF Inv, TypeOK, Maybe, Recorded
  <2>3. up /\ up'
    BY <1>7 DEF AppendRun, AppendUnwritten, AppendTorn
  <2>4. Shown = entries /\ Shown' = entries'
    BY <2>3 DEF Shown
  <2>5. QED
    BY <2>1, <2>2, <2>4 DEF Log!Record, Log!Run, Log!Reports, Log!Push, Run, Reports, Push
<1>8. CASE \E p \in Scanners : Generate(p)
  BY <1>8 DEF Generate, memory, Shown
<1>9. CASE UNCHANGED vars
  BY <1>9 DEF vars, memory, Shown
<1>10. QED
  BY <1>3, <1>4, <1>5, <1>6, <1>7, <1>8, <1>9 DEF Next

\* The store keeps its promise to Server and Manager: its log is the runs recorded
\* last, and after a crash at any point some of them, in the order they were
\* generated, and never a run that was not recorded.
THEOREM LogIsImplemented == Spec => ImplementsLog
<1>1. Init => Log!Init
  BY InitialRefines
<1>2. Inv /\ Inv' /\ [Next]_vars => [Log!Record \/ Log!Recover]_<<past, Shown>>
  BY StepRefines
<1>3. QED
  BY <1>1, <1>2, InvHolds, PTL DEF Spec, ImplementsLog, Log!Spec
=============================================================================
