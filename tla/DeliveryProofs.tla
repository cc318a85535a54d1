--------------------------- MODULE DeliveryProofs ---------------------------
(***************************************************************************)
(* Delivery for any clusters, jobs, configured targets and bounds.         *)
(***************************************************************************)
EXTENDS Delivery, TLAPS

\* What a job may hold of a digest.
Digests == UNION {[D -> Row] : D \in SUBSET Clusters}

Places == {"idle", "statuses", "history", "diff", "deliver", "count"}

Types ==
    /\ present \in SUBSET Clusters
    /\ history \in [Clusters -> Runs] /\ shown \in [Clusters -> Runs]
    /\ pc \in [Jobs -> Places]
    /\ rows \in [Jobs -> Digests]
    /\ unread \in [Jobs -> SUBSET Clusters] /\ current \in [Jobs -> SUBSET Clusters]
    /\ tried \in [Jobs -> SUBSET Configured] /\ served \in [Jobs -> SUBSET Configured]
    /\ failed \in [Jobs -> BOOLEAN]
    /\ counters \in [deliveries : 0..MaxDeliveries, errors : 0..MaxDeliveries]
    /\ disturbed \in [Jobs -> SUBSET Clusters]
    /\ incomplete \in 0..MaxDeliveries

\* Where a job stands says what it holds of the digest,
Reading ==
    \A j \in Jobs :
        /\ current[j] \subseteq unread[j] /\ unread[j] \subseteq DOMAIN rows[j]
        /\ \A c, d \in current[j] : c = d
        /\ pc[j] \notin {"history", "diff"} => DOMAIN rows[j] = {}
        /\ pc[j] # "diff" => current[j] = {}

\* and how its delivery went so far: an error is due exactly when a target was
\* missed.
Delivering ==
    \A j \in Jobs :
        /\ served[j] \subseteq tried[j]
        /\ pc[j] \notin {"deliver", "count"} => tried[j] = {} /\ ~failed[j]
        /\ pc[j] = "deliver" => (failed[j] <=> served[j] # tried[j])
        /\ pc[j] = "count" =>
              tried[j] \in {{}, Configured} /\ (failed[j] <=> served[j] # Configured)

\* The report shown is the newest run of the history, or there is none yet.
ShownIsNewest ==
    \A c \in Clusters : shown[c] \in {0, history[c]} /\ (c \notin present => shown[c] = 0)

\* c's movement is in job j's digest.
Moved(j, c) == c \notin unread[j] \/ c \in current[j]

\* The row of a cluster that nothing happened to is what a read would give now.
RowsAreCurrent ==
    \A j \in Jobs : \A c \in DOMAIN rows[j] \ disturbed[j] :
        /\ c \in present
        /\ rows[j][c].score = shown[c]
        /\ Moved(j, c) => rows[j][c].delta = Movement(c)
        /\ c \notin unread[j] => rows[j][c].new = Movement(c)

\* Whatever happened, a row's parts are in the order they were read in, and not
\* ahead of the history.
RowsAreOrdered ==
    \A j \in Jobs : \A c \in DOMAIN rows[j] :
        /\ rows[j][c].score <= history[c] /\ rows[j][c].delta <= history[c]
        /\ Moved(j, c) => rows[j][c].delta = 0 \/ rows[j][c].score <= rows[j][c].delta
        /\ c \notin unread[j] => rows[j][c].new = 0 \/ rows[j][c].delta <= rows[j][c].new

Counted ==
    counters.errors = incomplete /\ counters.errors <= counters.deliveries

Inv ==
    /\ Types
    /\ Reading
    /\ Delivering
    /\ ShownIsNewest
    /\ RowsAreCurrent
    /\ RowsAreOrdered
    /\ Counted
-----------------------------------------------------------------------------
LEMMA DigestRows ==
    ASSUME NEW rs \in Digests
    PROVE  /\ DOMAIN rs \subseteq Clusters
           /\ rs \in [DOMAIN rs -> Row]
           /\ \A c \in DOMAIN rs : rs[c] \in Row
BY DEF Digests

LEMMA EmptyDigest == <<>> \in Digests /\ DOMAIN <<>> = {}
<1>1. <<>> \in [{} -> Row] /\ {} \in SUBSET Clusters
  OBVIOUS
<1>2. QED
  BY <1>1 DEF Digests

LEMMA Bounds ==
    /\ MaxRuns \in Nat /\ MaxRuns >= 2 /\ MaxDeliveries \in Nat
    /\ Configured \subseteq Targets /\ Configured # {}
    /\ \A n \in Runs : n \in Nat /\ n <= MaxRuns
    /\ \A row \in Row : row.score \in Runs /\ row.delta \in Runs /\ row.new \in Runs
BY DeliveryAssumption DEF Runs, Row

LEMMA MovementType ==
    ASSUME history \in [Clusters -> Runs], NEW c \in Clusters
    PROVE  /\ Movement(c) \in Runs
           /\ Movement(c) = 0 \/ Movement(c) = history[c]
BY Bounds DEF Movement, Runs

\* One part of one row is filled in.
LEMMA DeltaFilledIn ==
    ASSUME Types, NEW j \in Jobs, NEW c \in DOMAIN rows[j], NEW n \in Runs,
           rows' = [rows EXCEPT ![j][c].delta = n]
    PROVE  /\ rows' \in [Jobs -> Digests]
           /\ \A k \in Jobs : DOMAIN rows'[k] = DOMAIN rows[k]
           /\ \A k \in Jobs : \A d \in DOMAIN rows[k] :
                 (k # j \/ d # c) => rows'[k][d] = rows[k][d]
           /\ rows'[j][c].score = rows[j][c].score
           /\ rows'[j][c].delta = n
           /\ rows'[j][c].new = rows[j][c].new
<1>1. rows \in [Jobs -> Digests]
  BY DEF Types
<1> DEFINE rs == [rows[j] EXCEPT ![c].delta = n]
<1>2. rows' = [rows EXCEPT ![j] = rs]
  OBVIOUS
<1>3. rows[j] \in [DOMAIN rows[j] -> Row] /\ DOMAIN rows[j] \subseteq Clusters
  BY <1>1, DigestRows
<1>4. rows[j][c] \in [score : Runs, delta : Runs, new : Runs]
  BY <1>3 DEF Row
<1>5. /\ DOMAIN rs = DOMAIN rows[j]
      /\ \A d \in DOMAIN rows[j] : d # c => rs[d] = rows[j][d]
      /\ rs[c].score = rows[j][c].score /\ rs[c].delta = n /\ rs[c].new = rows[j][c].new
      /\ rs[c] \in [score : Runs, delta : Runs, new : Runs]
  BY <1>3, <1>4
<1>6. rs \in [DOMAIN rows[j] -> Row]
  BY <1>3, <1>5 DEF Row
<1>7. rs \in Digests
  BY <1>3, <1>6 DEF Digests
<1> HIDE DEF rs
<1>8. rows'[j] = rs /\ \A k \in Jobs : k # j => rows'[k] = rows[k]
  BY <1>1, <1>2
<1>9. rows' \in [Jobs -> Digests]
  BY <1>1, <1>2, <1>7
<1>10. QED
  BY <1>5, <1>8, <1>9

LEMMA NewFilledIn ==
    ASSUME Types, NEW j \in Jobs, NEW c \in DOMAIN rows[j], NEW n \in Runs,
           rows' = [rows EXCEPT ![j][c].new = n]
    PROVE  /\ rows' \in [Jobs -> Digests]
           /\ \A k \in Jobs : DOMAIN rows'[k] = DOMAIN rows[k]
           /\ \A k \in Jobs : \A d \in DOMAIN rows[k] :
                 (k # j \/ d # c) => rows'[k][d] = rows[k][d]
           /\ rows'[j][c].score = rows[j][c].score
           /\ rows'[j][c].delta = rows[j][c].delta
           /\ rows'[j][c].new = n
<1>1. rows \in [Jobs -> Digests]
  BY DEF Types
<1> DEFINE rs == [rows[j] EXCEPT ![c].new = n]
<1>2. rows' = [rows EXCEPT ![j] = rs]
  OBVIOUS
<1>3. rows[j] \in [DOMAIN rows[j] -> Row] /\ DOMAIN rows[j] \subseteq Clusters
  BY <1>1, DigestRows
<1>4. rows[j][c] \in [score : Runs, delta : Runs, new : Runs]
  BY <1>3 DEF Row
<1>5. /\ DOMAIN rs = DOMAIN rows[j]
      /\ \A d \in DOMAIN rows[j] : d # c => rs[d] = rows[j][d]
      /\ rs[c].score = rows[j][c].score /\ rs[c].delta = rows[j][c].delta /\ rs[c].new = n
      /\ rs[c] \in [score : Runs, delta : Runs, new : Runs]
  BY <1>3, <1>4
<1>6. rs \in [DOMAIN rows[j] -> Row]
  BY <1>3, <1>5 DEF Row
<1>7. rs \in Digests
  BY <1>3, <1>6 DEF Digests
<1> HIDE DEF rs
<1>8. rows'[j] = rs /\ \A k \in Jobs : k # j => rows'[k] = rows[k]
  BY <1>1, <1>2
<1>9. rows' \in [Jobs -> Digests]
  BY <1>1, <1>2, <1>7
<1>10. QED
  BY <1>5, <1>8, <1>9
-----------------------------------------------------------------------------
LEMMA InitInv == Init => Inv
<1> SUFFICES ASSUME Init
             PROVE  Inv
  OBVIOUS
<1> USE DEF Init
<1>1. Types
  <2>1. <<>> \in Digests
    BY EmptyDigest
  <2>2. history \in [Clusters -> Runs] /\ shown \in [Clusters -> Runs]
    BY Bounds DEF Runs
  <2>3. counters \in [deliveries : 0..MaxDeliveries, errors : 0..MaxDeliveries]
        /\ incomplete \in 0..MaxDeliveries
    BY Bounds
  <2>4. rows \in [Jobs -> Digests]
    BY <2>1
  <2>5. pc \in [Jobs -> Places]
    BY DEF Places
  <2>6. QED
    BY <2>2, <2>3, <2>4, <2>5 DEF Types
<1>2. \A j \in Jobs : DOMAIN rows[j] = {}
  BY EmptyDigest
<1>3. Reading /\ Delivering
  BY <1>2 DEF Reading, Delivering
<1>4. ShownIsNewest
  BY DEF ShownIsNewest
<1>5. RowsAreCurrent /\ RowsAreOrdered
  BY <1>2 DEF RowsAreCurrent, RowsAreOrdered
<1>6. Counted
  BY DEF Counted
<1>7. QED
  BY <1>1, <1>3, <1>4, <1>5, <1>6 DEF Inv

\* The fleet moves on under the jobs' eyes.
LEMMA FleetInv ==
    ASSUME Inv, NEW c \in Clusters, StoreReport(c) \/ Drop(c) \/ Track(c)
    PROVE  Inv'
<1>1. /\ UNCHANGED <<job, counters, incomplete>> /\ Disturb(c)
      /\ present' \in SUBSET Clusters
      /\ \A d \in Clusters : d # c => (d \in present' <=> d \in present)
  BY DEF StoreReport, Drop, Track, Inv, Types
<1>2. /\ history' \in [Clusters -> Runs] /\ shown' \in [Clusters -> Runs]
      /\ \A d \in Clusters : history[d] <= history'[d]
      /\ \A d \in Clusters : d # c => history'[d] = history[d] /\ shown'[d] = shown[d]
      /\ shown'[c] \in {0, history'[c]} /\ (c \notin present' => shown'[c] = 0)
  <2>1. /\ history \in [Clusters -> Runs] /\ shown \in [Clusters -> Runs]
        /\ \A d \in Clusters : history[d] \in Nat
    BY Bounds DEF Inv, Types
  <2>2. CASE StoreReport(c)
    <3>1. history[c] + 1 \in Runs
      BY <2>1, <2>2, Bounds DEF StoreReport, Runs
    <3>2. QED
      BY <2>1, <2>2, <3>1 DEF StoreReport
  <2>3. CASE Drop(c)
    <3>1. 0 \in Runs
      BY Bounds DEF Runs
    <3>2. QED
      BY <2>1, <2>3, <3>1 DEF Drop
  <2>4. CASE Track(c)
    BY <2>1, <2>4 DEF Track, Inv, ShownIsNewest
  <2>5. QED
    BY <2>2, <2>3, <2>4
<1>3. /\ disturbed' \in [Jobs -> SUBSET Clusters]
      /\ \A j \in Jobs : disturbed[j] \subseteq disturbed'[j]
      /\ \A j \in Jobs : c \in DOMAIN rows[j] => c \in disturbed'[j]
  BY <1>1 DEF Disturb, Inv, Types
<1>4. /\ pc' = pc /\ rows' = rows /\ unread' = unread /\ current' = current
      /\ tried' = tried /\ served' = served /\ failed' = failed
      /\ counters' = counters /\ incomplete' = incomplete
  BY <1>1 DEF job
<1>5. Types'
  BY <1>1, <1>2, <1>3, <1>4 DEF Inv, Types
<1>6. Reading' /\ Delivering' /\ Counted'
  BY <1>4 DEF Inv, Reading, Delivering, Counted
<1>7. ShownIsNewest'
  BY <1>1, <1>2 DEF Inv, ShownIsNewest
<1>8. \A j \in Jobs : \A d \in DOMAIN rows[j] : d \in Clusters /\ rows[j][d] \in Row
  BY DigestRows DEF Inv, Types
<1>9. RowsAreCurrent'
  <2> SUFFICES ASSUME NEW j \in Jobs, NEW d \in DOMAIN rows[j], d \notin disturbed'[j]
               PROVE  /\ d \in present'
                      /\ rows[j][d].score = shown'[d]
                      /\ Moved(j, d) => rows[j][d].delta = Movement(d)'
                      /\ d \notin unread[j] => rows[j][d].new = Movement(d)'
    BY <1>4 DEF RowsAreCurrent, Moved
  <2>1. d # c /\ d \notin disturbed[j] /\ d \in Clusters
    BY <1>3, <1>8
  <2>2. Movement(d)' = Movement(d)
    BY <1>1, <1>2, <2>1 DEF Movement
  <2>3. QED
    BY <1>1, <1>2, <2>1, <2>2 DEF Inv, RowsAreCurrent
<1>10. RowsAreOrdered'
  <2> SUFFICES ASSUME NEW j \in Jobs, NEW d \in DOMAIN rows[j]
               PROVE  /\ rows[j][d].score <= history'[d] /\ rows[j][d].delta <= history'[d]
                      /\ Moved(j, d) => \/ rows[j][d].delta = 0
                                        \/ rows[j][d].score <= rows[j][d].delta
                      /\ d \notin unread[j] => \/ rows[j][d].new = 0
                                               \/ rows[j][d].delta <= rows[j][d].new
    BY <1>4 DEF RowsAreOrdered, Moved
  <2>1. /\ rows[j][d].score \in Nat /\ rows[j][d].delta \in Nat /\ d \in Clusters
        /\ history[d] \in Nat /\ history'[d] \in Nat
    BY <1>2, <1>8, Bounds DEF Inv, Types
  <2>2. /\ rows[j][d].score <= history[d] /\ rows[j][d].delta <= history[d]
        /\ history[d] <= history'[d]
    BY <1>2, <2>1 DEF Inv, RowsAreOrdered
  <2>3. QED
    BY <2>1, <2>2 DEF Inv, RowsAreOrdered
<1>11. QED
  BY <1>5, <1>6, <1>7, <1>9, <1>10 DEF Inv

\* Steps that leave the fleet and every digest alone.
LEMMA SameRows ==
    ASSUME Inv, UNCHANGED <<fleet, rows, unread, current, disturbed>>
    PROVE  ShownIsNewest' /\ RowsAreCurrent' /\ RowsAreOrdered'
<1>1. /\ present' = present /\ history' = history /\ shown' = shown /\ rows' = rows
      /\ unread' = unread /\ current' = current /\ disturbed' = disturbed
  BY DEF fleet
<1>2. ShownIsNewest'
  BY <1>1 DEF Inv, ShownIsNewest
<1>3. RowsAreCurrent'
  BY <1>1 DEF Inv, RowsAreCurrent, Moved, Movement
<1>4. RowsAreOrdered'
  BY <1>1 DEF Inv, RowsAreOrdered, Moved
<1>5. QED
  BY <1>2, <1>3, <1>4

\* cron starts a job.
LEMMA FireInv ==
    ASSUME Inv, NEW j \in Jobs, Fire(j)
    PROVE  Inv'
<1>1. /\ pc' = [pc EXCEPT ![j] = "statuses"] /\ pc[j] = "idle"
      /\ UNCHANGED <<fleet, rows, unread, current, tried, failed, counters, served,
                     disturbed, incomplete>>
  BY DEF Fire
<1>2. Types'
  BY <1>1 DEF Inv, Types, Places, fleet
<1>3. /\ pc'[j] = "statuses" /\ \A k \in Jobs : k # j => pc'[k] = pc[k]
  BY <1>1 DEF Inv, Types
<1>4. Reading'
  BY <1>1, <1>3 DEF Inv, Reading
<1>5. Delivering'
  BY <1>1, <1>3 DEF Inv, Delivering
<1>6. ShownIsNewest' /\ RowsAreCurrent' /\ RowsAreOrdered'
  BY <1>1, SameRows
<1>7. Counted'
  BY <1>1 DEF Inv, Counted
<1>8. QED
  BY <1>2, <1>4, <1>5, <1>6, <1>7 DEF Inv

\* The statuses start a digest.
LEMMA ReadStatusesInv ==
    ASSUME Inv, NEW j \in Jobs, ReadStatuses(j)
    PROVE  Inv'
<1> DEFINE start == [c \in present |-> [score |-> shown[c], delta |-> 0, new |-> 0]]
<1>1. /\ pc[j] = "statuses" /\ pc' = [pc EXCEPT ![j] = "history"]
      /\ rows' = [rows EXCEPT ![j] = start] /\ unread' = [unread EXCEPT ![j] = present]
      /\ UNCHANGED <<fleet, current, tried, failed, counters, served, disturbed,
                     incomplete>>
  BY DEF ReadStatuses
<1>2. /\ present \in SUBSET Clusters /\ shown \in [Clusters -> Runs]
      /\ \A c \in Clusters : shown[c] <= history[c] /\ 0 <= history[c]
  BY Bounds DEF Inv, Types, ShownIsNewest
<1>3. start \in [present -> Row]
  BY <1>2, Bounds DEF Row, Runs
<1>4. start \in Digests
  BY <1>2, <1>3 DEF Digests
<1>5. /\ DOMAIN start = present
      /\ \A c \in present :
            start[c].score = shown[c] /\ start[c].delta = 0 /\ start[c].new = 0
  OBVIOUS
<1> HIDE DEF start
<1>6. /\ pc'[j] = "history" /\ rows'[j] = start /\ unread'[j] = present
      /\ \A k \in Jobs : k # j =>
            pc'[k] = pc[k] /\ rows'[k] = rows[k] /\ unread'[k] = unread[k]
  BY <1>1 DEF Inv, Types
<1>7. /\ present' = present /\ history' = history /\ shown' = shown
      /\ current' = current /\ disturbed' = disturbed /\ current[j] = {}
  BY <1>1 DEF Inv, Reading, fleet
<1>8. Types'
  <2>1. pc' \in [Jobs -> Places] /\ unread' \in [Jobs -> SUBSET Clusters]
    BY <1>1, <1>2 DEF Inv, Types, Places
  <2>2. rows' \in [Jobs -> Digests]
    BY <1>1, <1>4 DEF Inv, Types
  <2>3. QED
    BY <1>1, <1>7, <2>1, <2>2 DEF Inv, Types
<1>9. Reading'
  BY <1>5, <1>6, <1>7 DEF Inv, Reading
<1>10. Delivering'
  BY <1>1, <1>6 DEF Inv, Delivering
<1>11. ShownIsNewest'
  BY <1>7 DEF Inv, ShownIsNewest
<1>12. RowsAreCurrent'
  <2> SUFFICES ASSUME NEW k \in Jobs, NEW c \in DOMAIN rows'[k] \ disturbed[k]
               PROVE  /\ c \in present
                      /\ rows'[k][c].score = shown[c]
                      /\ Moved(k, c)' => rows'[k][c].delta = Movement(c)
                      /\ c \notin unread'[k] => rows'[k][c].new = Movement(c)
    BY <1>7 DEF RowsAreCurrent, Movement
  <2>1. CASE k = j
    BY <1>5, <1>6, <1>7, <2>1 DEF Moved
  <2>2. CASE k # j
    BY <1>6, <1>7, <2>2 DEF Inv, RowsAreCurrent, Moved
  <2>3. QED
    BY <2>1, <2>2
<1>13. RowsAreOrdered'
  <2> SUFFICES ASSUME NEW k \in Jobs, NEW c \in DOMAIN rows'[k]
               PROVE  /\ rows'[k][c].score <= history[c] /\ rows'[k][c].delta <= history[c]
                      /\ Moved(k, c)' => \/ rows'[k][c].delta = 0
                                         \/ rows'[k][c].score <= rows'[k][c].delta
                      /\ c \notin unread'[k] => \/ rows'[k][c].new = 0
                                                \/ rows'[k][c].delta <= rows'[k][c].new
    BY <1>7 DEF RowsAreOrdered
  <2>1. CASE k = j
    BY <1>2, <1>5, <1>6, <1>7, <2>1 DEF Moved
  <2>2. CASE k # j
    BY <1>6, <1>7, <2>2 DEF Inv, RowsAreOrdered, Moved
  <2>3. QED
    BY <2>1, <2>2
<1>14. Counted'
  BY <1>1 DEF Inv, Counted
<1>15. QED
  BY <1>8, <1>9, <1>10, <1>11, <1>12, <1>13, <1>14 DEF Inv

\* A cluster's movement is read.
LEMMA ReadHistoryInv ==
    ASSUME Inv, NEW j \in Jobs, NEW c \in Clusters, ReadHistory(j, c)
    PROVE  Inv'
<1>1. /\ pc[j] = "history" /\ c \in unread[j]
      /\ pc' = [pc EXCEPT ![j] = "diff"]
      /\ rows' = [rows EXCEPT ![j][c].delta = Movement(c)]
      /\ current' = [current EXCEPT ![j] = {c}]
      /\ UNCHANGED <<fleet, unread, tried, failed, counters, served, disturbed, incomplete>>
  BY DEF ReadHistory
<1>2. /\ Movement(c) \in Runs /\ (Movement(c) = 0 \/ Movement(c) = history[c])
      /\ history[c] \in Nat
  BY MovementType, Bounds DEF Inv, Types
<1>3. c \in DOMAIN rows[j] /\ current[j] = {}
  BY <1>1 DEF Inv, Reading
<1>4. /\ rows' \in [Jobs -> Digests]
      /\ \A k \in Jobs : DOMAIN rows'[k] = DOMAIN rows[k]
      /\ \A k \in Jobs : \A d \in DOMAIN rows[k] :
            (k # j \/ d # c) => rows'[k][d] = rows[k][d]
      /\ rows'[j][c].score = rows[j][c].score
      /\ rows'[j][c].delta = Movement(c)
      /\ rows'[j][c].new = rows[j][c].new
  BY <1>1, <1>2, <1>3, DeltaFilledIn DEF Inv
<1>5. /\ pc'[j] = "diff" /\ current'[j] = {c}
      /\ \A k \in Jobs : k # j => pc'[k] = pc[k] /\ current'[k] = current[k]
  BY <1>1 DEF Inv, Types
<1>6. /\ present' = present /\ history' = history /\ shown' = shown
      /\ unread' = unread /\ disturbed' = disturbed
  BY <1>1 DEF fleet
<1>7. Types'
  <2>1. pc' \in [Jobs -> Places] /\ current' \in [Jobs -> SUBSET Clusters]
    BY <1>1 DEF Inv, Types, Places
  <2>2. QED
    BY <1>1, <1>4, <1>6, <2>1 DEF Inv, Types
<1>8. Reading'
  BY <1>1, <1>4, <1>5, <1>6 DEF Inv, Reading
<1>9. Delivering'
  BY <1>1, <1>5 DEF Inv, Delivering
<1>10. ShownIsNewest' /\ Counted'
  BY <1>1, <1>6 DEF Inv, ShownIsNewest, Counted
\* Only this row's movement becomes visible.
<1>11. \A k \in Jobs : \A d : (k # j \/ d # c) => (Moved(k, d)' => Moved(k, d))
  BY <1>3, <1>5, <1>6 DEF Moved
<1>12. RowsAreCurrent'
  <2> SUFFICES ASSUME NEW k \in Jobs, NEW d \in DOMAIN rows[k] \ disturbed[k]
               PROVE  /\ d \in present
                      /\ rows'[k][d].score = shown[d]
                      /\ Moved(k, d)' => rows'[k][d].delta = Movement(d)
                      /\ d \notin unread[k] => rows'[k][d].new = Movement(d)
    BY <1>4, <1>6 DEF RowsAreCurrent, Movement
  <2>1. CASE k = j /\ d = c
    BY <1>1, <1>4, <2>1 DEF Inv, RowsAreCurrent
  <2>2. CASE k # j \/ d # c
    BY <1>4, <1>11, <2>2 DEF Inv, RowsAreCurrent
  <2>3. QED
    BY <2>1, <2>2
<1>13. RowsAreOrdered'
  <2> SUFFICES ASSUME NEW k \in Jobs, NEW d \in DOMAIN rows[k]
               PROVE  /\ rows'[k][d].score <= history[d] /\ rows'[k][d].delta <= history[d]
                      /\ Moved(k, d)' => \/ rows'[k][d].delta = 0
                                         \/ rows'[k][d].score <= rows'[k][d].delta
                      /\ d \notin unread[k] => \/ rows'[k][d].new = 0
                                               \/ rows'[k][d].delta <= rows'[k][d].new
    BY <1>4, <1>6 DEF RowsAreOrdered
  <2>1. CASE k = j /\ d = c
    <3>1. rows[j][c].score <= history[c]
      BY <1>3 DEF Inv, RowsAreOrdered
    <3>2. Movement(c) <= history[c]
      BY <1>2
    <3>3. QED
      BY <1>1, <1>2, <1>4, <2>1, <3>1, <3>2
  <2>2. CASE k # j \/ d # c
    BY <1>4, <1>11, <2>2 DEF Inv, RowsAreOrdered
  <2>3. QED
    BY <2>1, <2>2
<1>14. QED
  BY <1>7, <1>8, <1>9, <1>10, <1>12, <1>13 DEF Inv

\* A cluster's new criticals are read.
LEMMA ReadDiffInv ==
    ASSUME Inv, NEW j \in Jobs, NEW c \in Clusters, ReadDiff(j, c)
    PROVE  Inv'
<1>1. /\ pc[j] = "diff" /\ c \in current[j]
      /\ pc' = [pc EXCEPT ![j] = "history"]
      /\ rows' = [rows EXCEPT ![j][c].new = Movement(c)]
      /\ unread' = [unread EXCEPT ![j] = @ \ {c}]
      /\ current' = [current EXCEPT ![j] = {}]
      /\ UNCHANGED <<fleet, tried, failed, counters, served, disturbed, incomplete>>
  BY DEF ReadDiff
<1>2. /\ Movement(c) \in Runs /\ (Movement(c) = 0 \/ Movement(c) = history[c])
      /\ history[c] \in Nat
  BY MovementType, Bounds DEF Inv, Types
<1>3. c \in DOMAIN rows[j] /\ c \in unread[j] /\ \A d \in current[j] : d = c
  BY <1>1 DEF Inv, Reading
<1>4. /\ rows' \in [Jobs -> Digests]
      /\ \A k \in Jobs : DOMAIN rows'[k] = DOMAIN rows[k]
      /\ \A k \in Jobs : \A d \in DOMAIN rows[k] :
            (k # j \/ d # c) => rows'[k][d] = rows[k][d]
      /\ rows'[j][c].score = rows[j][c].score
      /\ rows'[j][c].delta = rows[j][c].delta
      /\ rows'[j][c].new = Movement(c)
  BY <1>1, <1>2, <1>3, NewFilledIn DEF Inv
<1>5. /\ pc'[j] = "history" /\ current'[j] = {} /\ unread'[j] = unread[j] \ {c}
      /\ \A k \in Jobs : k # j =>
            pc'[k] = pc[k] /\ current'[k] = current[k] /\ unread'[k] = unread[k]
  BY <1>1 DEF Inv, Types
<1>6. present' = present /\ history' = history /\ shown' = shown /\ disturbed' = disturbed
  BY <1>1 DEF fleet
<1>7. Types'
  <2>1. /\ pc' \in [Jobs -> Places] /\ current' \in [Jobs -> SUBSET Clusters]
        /\ unread' \in [Jobs -> SUBSET Clusters]
    BY <1>1 DEF Inv, Types, Places
  <2>2. QED
    BY <1>1, <1>4, <1>6, <2>1 DEF Inv, Types
<1>8. Reading'
  BY <1>1, <1>4, <1>5 DEF Inv, Reading
<1>9. Delivering'
  BY <1>1, <1>5 DEF Inv, Delivering
<1>10. ShownIsNewest' /\ Counted'
  BY <1>1, <1>6 DEF Inv, ShownIsNewest, Counted
<1>11. /\ \A k \in Jobs : \A d : Moved(k, d)' => Moved(k, d)
       /\ \A k \in Jobs : \A d : (k # j \/ d # c) => (d \in unread'[k] <=> d \in unread[k])
       /\ Moved(j, c)
  BY <1>1, <1>3, <1>5 DEF Moved
<1>12. RowsAreCurrent'
  <2> SUFFICES ASSUME NEW k \in Jobs, NEW d \in DOMAIN rows[k] \ disturbed[k]
               PROVE  /\ d \in present
                      /\ rows'[k][d].score = shown[d]
                      /\ Moved(k, d)' => rows'[k][d].delta = Movement(d)
                      /\ d \notin unread'[k] => rows'[k][d].new = Movement(d)
    BY <1>4, <1>6 DEF RowsAreCurrent, Movement
  <2>1. CASE k = j /\ d = c
    BY <1>4, <1>11, <2>1 DEF Inv, RowsAreCurrent
  <2>2. CASE k # j \/ d # c
    BY <1>4, <1>11, <2>2 DEF Inv, RowsAreCurrent
  <2>3. QED
    BY <2>1, <2>2
<1>13. RowsAreOrdered'
  <2> SUFFICES ASSUME NEW k \in Jobs, NEW d \in DOMAIN rows[k]
               PROVE  /\ rows'[k][d].score <= history[d] /\ rows'[k][d].delta <= history[d]
                      /\ Moved(k, d)' => \/ rows'[k][d].delta = 0
                                         \/ rows'[k][d].score <= rows'[k][d].delta
                      /\ d \notin unread'[k] => \/ rows'[k][d].new = 0
                                                \/ rows'[k][d].delta <= rows'[k][d].new
    BY <1>4, <1>6 DEF RowsAreOrdered
  <2>1. CASE k = j /\ d = c
    <3>1. /\ rows[j][c].score <= history[c] /\ rows[j][c].delta <= history[c]
          /\ rows[j][c].delta = 0 \/ rows[j][c].score <= rows[j][c].delta
      BY <1>3, <1>11 DEF Inv, RowsAreOrdered
    <3>2. QED
      BY <1>2, <1>4, <2>1, <3>1
  <2>2. CASE k # j \/ d # c
    BY <1>4, <1>11, <2>2 DEF Inv, RowsAreOrdered
  <2>3. QED
    BY <2>1, <2>2
<1>14. QED
  BY <1>7, <1>8, <1>9, <1>10, <1>12, <1>13 DEF Inv

\* The digest is rendered, or is not, and given up.
LEMMA RenderInv ==
    ASSUME Inv, NEW j \in Jobs, Render(j) \/ RenderFails(j)
    PROVE  Inv'
<1>1. /\ pc[j] = "history" /\ unread[j] = {}
      /\ rows' = [rows EXCEPT ![j] = <<>>]
      /\ disturbed' = [disturbed EXCEPT ![j] = {}]
      /\ UNCHANGED <<fleet, unread, current, tried, counters, served, incomplete>>
      /\ \/ pc' = [pc EXCEPT ![j] = "deliver"] /\ failed' = failed
         \/ pc' = [pc EXCEPT ![j] = "count"] /\ failed' = [failed EXCEPT ![j] = TRUE]
  BY DEF Render, RenderFails
<1>2. <<>> \in Digests /\ DOMAIN <<>> = {}
  BY EmptyDigest
<1>3. /\ rows'[j] = <<>> /\ pc'[j] \in {"deliver", "count"}
      /\ \A k \in Jobs : k # j =>
            /\ pc'[k] = pc[k] /\ rows'[k] = rows[k] /\ disturbed'[k] = disturbed[k]
            /\ failed'[k] = failed[k]
      /\ pc'[j] = "deliver" => failed'[j] = failed[j]
      /\ pc'[j] = "count" => failed'[j]
  BY <1>1 DEF Inv, Types
<1>4. /\ present' = present /\ history' = history /\ shown' = shown
      /\ unread' = unread /\ current' = current /\ tried' = tried /\ served' = served
  BY <1>1 DEF fleet
<1>5. Types'
  <2>1. /\ pc' \in [Jobs -> Places] /\ disturbed' \in [Jobs -> SUBSET Clusters]
        /\ failed' \in [Jobs -> BOOLEAN]
    BY <1>1 DEF Inv, Types, Places
  <2>2. rows' \in [Jobs -> Digests]
    BY <1>1, <1>2 DEF Inv, Types
  <2>3. QED
    BY <1>1, <1>4, <2>1, <2>2 DEF Inv, Types
<1>6. Reading'
  BY <1>1, <1>2, <1>3, <1>4 DEF Inv, Reading
<1>7. Delivering'
  <2>1. tried[j] = {} /\ served[j] = {} /\ ~failed[j] /\ Configured # {}
    BY <1>1, Bounds DEF Inv, Delivering
  <2>2. QED
    BY <1>3, <1>4, <2>1 DEF Inv, Delivering
<1>8. ShownIsNewest' /\ Counted'
  BY <1>1, <1>4 DEF Inv, ShownIsNewest, Counted
<1>9. RowsAreCurrent'
  BY <1>2, <1>3, <1>4 DEF Inv, RowsAreCurrent, Moved, Movement
<1>10. RowsAreOrdered'
  BY <1>2, <1>3, <1>4 DEF Inv, RowsAreOrdered, Moved
<1>11. QED
  BY <1>5, <1>6, <1>7, <1>8, <1>9, <1>10 DEF Inv

\* A target takes the payload or fails.
LEMMA SendInv ==
    ASSUME Inv, NEW j \in Jobs, NEW t, NEW ok \in BOOLEAN, Send(j, t, ok)
    PROVE  Inv'
<1>1. /\ pc[j] = "deliver" /\ t \in Configured /\ t \notin tried[j]
      /\ tried' = [tried EXCEPT ![j] = tried[j] \cup {t}]
      /\ served' = [served EXCEPT ![j] = IF ok THEN served[j] \cup {t} ELSE served[j]]
      /\ failed' = [failed EXCEPT ![j] = failed[j] \/ ~ok]
      /\ UNCHANGED <<fleet, pc, rows, unread, current, counters, disturbed, incomplete>>
  BY DEF Send, Remaining, Joined
<1>2. /\ tried'[j] = tried[j] \cup {t}
      /\ served'[j] = IF ok THEN served[j] \cup {t} ELSE served[j]
      /\ failed'[j] = (failed[j] \/ ~ok)
      /\ \A k \in Jobs : k # j =>
            tried'[k] = tried[k] /\ served'[k] = served[k] /\ failed'[k] = failed[k]
  BY <1>1 DEF Inv, Types
<1>3. Types'
  <2>1. /\ tried' \in [Jobs -> SUBSET Configured] /\ served' \in [Jobs -> SUBSET Configured]
        /\ failed' \in [Jobs -> BOOLEAN]
    BY <1>1 DEF Inv, Types
  <2>2. QED
    BY <1>1, <2>1 DEF Inv, Types, fleet
<1>4. Reading'
  BY <1>1 DEF Inv, Reading
<1>5. Delivering'
  <2>1. /\ served[j] \subseteq tried[j] /\ (failed[j] <=> served[j] # tried[j])
        /\ t \notin tried[j]
    BY <1>1 DEF Inv, Delivering
  <2>2. served'[j] \subseteq tried'[j] /\ (failed'[j] <=> served'[j] # tried'[j])
    <3>1. CASE ok
      BY <1>2, <2>1, <3>1
    <3>2. CASE ~ok
      BY <1>2, <2>1, <3>2
    <3>3. QED
      BY <3>1, <3>2
  <2>3. pc' = pc
    BY <1>1
  <2>4. ASSUME NEW k \in Jobs
        PROVE  /\ served'[k] \subseteq tried'[k]
               /\ pc[k] \notin {"deliver", "count"} => tried'[k] = {} /\ ~failed'[k]
               /\ pc[k] = "deliver" => (failed'[k] <=> served'[k] # tried'[k])
               /\ pc[k] = "count" =>
                     /\ tried'[k] \in {{}, Configured}
                     /\ failed'[k] <=> served'[k] # Configured
    <3>1. CASE k = j
      BY <1>1, <2>2, <3>1
    <3>2. CASE k # j
      BY <1>2, <3>2 DEF Inv, Delivering
    <3>3. QED
      BY <3>1, <3>2
  <2>5. QED
    BY <2>3, <2>4 DEF Delivering
<1>6. ShownIsNewest' /\ RowsAreCurrent' /\ RowsAreOrdered'
  BY <1>1, SameRows
<1>7. Counted'
  BY <1>1 DEF Inv, Counted
<1>8. QED
  BY <1>3, <1>4, <1>5, <1>6, <1>7 DEF Inv

\* Every target was tried.
LEMMA DeliveredInv ==
    ASSUME Inv, NEW j \in Jobs, Delivered(j)
    PROVE  Inv'
<1>1. /\ pc[j] = "deliver" /\ Configured \ tried[j] = {}
      /\ pc' = [pc EXCEPT ![j] = "count"]
      /\ UNCHANGED <<fleet, rows, unread, current, tried, failed, counters, served,
                     disturbed, incomplete>>
  BY DEF Delivered, Remaining
<1>2. pc'[j] = "count" /\ \A k \in Jobs : k # j => pc'[k] = pc[k]
  BY <1>1 DEF Inv, Types
<1>3. Types'
  BY <1>1 DEF Inv, Types, Places, fleet
<1>4. Reading'
  BY <1>1, <1>2 DEF Inv, Reading
<1>5. Delivering'
  <2>1. tried[j] \subseteq Configured
    BY DEF Inv, Types
  <2>2. tried[j] = Configured
    BY <1>1, <2>1
  <2>3. QED
    BY <1>1, <1>2, <2>2 DEF Inv, Delivering
<1>6. ShownIsNewest' /\ RowsAreCurrent' /\ RowsAreOrdered'
  BY <1>1, SameRows
<1>7. Counted'
  BY <1>1 DEF Inv, Counted
<1>8. QED
  BY <1>3, <1>4, <1>5, <1>6, <1>7 DEF Inv

\* The delivery is counted.
LEMMA CountInv ==
    ASSUME Inv, NEW j \in Jobs, Count(j)
    PROVE  Inv'
<1>1. /\ pc[j] = "count" /\ counters.deliveries < MaxDeliveries
      /\ counters' = [deliveries |-> counters.deliveries + 1,
                      errors |-> IF failed[j] THEN counters.errors + 1 ELSE counters.errors]
      /\ incomplete' = IF served[j] # Configured THEN incomplete + 1 ELSE incomplete
      /\ pc' = [pc EXCEPT ![j] = "idle"] /\ tried' = [tried EXCEPT ![j] = {}]
      /\ served' = [served EXCEPT ![j] = {}] /\ failed' = [failed EXCEPT ![j] = FALSE]
      /\ UNCHANGED <<fleet, rows, unread, current, disturbed>>
  BY DEF Count
<1>2. /\ pc'[j] = "idle" /\ tried'[j] = {} /\ served'[j] = {} /\ ~failed'[j]
      /\ \A k \in Jobs : k # j =>
            /\ pc'[k] = pc[k] /\ tried'[k] = tried[k] /\ served'[k] = served[k]
            /\ failed'[k] = failed[k]
  BY <1>1 DEF Inv, Types
<1>3. failed[j] <=> served[j] # Configured
  BY <1>1 DEF Inv, Delivering
<1>4. /\ counters.deliveries \in Nat /\ counters.errors \in Nat /\ MaxDeliveries \in Nat
      /\ counters.errors = incomplete /\ counters.errors <= counters.deliveries
  BY Bounds DEF Inv, Types, Counted
<1>5. /\ counters'.deliveries = counters.deliveries + 1
      /\ counters'.errors = incomplete'
      /\ counters'.errors \in Nat /\ counters'.errors <= counters'.deliveries
  BY <1>1, <1>3, <1>4
<1>6. /\ counters' \in [deliveries : 0..MaxDeliveries, errors : 0..MaxDeliveries]
      /\ incomplete' \in 0..MaxDeliveries
  <2>1. /\ counters.deliveries + 1 \in 0..MaxDeliveries
        /\ counters'.errors \in 0..MaxDeliveries
    BY <1>1, <1>4, <1>5
  <2>2. QED
    BY <1>1, <1>5, <2>1
<1>7. Types'
  <2>1. /\ pc' \in [Jobs -> Places] /\ tried' \in [Jobs -> SUBSET Configured]
        /\ served' \in [Jobs -> SUBSET Configured] /\ failed' \in [Jobs -> BOOLEAN]
    BY <1>1 DEF Inv, Types, Places
  <2>2. QED
    BY <1>1, <1>6, <2>1 DEF Inv, Types, fleet
<1>8. Reading'
  BY <1>1, <1>2 DEF Inv, Reading
<1>9. Delivering'
  BY <1>2 DEF Inv, Delivering
<1>10. ShownIsNewest' /\ RowsAreCurrent' /\ RowsAreOrdered'
  BY <1>1, SameRows
<1>11. Counted'
  BY <1>5 DEF Counted
<1>12. QED
  BY <1>7, <1>8, <1>9, <1>10, <1>11 DEF Inv

LEMMA StepInv == Inv /\ [Next]_vars => Inv'
<1> SUFFICES ASSUME Inv, [Next]_vars
             PROVE  Inv'
  OBVIOUS
<1>1. ASSUME NEW c \in Clusters, StoreReport(c) \/ Drop(c) \/ Track(c)
      PROVE  Inv'
  BY <1>1, FleetInv
<1>2. ASSUME NEW j \in Jobs, Fire(j)
      PROVE  Inv'
  BY <1>2, FireInv
<1>3. ASSUME NEW j \in Jobs, NEW c \in Clusters, ReadHistory(j, c) \/ ReadDiff(j, c)
      PROVE  Inv'
  BY <1>3, ReadHistoryInv, ReadDiffInv
<1>4. ASSUME NEW j \in Jobs,
             \/ ReadStatuses(j) \/ Render(j) \/ RenderFails(j)
             \/ Delivered(j) \/ Count(j)
      PROVE  Inv'
  BY <1>4, ReadStatusesInv, RenderInv, DeliveredInv, CountInv
<1>5. ASSUME NEW j \in Jobs, NEW t, NEW ok \in BOOLEAN, Send(j, t, ok)
      PROVE  Inv'
  BY <1>5, SendInv
<1>6. CASE UNCHANGED vars
  <2>1. UNCHANGED <<fleet, rows, unread, current, disturbed, pc, tried, served, failed,
                    counters, incomplete>>
    BY <1>6 DEF vars, job
  <2>2. ShownIsNewest' /\ RowsAreCurrent' /\ RowsAreOrdered'
    BY <2>1, SameRows
  <2>3. QED
    BY <2>1, <2>2 DEF Inv, Types, Reading, Delivering, Counted, fleet
<1>7. QED
  BY <1>1, <1>2, <1>3, <1>4, <1>5, <1>6 DEF Next, Prompt
-----------------------------------------------------------------------------
LEMMA InvHolds == Spec => []Inv
BY InitInv, StepInv, PTL DEF Spec

\* Jobs that overlap, with the fleet and with each other, keep every type.
THEOREM TypeCorrect == Spec => []TypeOK
<1>1. Inv => TypeOK
  <2> SUFFICES ASSUME Inv
               PROVE  TypeOK
    OBVIOUS
  <2>1. \A j \in Jobs : DOMAIN rows[j] \subseteq Clusters /\ Range(rows[j]) \subseteq Row
    BY DigestRows DEF Inv, Types, Range
  <2>2. QED
    BY <2>1 DEF Inv, Types, Reading, TypeOK, Places
<1>2. QED
  BY <1>1, InvHolds, PTL

\* fleetDigest's three reads of a cluster are about one scan of it, unless that
\* very cluster changed between them.
THEOREM RowsAreOfOneRun == Spec => []RowIsOfOneRun
<1>1. Inv => RowIsOfOneRun
  <2> SUFFICES ASSUME Inv, NEW j \in Jobs,
                      NEW c \in DOMAIN rows[j] \ (unread[j] \cup disturbed[j])
               PROVE  /\ rows[j][c].delta = rows[j][c].new
                      /\ rows[j][c].score # 0 =>
                            rows[j][c].delta = IF rows[j][c].score < 2
                                                 THEN 0 ELSE rows[j][c].score
    BY DEF RowIsOfOneRun
  <2>1. /\ c \in present /\ rows[j][c].score = shown[c]
        /\ rows[j][c].delta = Movement(c) /\ rows[j][c].new = Movement(c)
    BY DEF Inv, RowsAreCurrent, Moved
  <2>2. c \in Clusters /\ shown[c] \in {0, history[c]} /\ history[c] \in Nat
    BY <2>1, Bounds DEF Inv, Types, ShownIsNewest
  <2>3. QED
    BY <2>1, <2>2 DEF Movement
<1>2. QED
  BY <1>1, InvHolds, PTL

\* However scans, drops and returns of clusters fall between the reads, a row's
\* movement and criticals are not older than the score beside them.
THEOREM RowsGoForward == Spec => []RowsNeverGoBack
<1>1. Inv => RowsNeverGoBack
  BY DEF Inv, RowsAreOrdered, RowsNeverGoBack, Moved
<1>2. QED
  BY <1>1, InvHolds, PTL

\* The error counter counts exactly the deliveries that missed a target, however
\* many jobs overlap.
THEOREM ErrorsCountMissedTargets == Spec => []ErrorsAreMissedTargets
<1>1. Inv => ErrorsAreMissedTargets
  BY DEF Inv, Counted, ErrorsAreMissedTargets
<1>2. QED
  BY <1>1, InvHolds, PTL

\* A delivery that fails at one target goes on to the next.
THEOREM TargetsAreTried == Spec => []EveryTargetIsTried
<1>1. Inv => EveryTargetIsTried
  BY DEF Inv, Delivering, EveryTargetIsTried
<1>2. QED
  BY <1>1, InvHolds, PTL
=============================================================================
