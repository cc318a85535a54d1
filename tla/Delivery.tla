------------------------------ MODULE Delivery ------------------------------
(***************************************************************************)
(* Scheduled reports in fleet mode: cron starts runScheduledReport in a    *)
(* goroutine of its own at every tick, also while an earlier one is at     *)
(* work.  Each reads the fleet in one critical section of m.mu for the     *)
(* statuses and two more per cluster, while scans go on; renders a digest; *)
(* and hands it to the configured targets one after the other.             *)
(*                                                                         *)
(* The fleet is reduced to what the digest reads of it.  A run of a        *)
(* cluster is told apart by its number, 0 being none; that the report      *)
(* shown is the newest run of the history is Fleet!ReportIsNewestRun.      *)
(***************************************************************************)
EXTENDS Naturals, Functions

CONSTANTS
    Clusters,       \* registered or not
    Jobs,           \* BOUND: runScheduledReport goroutines at a time
    Configured,     \* the targets given by the flags
    MaxRuns,        \* BOUND: runs of a cluster
    MaxDeliveries   \* BOUND: deliveries that are counted

Targets == {"dir", "webhook", "email"}

ASSUME DeliveryAssumption ==
    /\ Configured \subseteq Targets /\ Configured # {}
    /\ MaxRuns \in Nat /\ MaxRuns >= 2   \* Init has up to two runs
    /\ MaxDeliveries \in Nat

VARIABLES
    present,    \* the clusters in m.states
    history,    \* history[c]: the newest run in c's history directory
    shown,      \* shown[c]: the run c's st.report is of
    pc,         \* pc[j]: where job j stands
    rows,       \* rows[j]: the digest's row of each cluster
    unread,     \* unread[j]: clusters whose row is not complete
    current,    \* current[j]: the cluster whose diff is next, {} or a singleton
    tried,      \* tried[j]: the targets Deliver is done with
    failed,     \* failed[j]: an error will be reported
    counters,   \* s.reportDeliveries and s.reportDeliveryErrors
    served,     \* AUXILIARY: served[j]: the targets that took the payload
    disturbed,  \* AUXILIARY: disturbed[j]: clusters that changed under j's eyes
    incomplete  \* AUXILIARY: ended deliveries that missed a target

fleet == <<present, history, shown>>
job   == <<pc, rows, unread, current, tried, failed, served>>
vars  == <<fleet, job, counters, disturbed, incomplete>>

Runs == 0..MaxRuns
Row  == [score : Runs, delta : Runs, new : Runs]

TypeOK ==
    /\ present \subseteq Clusters
    /\ history \in [Clusters -> Runs]
    /\ shown \in [Clusters -> Runs]
    /\ pc \in [Jobs -> {"idle", "statuses", "history", "diff", "deliver", "count"}]
    /\ \A j \in Jobs : DOMAIN rows[j] \subseteq Clusters /\ Range(rows[j]) \subseteq Row
    /\ \A j \in Jobs : unread[j] \subseteq DOMAIN rows[j]
    /\ \A j \in Jobs : current[j] \subseteq unread[j] /\ \A c, d \in current[j] : c = d
    /\ tried \in [Jobs -> SUBSET Configured]
    /\ served \in [Jobs -> SUBSET Configured]
    /\ failed \in [Jobs -> BOOLEAN]
    /\ counters \in [deliveries : 0..MaxDeliveries, errors : 0..MaxDeliveries]
    /\ disturbed \in [Jobs -> SUBSET Clusters]
    /\ incomplete \in 0..MaxDeliveries

Init ==
    /\ present \in SUBSET Clusters
    /\ history \in [Clusters -> 0..2]
    /\ shown = [c \in Clusters |-> 0]
    /\ pc = [j \in Jobs |-> "idle"]
    /\ rows = [j \in Jobs |-> <<>>]
    /\ unread = [j \in Jobs |-> {}]
    /\ current = [j \in Jobs |-> {}]
    /\ tried = [j \in Jobs |-> {}]
    /\ served = [j \in Jobs |-> {}]
    /\ failed = [j \in Jobs |-> FALSE]
    /\ counters = [deliveries |-> 0, errors |-> 0]
    /\ disturbed = [j \in Jobs |-> {}]
    /\ incomplete = 0
-----------------------------------------------------------------------------
(***************************************************************************)
(* The fleet, as far as the digest can see it.                             *)
(***************************************************************************)
Disturb(c) ==
    disturbed' = [j \in Jobs |-> disturbed[j] \cup ({c} \cap DOMAIN rows[j])]

\* ScanAll stores a report of c.
StoreReport(c) ==
    /\ c \in present
    /\ history[c] < MaxRuns
    /\ history' = [history EXCEPT ![c] = @ + 1]
    /\ shown' = [shown EXCEPT ![c] = history[c] + 1]
    /\ Disturb(c)
    /\ UNCHANGED <<present, job, counters, incomplete>>

\* ScanAll applies a list without c: its state goes, its directory stays.
Drop(c) ==
    /\ c \in present
    /\ present' = present \ {c}
    /\ shown' = [shown EXCEPT ![c] = 0]
    /\ Disturb(c)
    /\ UNCHANGED <<history, job, counters, incomplete>>

\* ScanAll applies a list with c: its history is read back from its directory.
Track(c) ==
    /\ c \notin present
    /\ present' = present \cup {c}
    /\ Disturb(c)
    /\ UNCHANGED <<history, shown, job, counters, incomplete>>
-----------------------------------------------------------------------------
(***************************************************************************)
(* fleetDigest.                                                            *)
(***************************************************************************)
\* cron reaches a scheduled instant.
Fire(j) ==
    /\ pc[j] = "idle"
    /\ pc' = [pc EXCEPT ![j] = "statuses"]
    /\ UNCHANGED <<fleet, rows, unread, current, tried, failed, counters, served,
                   disturbed, incomplete>>

ReadStatuses(j) ==
    /\ pc[j] = "statuses"
    /\ pc' = [pc EXCEPT ![j] = "history"]
    /\ rows' = [rows EXCEPT ![j] = [c \in present |->
                    [score |-> shown[c], delta |-> 0, new |-> 0]]]
    /\ unread' = [unread EXCEPT ![j] = present]
    /\ UNCHANGED <<fleet, current, tried, failed, counters, served, disturbed,
                   incomplete>>

\* Wrong: the movement of the scan before, by an index that is one off.
MovementOneOff(c) ==
    IF c \in present /\ history[c] >= 3 THEN history[c] - 1 ELSE 0

\* Wrong: the run after the newest one.
MovementAhead(c) == IF c \in present THEN history[c] + 1 ELSE 0

\* The run whose difference to its predecessor scoreDelta (of m.History) and
\* m.Diff are about: nil for an unknown cluster and for one run or none.
Movement(c) == IF c \in present /\ history[c] >= 2 THEN history[c] ELSE 0

ReadHistory(j, c) ==
    /\ pc[j] = "history"
    /\ c \in unread[j]
    /\ pc' = [pc EXCEPT ![j] = "diff"]
    /\ rows' = [rows EXCEPT ![j][c].delta = Movement(c)]
    /\ current' = [current EXCEPT ![j] = {c}]
    /\ UNCHANGED <<fleet, unread, tried, failed, counters, served, disturbed, incomplete>>

ReadDiff(j, c) ==
    /\ pc[j] = "diff"
    /\ c \in current[j]
    /\ pc' = [pc EXCEPT ![j] = "history"]
    /\ rows' = [rows EXCEPT ![j][c].new = Movement(c)]
    /\ unread' = [unread EXCEPT ![j] = @ \ {c}]
    /\ current' = [current EXCEPT ![j] = {}]
    /\ UNCHANGED <<fleet, tried, failed, counters, served, disturbed, incomplete>>

\* digestPayload succeeds: what is delivered is the rendered digest, ...
Render(j) ==
    /\ pc[j] = "history" /\ unread[j] = {}
    /\ pc' = [pc EXCEPT ![j] = "deliver"]
    /\ rows' = [rows EXCEPT ![j] = <<>>]
    /\ disturbed' = [disturbed EXCEPT ![j] = {}]
    /\ UNCHANGED <<fleet, unread, current, tried, failed, counters, served, incomplete>>

\* ... or fails, and nothing is delivered.
RenderFails(j) ==
    /\ pc[j] = "history" /\ unread[j] = {}
    /\ pc' = [pc EXCEPT ![j] = "count"]
    /\ failed' = [failed EXCEPT ![j] = TRUE]
    /\ rows' = [rows EXCEPT ![j] = <<>>]
    /\ disturbed' = [disturbed EXCEPT ![j] = {}]
    /\ UNCHANGED <<fleet, unread, current, tried, counters, served, incomplete>>
-----------------------------------------------------------------------------
(***************************************************************************)
(* Deliver.                                                                *)
(***************************************************************************)
\* Wrong: the mail goes out first.
MailFirst == [email |-> 1, dir |-> 2, webhook |-> 3]

\* The order of the targets.  A write and a POST (30 s) end; smtp.SendMail
\* has no timeout and is not given the job's context.
Place == [dir |-> 1, webhook |-> 2, email |-> 3]

\* Wrong: the first error ends the delivery.
RemainingUntilError(j) == IF failed[j] THEN {} ELSE Configured \ tried[j]

Remaining(j) == Configured \ tried[j]

\* Wrong: only the last error is kept.
LastError(j, t, ok) == ~ok

\* errors.Join: one failed target makes the delivery a failed one.
Joined(j, t, ok) == failed[j] \/ ~ok

\* Target t, whose turn it is, takes the payload or fails.
Send(j, t, ok) ==
    /\ pc[j] = "deliver"
    /\ t \in Remaining(j) /\ \A u \in Remaining(j) : Place[t] <= Place[u]
    /\ tried' = [tried EXCEPT ![j] = @ \cup {t}]
    /\ served' = [served EXCEPT ![j] = IF ok THEN @ \cup {t} ELSE @]
    /\ failed' = [failed EXCEPT ![j] = Joined(j, t, ok)]
    /\ UNCHANGED <<fleet, pc, rows, unread, current, counters, disturbed, incomplete>>

Delivered(j) ==
    /\ pc[j] = "deliver"
    /\ Remaining(j) = {}
    /\ pc' = [pc EXCEPT ![j] = "count"]
    /\ UNCHANGED <<fleet, rows, unread, current, tried, failed, counters, served,
                   disturbed, incomplete>>

\* The counters, under s.mu; the goroutine ends.
Count(j) ==
    /\ pc[j] = "count"
    /\ counters.deliveries < MaxDeliveries
    /\ counters' = [deliveries |-> counters.deliveries + 1,
                    errors |-> IF failed[j] THEN counters.errors + 1 ELSE counters.errors]
    /\ incomplete' = IF served[j] # Configured THEN incomplete + 1 ELSE incomplete
    /\ pc' = [pc EXCEPT ![j] = "idle"]
    /\ tried' = [tried EXCEPT ![j] = {}]
    /\ served' = [served EXCEPT ![j] = {}]
    /\ failed' = [failed EXCEPT ![j] = FALSE]
    /\ UNCHANGED <<fleet, rows, unread, current, disturbed>>
-----------------------------------------------------------------------------
\* What a job does until it waits for the mail server.
Prompt(j) ==
    \/ ReadStatuses(j)
    \/ \E c \in Clusters : ReadHistory(j, c) \/ ReadDiff(j, c)
    \/ Render(j)
    \/ RenderFails(j)
    \/ \E t \in {"dir", "webhook"}, ok \in BOOLEAN : Send(j, t, ok)
    \/ Delivered(j)
    \/ Count(j)

Next ==
    \/ \E c \in Clusters : StoreReport(c) \/ Drop(c) \/ Track(c)
    \/ \E j \in Jobs :
        \/ Fire(j)
        \/ Prompt(j)
        \/ \E ok \in BOOLEAN : Send(j, "email", ok)

Spec == Init /\ [][Next]_vars

\* The Go scheduler runs every job, and files and webhooks answer in time.
\* Nothing is assumed of the mail server, nor that cron fires.
FairSpec == Spec /\ \A j \in Jobs : WF_vars(Prompt(j))
-----------------------------------------------------------------------------
\* "grade, score movement since the previous scan, and newly appeared
\* criticals" (fleetDigest): the three are of one scan, unless a scan of that
\* very cluster was stored, or the cluster left or came, between the reads.
\* A cluster that has not been scanned since the hub started has no score.
RowIsOfOneRun ==
    \A j \in Jobs : \A c \in DOMAIN rows[j] \ (unread[j] \cup disturbed[j]) :
        LET row == rows[j][c]
        IN  /\ row.delta = row.new
            /\ row.score # 0 => row.delta = IF row.score < 2 THEN 0 ELSE row.score

\* Later reads see later runs: a row never announces criticals, or a movement,
\* older than the score it shows, while its cluster stays registered.
RowsNeverGoBack ==
    \A j \in Jobs : \A c \in DOMAIN rows[j] \ unread[j] :
        LET row == rows[j][c]
        IN  row.delta # 0 /\ row.new # 0 => row.score <= row.delta /\ row.delta <= row.new

\* "so one failing target never blocks the others": a delivery that was
\* rendered is counted only after every configured target was tried, and the
\* error counter counts exactly the deliveries that missed one.
ErrorsAreMissedTargets == counters.errors = incomplete

EveryTargetIsTried ==
    \A j \in Jobs : pc[j] = "count" => tried[j] \in {{}, Configured}

\* A mail server that never answers delays neither file nor webhook: once a
\* report is due, both are tried (unless rendering fails).
OthersAreServed ==
    \A j \in Jobs :
        pc[j] = "statuses" ~>
            (pc[j] = "count" \/ Configured \ {"email"} \subseteq tried[j])
=============================================================================
