------------------------------- MODULE RunLog -------------------------------
(***************************************************************************)
(* What a history store promises its readers: the last Limit reports of a *)
(* cluster, oldest first, and the findings its newest run added.  The      *)
(* store behind it (files, pruning, recovery from disk) is module History; *)
(* Fleet, which keeps one store per cluster, is written with these         *)
(* operators alone.                                                        *)
(*                                                                         *)
(* A report is abstracted to the set of finding keys it carries.           *)
(***************************************************************************)
EXTENDS Naturals, Sequences

CONSTANTS
    Findings,   \* finding keys (report.findingKeys)
    Limit       \* --history-limit, at least 2 (history.New raises it)

ASSUME LimitAssumption == Limit \in Nat /\ Limit >= 2

Reports == SUBSET Findings

\* Every log a store can hold.
Logs == {log \in Seq(Reports) : Len(log) <= Limit}

\* Variants of Push and NewFindings with a plausible bug in each, which the
\* properties are tested against: no pruning; a full log that takes no more
\* runs; and everything in the newest run taken for new.
PushUnpruned(log, r) == Append(log, r)
PushUntilFull(log, r) == IF Len(log) < Limit THEN Append(log, r) ELSE log
AllFindings(log) == IF Len(log) < 2 THEN {} ELSE log[Len(log)]

\* Record one more run, dropping the oldest one beyond the limit.
Push(log, r) == Append(IF Len(log) < Limit THEN log ELSE Tail(log), r)

Newest(log) == log[Len(log)]

\* LastDiff().New: what the newest run has and the one before it had not.
\* With fewer than two runs there is no diff, hence nothing new.
NewFindings(log) ==
    IF Len(log) < 2 THEN {} ELSE log[Len(log)] \ log[Len(log) - 1]
=============================================================================
