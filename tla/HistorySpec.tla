---------------------------- MODULE HistorySpec -----------------------------
(***************************************************************************)
(* What history.Store promises across restarts: its log holds the runs     *)
(* recorded last while the process lives.  A restart may forget runs; it   *)
(* never invents one, and shows what it recovers in the order the runs     *)
(* were generated, which is not the one they were recorded in where scans  *)
(* overlap.                                                                *)
(***************************************************************************)
EXTENDS RunLog, Functions

CONSTANT Instants   \* when a report can be generated, to the millisecond

\* A report.Report: when it was generated and its findings.
Run == [at : Instants, found : Reports]

VARIABLES
    past,   \* every run recorded so far, in order
    log     \* the runs the store shows

Init == past = <<>> /\ log = <<>>

Record == \E r \in Run : past' = Append(past, r) /\ log' = Push(log, r)

\* The process dies, perhaps while it is recording a run, and what the store
\* shows from then on is what it can recover.
Recover ==
    /\ past' = past \/ \E r \in Run : past' = Append(past, r)
    /\ \E k \in 0..Limit : \E found \in [1..k -> Range(past')] :
          /\ \A i, j \in 1..k : i < j => found[i].at < found[j].at
          /\ log' = found

Spec == Init /\ [][Record \/ Recover]_<<past, log>>
=============================================================================
