------------------------------- MODULE Score --------------------------------
(***************************************************************************)
(* The health score of a report and its grade (report/model.go): pure      *)
(* arithmetic, kept apart so that AnalysisProofs can reason about it for   *)
(* every count of findings.                                                *)
(***************************************************************************)
EXTENDS Integers

scoreCostCritical == 15
scoreCostWarning  == 4
scoreCostInfo     == 1

scoreOf(critical, warnings, info) ==
    LET score == 100 - scoreCostCritical * critical
                     - scoreCostWarning * warnings - scoreCostInfo * info
    IN IF score < 0 THEN 0 ELSE score

\* A, B, C, D, F as 5 .. 1, so that grades can be compared.
GradeOf(score) ==
    CASE score >= 90 -> 5
      [] score >= 80 /\ score < 90 -> 4
      [] score >= 70 /\ score < 80 -> 3
      [] score >= 60 /\ score < 70 -> 2
      [] score < 60 -> 1
=============================================================================
