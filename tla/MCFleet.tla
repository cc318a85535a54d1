------------------------------ MODULE MCFleet -------------------------------
(***************************************************************************)
(* Instances of Fleet for TLC.                                             *)
(***************************************************************************)
EXTENDS Fleet

\* Only the local cluster's workloads change.
RemotesStayClean == \A n \in Remotes : world[n] = {}
=============================================================================
