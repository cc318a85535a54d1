---------------------------- MODULE MCOwnership -----------------------------
(***************************************************************************)
(* Instances of Ownership for TLC.                                         *)
(***************************************************************************)
EXTENDS Ownership

\* Every team has a webhook at all times, so that a redacted one in a PUT is
\* always one its client has seen.
WebhooksInUse == \A t \in Teams : configMap.hook[t] # None
=============================================================================
