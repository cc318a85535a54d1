----------------------------- MODULE MCHistory ------------------------------
(* One store, and two scans that may be under way at a time. *)
EXTENDS History

\* BOUND: what a report finds tells only reports of one instant apart.
FindingsTellTwinsApart ==
    \A p \in Scanners : \A r \in scan[p] :
        r.found # {} =>
            \/ \E q \in Scanners \ {p} : [r EXCEPT !.found = {}] \in scan[q]
            \/ \E i \in DOMAIN past : past[i] = [r EXCEPT !.found = {}]

\* BOUND: runs recorded.
FewRuns == Len(past) <= 4
=============================================================================
