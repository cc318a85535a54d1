------------------------------- MODULE Report -------------------------------
(***************************************************************************)
(* Reports: findings, the summary, the filters of the command line, and    *)
(* the comparison of two runs that decides what is new (report/model.go,   *)
(* report/diff.go, and the message helpers of checks/helpers.go).          *)
(*                                                                         *)
(* A finding's message is abstracted to what its text tells apart: which   *)
(* message it is, the count in it, the names it shows and how many names   *)
(* it leaves out.  Hints, titles and icons are left out.                   *)
(***************************************************************************)
EXTENDS Score, FiniteSets, FiniteSetsExt

CONSTANTS
    Rank(_),    \* the place of a name in the order slices.Sort gives names
    Stem(_)     \* a name with every run of digits replaced by "#"

Ok       == 0
Info     == 1
Warning  == 2
Critical == 3

\* n = 0 stands for a message without a count; object is the kind and the name
\* of the one object a finding is about, <<>> for none; hint holds the command a
\* hint spells out, when there is one.
Finding(severity, message, n, shown, more, object, controls) ==
    [severity |-> severity, message |-> message, n |-> n, shown |-> shown,
     more |-> more, object |-> object, controls |-> controls, hint |-> {}]

Plain(severity, message) == Finding(severity, message, 0, {}, 0, <<>>, {})

About(severity, message, object) ==
    Finding(severity, message, 0, {}, 0, object, {})

\* joinLimited: the first names in order, and how many more there are.
shownOf(names, limit) ==
    {a \in names : Cardinality({b \in names : Rank(b) < Rank(a)}) < limit}

Named(severity, message, n, names, limit) ==
    LET shown == shownOf(names, limit)
    IN Finding(severity, message, n, shown, Cardinality(names \ shown), <<>>, {})

\* "n things", only when there is one at least.
Tagged(severity, message, n, controls) ==
    IF n > 0 THEN {Finding(severity, message, n, {}, 0, <<>>, controls)} ELSE {}

Counted(severity, message, n) == Tagged(severity, message, n, {})

\* "n things (a, b and k more)", only when there is one at least.
Listed(severity, message, names, limit) ==
    IF names = {} THEN {}
    ELSE {Named(severity, message, Cardinality(names), names, limit)}
-----------------------------------------------------------------------------
\* The findings of a report, each with the place it is reported at.
located(r) ==
    (UNION {{[at |-> <<"namespace", ns.name>>, team |-> ns.team, finding |-> f]
                : f \in ns.findings} : ns \in r.namespaces})
      \cup
    (UNION {{[at |-> <<"section", id>>, team |-> "", finding |-> f]
                : f \in r.sections[id]} : id \in DOMAIN r.sections})

\* The summary counts the findings of each severity; its score and its grade are
\* functions of these counts.
Finalize(namespaces, sections) ==
    [namespaces |-> namespaces, sections |-> sections,
     summary |-> [severity \in Ok..Critical |->
        Cardinality({l \in located([namespaces |-> namespaces, sections |-> sections]) :
                        l.finding.severity = severity})]]

reportScore(summary) == scoreOf(summary[Critical], summary[Warning], summary[Info])

MaxSeverity(r) == Max({Ok} \cup {l.finding.severity : l \in located(r)})

\* Keep the findings that carry a control of the framework.  A control is the
\* pair of its profile and its name; a prefix is the set of profiles it begins.
FilterControls(r, prefix) ==
    LET match(fs) == {f \in fs : \E c \in f.controls : c[1] \in prefix}
    IN Finalize({[ns EXCEPT !.findings = match(@)] : ns \in r.namespaces},
                [id \in DOMAIN r.sections |-> match(r.sections[id])])

\* A variant with a plausible bug: the summary of the whole report is kept.
FilterTeamUncounted(r, team) ==
    [r EXCEPT !.namespaces = {ns \in @ : ns.team = team}, !.sections = <<>>]

FilterTeam(r, team) ==
    Finalize({ns \in r.namespaces : ns.team = team}, <<>>)

Teams(r) == {ns.team : ns \in r.namespaces} \ {""}
-----------------------------------------------------------------------------
\* A variant with a plausible bug: the numbers of the text are kept.
findingKeyWithNumbers(at, f) ==
    [at |-> at, object |-> f.object, message |-> f.message, n |-> f.n,
     names |-> f.shown]

\* The identity of a finding across runs: its place, its object, and its text
\* with every number replaced.  A singular reads otherwise than a plural.
findingKey(at, f) ==
    [at |-> at, object |-> f.object, message |-> f.message,
     single |-> f.n = 1, more |-> f.more > 0,
     names |-> [stem \in {Stem(a) : a \in f.shown} |->
                  Cardinality({a \in f.shown : Stem(a) = stem})]]

findingKeys(r) ==
    {findingKey(l.at, l.finding) :
        l \in {l \in located(r) : l.finding.severity # Ok}}

\* The findings of a whose keys b does not have.
notIn(a, b) ==
    {l \in located(a) : /\ l.finding.severity # Ok
                        /\ findingKey(l.at, l.finding) \notin findingKeys(b)}

Diff(older, newer) ==
    [new |-> notIn(newer, older), resolved |-> notIn(older, newer)]
=============================================================================
