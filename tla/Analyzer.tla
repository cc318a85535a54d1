------------------------------ MODULE Analyzer ------------------------------
(***************************************************************************)
(* The report of a snapshot, what the command line makes of it, and who is *)
(* told of what is new in it (analyzer/analyzer.go, cmd/analyze.go,        *)
(* cmd/lint.go, notify/notify.go and notify/router.go).                    *)
(***************************************************************************)
EXTENDS SizingChecks, Manifest

\* AssignTeams: the mapping first, then the namespace's label.  teamOf[ns] and
\* a label are "" when there is none; labelled: --team-label is set.
teamOfNamespace(s, ns, opts) ==
    LET label == {o.team : o \in
            {o \in All(s, "Namespace") : o.name = ns /\ opts.labelled}} \ {""}
    IN IF opts.teamOf[ns] # "" THEN opts.teamOf[ns]
       ELSE IF label # {} THEN CHOOSE team \in label : TRUE
       ELSE ""

AssignTeams(namespaces, s, opts) ==
    {[section EXCEPT !.team = teamOfNamespace(s, section.name, opts)] :
        section \in namespaces}

\* How many recommendations are folded into Optimization.
topRightsizing == 3

\* The findings kept when there are too many: the total of the savings comes
\* first, then the worst; equals are told apart arbitrarily.
topFindings(recs, cost) ==
    LET total == savingsFinding(recs, cost)
        room == topRightsizing - Cardinality(total)
        best == CHOOSE best \in SUBSET recs :
            /\ Cardinality(best) = room
            /\ \A r \in recs \ best, b \in best : ~worse(r, b, cost)
    IN total \cup {recommendationFinding(r, cost) : r \in best}

\* addRightsizing: a section of its own with --rightsizing-report, which has no
\* id when Prometheus fails; the worst folded into Optimization without.
addRightsizing(sections, s, covered, usage, opts) ==
    LET ok == usageAnswered(opts.prometheus)
        all == IF ok THEN rightsize(s, covered, usage, opts.cost)
               ELSE {Plain(Info, "Could not collect usage for rightsizing")}
        place == IF ok THEN "rightsizing" ELSE ""
        recs == recommendations(s, covered, usage)
        folded == IF Cardinality(all) <= topRightsizing THEN all
                  ELSE topFindings(recs, opts.cost)
                         \cup {Plain(Info, "Run with --rightsizing-report")}
    IN IF opts.rightsizingReport
       THEN [id \in DOMAIN sections \cup {place} |->
                IF id = place THEN all ELSE sections[id]]
       ELSE IF ok THEN [sections EXCEPT !.optimization = @ \cup folded]
       ELSE sections

Analyze(s, usage, opts) ==
    LET covered == AppNamespaces(s, opts.includeSystem, opts.only)
        sections ==
            [security |-> Security(s, covered),
             policy |-> Policy(s, covered),
             nodes |-> Nodes(s),
             monitoring |-> Monitoring(s, covered),
             certificates |-> Certificates(s, covered),
             deprecations |-> Deprecations(s, covered),
             gitops |-> GitOps(s),
             optimization |-> Optimization(s, covered, usage, opts.prometheus)]
    IN Finalize(AssignTeams(Namespaces(s, covered), s, opts),
                IF opts.prometheus.configured
                THEN addRightsizing(sections, s, covered, usage, opts)
                ELSE sections)

\* Lint: the checks that need no cluster, over manifests.
Lint(documents, opts) ==
    LET loaded == Load(documents)
        s == loaded.snapshot
        covered == loaded.namespaces
    IN Finalize(AssignTeams(Namespaces(s, covered), s, opts),
                [security |-> Security(s, covered),
                 certificates |-> Certificates(s, covered),
                 deprecations |-> Deprecations(s, covered)])
-----------------------------------------------------------------------------
\* finishReport: --framework first, then --team.  flags.framework is the set of
\* profiles it names, {} when it is not given.
finishReport(r, flags) ==
    LET framed == IF flags.framework = {} THEN r
                  ELSE FilterControls(r, flags.framework)
    IN IF flags.team = "" THEN framed ELSE FilterTeam(framed, flags.team)

\* The exit code of a report: --fail-below first, then --fail-on.
checkFailThreshold(r, flags) ==
    IF flags.failBelow > 0 /\ reportScore(r.summary) < flags.failBelow THEN 2
    ELSE IF flags.failOn = "warning" /\ MaxSeverity(r) >= Warning THEN 2
    ELSE IF flags.failOn = "critical" /\ MaxSeverity(r) >= Critical THEN 3
    ELSE 0

exitCode(r, flags) == checkFailThreshold(finishReport(r, flags), flags)
-----------------------------------------------------------------------------
\* Notifier.Notify: what is posted of the findings that are new; nothing is
\* when none qualifies.
posted(new, minSeverity) == {l \in new : l.finding.severity >= minSeverity}

\* A variant with a plausible bug: every team gets every team's.
routedToAll(new, team) == {l \in new : l.team # ""}

\* Router.Notify: each team's webhook gets the team's findings.
routed(new, team) == {l \in new : l.team = team /\ l.team # ""}
=============================================================================
