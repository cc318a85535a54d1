SPECIFICATION Spec
CONSTANTS
    Rank <- MCRank
    Stem <- MCStem
    Lower <- MCLower
    Scenarios <- MCScenarios
    Permanent <- MCPermanent
    Options <- MCOptions
    OwningTeams = {"red", "blue"}
    MinSeverity = 2
    Kinds <- listedKinds
    Deniable = {"Pod"}
    MaxChanges = 1
CONSTRAINTS
    QuietWhileDenied
INVARIANTS
    TypeOK
    CountsStaySilent
    DeniedListsOnlyHide
    GrantedRulesSuffice
    CleanupBreaksNothing
    BlockingPDBsAreExact
    TeamsHearOfTheirOwn
    ComplianceSummaryIsConsistent
    GateSeesWhatIsPrinted
    RightsizingIsStable
    LintPredictsLive
