SPECIFICATION Spec
CONSTANTS
    Local = local
    Remotes = {a}
    Servers = {s1}
    NoSecret = NoSecret
    Ticker = ticker
    Rescans = {r1}
    SemWidth = 1
    Persist = TRUE
    Findings = {f}
    Limit = 2
CONSTRAINTS
    RemotesStayClean
INVARIANTS
    TypeOK
    OrderMatchesStates
    BoundedConcurrency
    ReportIsNewestRun
    SoloRepeatsStaySilent
PROPERTIES
    ErrorKeepsReport
