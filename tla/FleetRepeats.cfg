SPECIFICATION Spec
CONSTANTS
    Local = local
    Remotes = {a}
    Servers = {s1}
    NoSecret = NoSecret
    Ticker = ticker
    Rescans = {r1}
    SemWidth = 1
    Persist = FALSE
    Findings = {f}
    Limit = 2
INVARIANTS
    RepeatsStaySilent
