SPECIFICATION FairSpec
CONSTANTS
    Local = local
    Remotes = {a}
    Servers = {s1, s2}
    NoSecret = NoSecret
    Ticker = ticker
    Rescans = {r1}
    SemWidth = 1
    Persist = FALSE
    Findings = {}
    Limit = 2
PROPERTIES
    ScanAllEnds
    FleetConverges
