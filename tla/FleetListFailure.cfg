SPECIFICATION FairSpec
CONSTANTS
    Local = local
    Remotes = {a}
    Servers = {s1}
    NoSecret = NoSecret
    Ticker = ticker
    Rescans = {}
    SemWidth = 1
    Persist = FALSE
    Findings = {}
    Limit = 2
PROPERTIES
    RegisteredClusterStays
