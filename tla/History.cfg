SPECIFICATION Spec
CONSTANTS
    Findings = {f}
    Limit = 2
    Scanners = {s1, s2}
    MaxInstant = 4
CONSTRAINTS
    FindingsTellTwinsApart
    FewRuns
INVARIANTS
    TypeOK
    DiffIsOfNewestRuns
    RetainedRunsAreOnDisk
    RestartIsLossless
PROPERTIES
    ImplementsLog
