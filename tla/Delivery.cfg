SPECIFICATION FairSpec
CONSTANTS
    Clusters = {a}
    Jobs = {j1, j2}
    Configured = {"dir", "webhook", "email"}
    MaxRuns = 3
    MaxDeliveries = 2
INVARIANTS
    TypeOK
    RowIsOfOneRun
    RowsNeverGoBack
    ErrorsAreMissedTargets
    EveryTargetIsTried
PROPERTIES
    OthersAreServed
