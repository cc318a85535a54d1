SPECIFICATION Spec
CONSTANTS
    Names = {"stage", "prod/eu", "prod-eu"}
    Local = "hub"
    SanitizeName <- MCSanitizeName
    Declared = {}
    Before <- MCBefore
    Remotes = {"r1"}
    SANamespaces = {"n1"}
    None = None
    Adds = {a1, a2}
    Posts = {w1}
    FlagSets <- MCFlagSets
    Callers <- MCCallers
    Bodies <- MCBodies
    MaxTokens = 2
    MaxEdits = 1
SYMMETRY Symmetry
CONSTRAINTS
    OneIsAdded
    OneHub
    TwoAtATime
INVARIANTS
    TypeOK
    NamesAreListedOnce
    CredentialsWork
    AccessFollowsTheFlags
PROPERTIES
    OnlyTheNamedChange
