SPECIFICATION Spec
CONSTANTS
    Teams = {t1}
    Namespaces = {n1}
    URLs = {u1, u2}
    None = None
    Redacted = Redacted
    Puts = {q1, q2}
INVARIANTS
    WebhooksAreKept
CONSTRAINTS
    WebhooksInUse
