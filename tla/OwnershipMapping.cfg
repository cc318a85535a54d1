SPECIFICATION Spec
CONSTANTS
    Teams = {t1}
    Namespaces = {n1}
    URLs = {url}
    None = None
    Redacted = Redacted
    Puts = {q1, q2}
INVARIANTS
    MappingIsCurrent
