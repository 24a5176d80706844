SPECIFICATION Spec
CONSTANTS
    a = a
    b = b
    c1 = c1
    c2 = c2
    t1 = t1
    t2 = t2
    Threads = {t1, t2}
    Laws = {a, b}
    Compilers = {c1, c2}
    Outcome <- MCOutcome
    Callees <- MCCallees
    Uses <- MCUses
    Inner <- MCInner
    IngestDepth = 2
    StageFlush = 2
    MaxOps = 3
INVARIANTS
    CodeIsCurrent
PROPERTIES
    Settles
CHECK_DEADLOCK FALSE
