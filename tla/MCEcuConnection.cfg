SPECIFICATION FairSpec
CONSTANTS
    Callers = {c1}
    Handlers = {h1, h2}
    Services = {s1, s2}
    None = None
CHECK_DEADLOCK FALSE
INVARIANTS
    NoLeakUnlessOverlap
PROPERTIES
    DeadLinkNoticed
    LockReleased
