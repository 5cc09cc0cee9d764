SPECIFICATION Spec
CONSTANTS
    Callers = {c1, c2}
    Handlers = {h1}
    Services = {s1, s2}
    None = None
CHECK_DEADLOCK FALSE
INVARIANT ConnectedHasService
