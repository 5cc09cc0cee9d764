SPECIFICATION Spec
CONSTANTS
    None = None
    Sessions = {s1, s2}
    Clients = {c1}
    ClientOf <- OneDevice
    ConnectionCap = 1
    PendingCap = 1
    PreHelloCap = 1
CHECK_DEADLOCK FALSE
INVARIANTS
    CapsHold
    DecisionsHold
    ViewersTracked
