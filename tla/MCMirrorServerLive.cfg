SPECIFICATION FairSpec
CONSTANTS
    None = None
    Sessions = {s1, s2}
    Clients = {c1}
    ClientOf <- OneDevice
    ConnectionCap = 0
    PendingCap = 2
    PreHelloCap = 1
CHECK_DEADLOCK FALSE
PROPERTIES
    SilentDropped
    PendingEndsOrTwinDenied
