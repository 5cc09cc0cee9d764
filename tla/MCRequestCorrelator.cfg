SPECIFICATION Spec
CONSTANTS
    r1 = r1
    r2 = r2
    r3 = r3
    k1 = k1
    k2 = k2
    none = none
    NoReq = none
    Requests <- MCRequests
    Keys <- MCKeys
    KeyOf <- MCKeyOf
    OwnToken = {r1}
CHECK_DEADLOCK FALSE
INVARIANTS
    NoOrphan
    NoStaleEntry
    AnswerIsOwnUnlessAbandoned
