SPECIFICATION FairSpec
CONSTANTS
    NoLoop = NoLoop
    Loops = {l1, l2, l3}
    Chunks = 2
    MaxAttempts = 3
    MaxUpdates = 3
CHECK_DEADLOCK FALSE
INVARIANTS
    SnapshotFits
    RecordsKept
PROPERTIES
    SnapshotSettles
    RecordDelivered
