SPECIFICATION Spec
CONSTANTS
    Transfers = {t1, t2}
    Conns = {c1}
    Vers = {1, 2}
    SizeOf <- MCShortSizeOf
    ChunkSize = 2
    QueueCap = 2
    Edits = {0, 2}
    MaxName = 1
    CommitInterval = 4
    MaxIncomingSize = 5
    DeviceOf <- MCDeviceOf
    Faults = {"meta", "fsync"}
    None = None
    d1 = d1
    MaxBreaks = 1
    MaxCrashes = 0
    MaxLocks = 1
    HonoursOffset = {TRUE}
CHECK_DEADLOCK FALSE
INVARIANT
    VerdictAgrees
PROPERTY
    ImplementsDelivery
