SPECIFICATION FairSpec
CONSTANTS
    Transfers = {t1, t2}
    Conns = {c1}
    Vers = {1}
    SizeOf <- MCSizeOf
    ChunkSize = 2
    QueueCap = 1
    Edits = {}
    MaxName = 1
    CommitInterval = 4
    MaxIncomingSize = 5
    DeviceOf <- MCDeviceOf
    Faults = {"crash", "age"}
    None = None
    d1 = d1
    MaxBreaks = 1
    MaxCrashes = 1
    MaxLocks = 0
    HonoursOffset = {TRUE, FALSE}
CHECK_DEADLOCK FALSE
INVARIANT
    HonestStreamFits

    
    
