SPECIFICATION RSpec
CONSTANTS
    Transfers = {t1, t2}
    Conns = {c1, c2}
    Vers = {1, 2}
    SizeOf <- MCSizeOf
    ChunkSize = 2
    QueueCap = 1
    MaxName = 1
    CommitInterval = 2
    MaxIncomingSize = 3
    DeviceOf <- MCDeviceOf
    Faults = {}
    None = None
    d1 = d1
CHECK_DEADLOCK FALSE
INVARIANTS
    LivePartIntact
