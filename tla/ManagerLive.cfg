SPECIFICATION FairSpec
CONSTANTS
    Sessions = {s1, s2, s3}
    DialKeys = {k1}
    InKeys = {i1}
    Devices = {d1}
    MaxConnections = 2
    MaxSends = 1
    Habits = {"tunnel"}
    None = None
CHECK_DEADLOCK FALSE
INVARIANTS
    ServedIsReachable
    CarrierLossIsHeard
PROPERTIES
    
    LossIsNoticed
