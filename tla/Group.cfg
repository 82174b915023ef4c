SPECIFICATION MCSpec
CONSTANTS
    Devices = {a, b}
    None = None
    Faults = {"loss", "lock", "unknown"}
    MaxRequests = 2
    MaxFaults = 1
    Messages = {m1, m2}
    Conns = {c1, c2}
    Backlog = {m2}
    MaxLocks = 1
    MaxCrashes = 1
    Strangers = {d1, d2, d3}
    NoPrompt = NoPrompt
    MaxModals = 1
    MaxEvents = 3
    MaxRelocks = 1
CHECK_DEADLOCK FALSE
INVARIANTS
    AttributionHolds
    
    HistoryAgrees
    NoneForgotten
    WaitingHasACause
PROPERTIES
    
    
    EveryMessageResolves
