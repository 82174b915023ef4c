SPECIFICATION Spec
CONSTANTS
    Sessions = {s1, s2, s3}
    DialKeys = {k1}
    InKeys = {}
    Devices = {d1}
    MaxConnections = 2
    MaxSends = 1
    Habits = {"reuse", "pipe", "close_all", "tunnel", "share_relay"}
    None = None
SYMMETRY SessionSymmetry
CHECK_DEADLOCK FALSE
INVARIANTS
    RegisteredIsServed
    NothingLeftBehind
