\* ANNOUNCE_INTERVAL 3 s, PEER_TIMEOUT 10 s, RESOLVE_TIMEOUT 3 s and
\* MDNS_ANNOUNCE_INTERVAL 10 s, scaled down: as in the code, three announcements
\* fit into the timeout, here without a second to spare.
SPECIFICATION Spec
CONSTANTS
    a1 = a1
    a2 = a2
    g1 = g1
    g2 = g2
    None = None
    Absent = Absent
    Addrs <- MCAddrs
    Interval = 2
    PeerTimeout = 6
    Period = 3
    Refresh = 2
    Resolve = 1
    MaxLost = 2
    GroupList <- MCGroupList
    Revocable <- MCRevocable
    Lockable = {"host", "asker"}
    MaxAge = 1
    NonceTTL = 1
    Ahead = 0
    MaxUpdates = 2
    MaxTime = 2
    MaxQueue = 1
INVARIANTS
    
    TakenOnce
