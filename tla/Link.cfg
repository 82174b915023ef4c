SPECIFICATION MCSpec
CONSTANTS
    A = a
    B = b
    Conns = {c1, c2}
    Dialer <- MCDialer
    Talkers <- MCTalkers
    Frail = {c1, c2}
    MaxSends = 2
    Nobody = Nobody
    Torn = Torn
    MaxKeys = 3
    MaxMishaps = 2
    c1 = c1
    c2 = c2
CHECK_DEADLOCK FALSE
INVARIANTS
    SessionIsRecorded
    FramesAreConsecutive
    RunsAsNamed
    TrustIsEarned
PROPERTIES
    TrustMovesForward
    EndsTogether
    TaintIsFinal
