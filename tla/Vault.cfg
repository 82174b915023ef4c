SPECIFICATION FairSpec
CONSTANTS
    Workers = {w1, w2}
    None = None
    Faults = {"crash", "flush", "save"}
    HasLegacy = TRUE
    MaxRows = 1
    MaxGen = 2
    MaxFaults = 2
    Files = {f1, f2, f3}
    ContentOf <- MCContentOf
    Idle = Idle
    f1 = f1
    f2 = f2
    f3 = f3
    SecureIds = {f1, f2}
    Wildcard = Wildcard
    Own <- MCOwn
    Joined = j
    Self = self
    Second = second
    Host = host
    Unset = Unset
    TTLs = {2}
    MaxTime = 2
    MaxCaps = 2
    MaxCopies = 2
    g1 = g1
    g2 = g2
CHECK_DEADLOCK FALSE
INVARIANTS
    PromptedIsLocked
    LockLosesNothing
    CriticalKeyAgrees
    MigrationKeepsTrust
    ListedIsReadable
    OneCopyPerCapability
    GrantedPasses
PROPERTIES
    LockedIsPrompted
    EveryGroupAgreed
