SPECIFICATION Spec
INVARIANTS
    AnsweredUnlessHidden
    RecoveryAccepted
    MemMatchesLog
CONSTANTS
    c1 = c1
    c2 = c2
    s1 = s1
    s2 = s2
    Clients <- OneClient
    Shards <- OneShard
    Verbs = {"fact", "supersede", "event", "note", "absorb", "snapshot", "shutdown"}
    SnapInterval = 2
    SnapFrames = 3
    MaxRequests = 3
    MaxCrashes = 1
    MaxAuditErrors = 1
    MaxWalErrors = 1
    MaxSaveErrors = 1
CHECK_DEADLOCK FALSE
