SPECIFICATION Spec
INVARIANTS
    AnsweredIsVisible
CONSTANTS
    c1 = c1
    c2 = c2
    s1 = s1
    s2 = s2
    Clients <- OneClient
    Shards <- TwoShards
    Verbs = {"event"}
    SnapInterval = 2
    SnapFrames = 100
    MaxRequests = 2
    MaxCrashes = 2
    MaxAuditErrors = 0
    MaxWalErrors = 0
    MaxSaveErrors = 0
CHECK_DEADLOCK FALSE
