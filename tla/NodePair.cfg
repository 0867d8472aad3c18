SPECIFICATION FairSpec
INVARIANTS
    CommittedIsAudited
    VisibleIsCommitted
    FailedNeverVisible
    ManifestNamesSnapshot
PROPERTIES
    EveryRequestReturns
    EveryBootEnds
CONSTANTS
    c1 = c1
    c2 = c2
    s1 = s1
    s2 = s2
    Clients <- TwoClients
    Shards <- OneShard
    Verbs = {"fact", "absorb", "snapshot", "shutdown"}
    SnapInterval = 2
    SnapFrames = 100
    MaxRequests = 2
    MaxCrashes = 1
    MaxAuditErrors = 1
    MaxWalErrors = 1
    MaxSaveErrors = 1
CHECK_DEADLOCK FALSE
