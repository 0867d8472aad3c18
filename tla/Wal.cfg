SPECIFICATION FairSpec
INVARIANTS
    NoDuplicateFrames
PROPERTIES
    DurableIsAppendOnly
    CrashKeepsAckedReadable
    ImplementsStableLog
    EveryCallReturns
CONSTANTS
    w1 = w1
    w2 = w2
    f1 = f1
    f2 = f2
    Writers <- TwoWriters
    Frames <- TwoFrames
    ChanCap = 1
    GroupMax = 2
    RollAt = 1
    MaxSyncs = 1
    MaxCloses = 1
    MaxCrashes = 2
    MaxWriteErrors = 1
    MaxSyncErrors = 1
    MaxOpenErrors = 1
CHECK_DEADLOCK FALSE
