SPECIFICATION Spec
INVARIANTS
    FreshInLife
    SupersededNotServed
    BytesAccounted
    RecallComplete
    ReplayRestores
CONSTANTS
    s1 = s1
    s2 = s2
    Subjects <- OneSubject
    Tiers <- SkeletonAndFull
    Full = "L3"
    Budget <- Budgets
    Weight <- Weights
    TailLen = 1
    TimelineCap = 1
    Depths = {1, 2}
    ViewRank <- Ranks
    SmallMax = 2
    MidMax = 4
    Capacity <- Capacities
    MaxRequests = 4
    MaxOps = 3
    MaxSnaps = 1
    MaxCrashes = 2
    MaxDiskErrors = 1
CHECK_DEADLOCK FALSE
