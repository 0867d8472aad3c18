SPECIFICATION Spec
INVARIANTS
    ActiveIsReviewed
    LiveMatchesReplay
    RecoveryServes
    EscalationsQueued
    PendingAwaitsHuman
CONSTANTS
    s1 = s1
    plain = plain
    blank = blank
    ghost = ghost
    Slots <- OneSlot
    Objects <- ThreeObjects
    Blank = blank
    Ghost = ghost
    External = FALSE
    Signs = TRUE
    BatchEvery = 2
    Window = 2
    CalWindow = 1
    CalMin = 1
    MaxWrites = 3
    MaxProbes = 1
    MaxSnaps = 1
    MaxCrashes = 1
    MaxErrors = 1
    MaxKept = 1
    MaxUnsaved = 1
    MaxFaults = 1
CHECK_DEADLOCK FALSE
