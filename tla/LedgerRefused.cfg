SPECIFICATION Spec
INVARIANTS
    RecoveryServes
CONSTANTS
    s1 = s1
    plain = plain
    blank = blank
    ghost = ghost
    Slots <- OneSlot
    Objects <- ThreeObjects
    Blank = blank
    Ghost = ghost
    External = FALSE
    Signs = FALSE
    BatchEvery = 2
    Window = 2
    CalWindow = 1
    CalMin = 1
    MaxWrites = 3
    MaxProbes = 0
    MaxSnaps = 0
    MaxCrashes = 1
    MaxErrors = 0
    MaxKept = 0
    MaxUnsaved = 0
    MaxFaults = 0
CHECK_DEADLOCK FALSE
