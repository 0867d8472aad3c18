SPECIFICATION Spec
INVARIANTS
    DueIsAccounted
    NoEarlyReplay
    AckedSubscribed
    SubscriptionsAccepted
CONSTANTS
    c1 = c1
    c2 = c2
    op = op
    a1 = a1
    written = written
    incident = incident
    Conns <- TwoConns
    Agents <- TwoAgents
    Operator = op
    Names <- TwoNames
    Incidents <- OneIncident
    Patterns <- OnePattern
    Expiry <- AgentExpires
    RingMax = 2
    MaxClock = 3
    MaxEvents = 3
    MaxSnaps = 1
    MaxCrashes = 1
    MaxKept = 1
SYMMETRY ConnSymmetry
CHECK_DEADLOCK FALSE
