SPECIFICATION Spec
INVARIANTS
    NoOverdraft
    ReservedCovers
    SpentIsWork
    ReinjectedIsDrivenOnce
CONSTANTS
    a1 = a1
    a2 = a2
    p1 = p1
    tAgent = tAgent
    tAdmin = tAdmin
    tCurator = tCurator
    Agents <- TwoAgents
    Tasks <- ThreeTasks
    AdminTask = tAdmin
    CuratorTask = tCurator
    Payloads <- OnePayload
    Units <- PayloadUnits
    Grant <- TaskGrant
    EdgeUnits = 1
    GovernUnits = 1
    ReadUnits = 1
    MaxRequests = 3
    MaxCrashes = 1
    MaxWalErrors = 1
SYMMETRY AgentSymmetry
CHECK_DEADLOCK FALSE
