SPECIFICATION Spec
INVARIANTS
    AckedInForce
    SuccessorOpen
    GovernedBootServes
    FixationBounded
CONSTANTS
    o1 = o1
    o2 = o2
    s1 = s1
    s2 = s2
    free = free
    g1 = g1
    e1 = e1
    everywhere = everywhere
    governance = governance
    Operators <- TwoOperators
    Schemas <- ThreeSchemas
    Version <- TwoVersions
    BootSchemas <- TwoSchemas
    Gaps <- OneGap
    Entities <- OneEntity
    Scopes <- TwoScopes
    Wildcard = everywhere
    Founded = governance
    Writes <- SmallWrites
    GapN = 1
    Deadlines = {3}
    Limits <- FourTroubles
SYMMETRY OperatorSymmetry
CHECK_DEADLOCK FALSE
