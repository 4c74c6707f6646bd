SPECIFICATION LiveSpec
CONSTANTS
    Jobs = {j1, j2}
    Lanes = {gmail}
    Tenants = {alice}
    Workers = {w1, w2}
    TenantOf <- OneTenant
    CycleLanes = {}
    ConnectorLanes = {gmail}
    MaxAttempts <- TwoAttempts
    LeaseTtl = 1
    StealGrace = 1
    AttemptBudget = 2
    BackoffBase = 0
    BackoffMax = 0
    Ceiling = 1
    MaxLag = 1
    AgeCap = 0
    QuietCap = 0
    MaxToken = 5
    Concurrency = 1
INVARIANTS
    TypeOK
    OneOpenPerLane
    OneLiveHolder
    LadderHasATop
PROPERTIES
    OnlyTheHolderFinishes
    ImplementsLeasedWork
    AttemptsEnd
    LanesDrain
