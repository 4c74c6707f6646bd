SPECIFICATION SchedulerLiveSpec
CONSTANTS
    Jobs = {j1, j2}
    Lanes = {brain}
    Tenants = {alice}
    Workers = {w1}
    TenantOf <- OneTenant
    CycleLanes = {brain}
    ConnectorLanes = {}
    MaxAttempts <- OneAttempt
    LeaseTtl = 1
    StealGrace = 0
    AttemptBudget = 2
    BackoffBase = 0
    BackoffMax = 0
    Ceiling = 1
    MaxLag = 0
    AgeCap = 1
    QuietCap = 0
    MaxToken = 2
    Concurrency = 1
    MinDebt = 1
    Quiet = 0
    MinInterval = 1
    MaxDebt = 2
    MaxPicks = 1
PROPERTIES
    TenantsComeDue
    MidCycleSignalsSurvive
    CyclesAreSpaced
