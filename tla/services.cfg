CONSTANTS
    Requests = {r1, r2}
    Ids = {i1, i2}
    Orgs = {o1}
    Bound = 1
    MaxTries = 2
    OrgLimit = 3
    Ceiling = 2
    SoftCap = 1
    HardCap = 2
    MaxPeriod = 2
    MaxKeys = 3
    MaxSteps = 3
    Paid = {"pro"}
    Trial = 3
    Term = 1
    LastDay = 2
    MaxRows = 3
    Values = {v1, v2}
    Tokens = {"t1", "t2"}
    AutoTokens = {"t2"}
    InUse = {"accounts_update", "accounts_delete", "accounts_create", "reports_duplicate"}
    Promoted = {"accounts_update"}
    MaxLive = 2
    LastUser = 2
    BatchSize = 2
    MaxAttempts = 2
    MaxUsers = 2
    Events = {"delivered", "complained"}
    Turners = {"t1", "t2"}
    LeaseTime = 4
    TurnTime = 2
    CallTime = 2
    MaxRounds = 2
    MaxAsked = 3
CHECK_DEADLOCK FALSE
SPECIFICATION Spec
SYMMETRY Symmetry
INVARIANTS SpendingSafe EntitlementsSafe AgentSafe BroadcastSafe TurnsSafe
PROPERTIES CarriedOutAsAgreed
