CONSTANTS
    Workers = {w1, w2}
    NumJobs = 3
    Def <- ChainDef
    NoGroup = NoGroup
    NoKey = NoKey
    p1 = p1
    k1 = k1
    LeaseTTL = 1
    BackoffTable <- UnitBackoff
    StartTime = 1
    MaxRetries = 1
    MaxDeletes = 0
    MaxFaults = 1
SPECIFICATION Spec
INVARIANTS GroupExclusive
PROPERTIES ChainOrder RecoveryRequeuesSafe
VIEW TimelessView
SYMMETRY WorkerSymmetry
CHECK_DEADLOCK FALSE
