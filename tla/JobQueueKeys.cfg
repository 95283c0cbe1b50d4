CONSTANTS
    Workers = {w1, w2}
    NumJobs = 3
    Def <- KeyDef
    NoGroup = NoGroup
    NoKey = NoKey
    p1 = p1
    k1 = k1
    LeaseTTL = 1
    BackoffTable <- DoublingBackoff
    StartTime = 1
    MaxRetries = 1
    MaxDeletes = 1
    MaxFaults = 1
SPECIFICATION Spec
INVARIANTS QueueInv ActiveKeyUnique StartsBounded FailsClosed
PROPERTIES SettledByClaimant KeepsPromise
VIEW TimelessView
SYMMETRY WorkerSymmetry
CHECK_DEADLOCK FALSE
