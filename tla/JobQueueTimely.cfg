CONSTANTS
    Workers = {w1, w2}
    NumJobs = 2
    Def <- PairDef
    NoGroup = NoGroup
    NoKey = NoKey
    p1 = p1
    k1 = k1
    LeaseTTL = 1
    BackoffTable <- DoublingBackoff
    StartTime = 1
    MaxRetries = 0
    MaxDeletes = 1
    MaxFaults = 2
SPECIFICATION TimelySpec
INVARIANTS LiveBodyOwnsRow
VIEW TimelessView
SYMMETRY WorkerSymmetry
CHECK_DEADLOCK FALSE
