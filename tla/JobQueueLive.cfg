CONSTANTS
    Workers = {w1, w2}
    NumJobs = 2
    Def <- PairDef
    NoGroup = NoGroup
    NoKey = NoKey
    p1 = p1
    k1 = k1
    LeaseTTL = 1
    BackoffTable <- UnitBackoff
    StartTime = 1
    MaxRetries = 0
    MaxDeletes = 0
    MaxFaults = 1
SPECIFICATION FairSpec
PROPERTIES EverySettles
CHECK_DEADLOCK FALSE
