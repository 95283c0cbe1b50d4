CONSTANTS
    s1 = s1
    s2 = s2
    s3 = s3
    alone = alone
    sibling = sibling
    Schedulers = {s1, s2}
    Process <- Reload
    Minute = 3
    Guard = 2
    Every = 0
    Matching = {1}
    Refused = {}
    LastMinute = 1
SPECIFICATION Spec
INVARIANTS FiredOncePerMinute
VIEW View
CHECK_DEADLOCK FALSE
