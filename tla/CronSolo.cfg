CONSTANTS
    s1 = s1
    s2 = s2
    s3 = s3
    alone = alone
    sibling = sibling
    Schedulers = {s1}
    Process <- Solo
    Minute = 3
    Guard = 2
    Every = 6
    Matching = {}
    Refused = {"hydrate", "enqueue", "persist"}
    LastMinute = 6
SPECIFICATION Spec
INVARIANTS FiredOncePerMinute
PROPERTIES RecordedFireHolds
VIEW View
CHECK_DEADLOCK FALSE
