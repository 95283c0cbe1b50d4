CONSTANTS
    s1 = s1
    s2 = s2
    s3 = s3
    alone = alone
    sibling = sibling
    Schedulers = {s1, s2, s3}
    Process <- Cluster
    Minute = 3
    Guard = 2
    Every = 0
    Matching = {1}
    Refused = {"hydrate", "read", "enqueue", "persist"}
    LastMinute = 2
SPECIFICATION Spec
INVARIANTS CronInv DuplicatesBounded
SYMMETRY Peers
VIEW View
CHECK_DEADLOCK FALSE
