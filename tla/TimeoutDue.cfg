CONSTANTS
    u1 = u1
    u2 = u2
    r1 = r1
    r2 = r2
    Requests = {r1}
    Users = {u1}
    UserOf <- MCUserOf
    Admins = {}
    Free = Free
    Checkers = {c1}
    States <- MCStates
    Initial = "draft"
    Moves <- MCMoves
    TimeoutTo <- MCTimeoutTo
    Step = 4
    LockTTL = 1
    After = 1
    Horizon = 2
    MaxBack = 0
    MaxWrites = 4
SPECIFICATION Spec
PROPERTIES TimeoutIsDue
CHECK_DEADLOCK FALSE
