CONSTANTS
    u1 = u1
    u2 = u2
    r1 = r1
    r2 = r2
    Requests = {r1, r2}
    Users = {u1, u2}
    UserOf <- MCUserOf
    Admins = {}
    Free = Free
    Checkers = {}
    States <- MCStates
    Initial = "draft"
    Moves <- MCMoves
    TimeoutTo <- MCTimeoutTo
    Step = 4
    LockTTL = 1
    After = 1
    Horizon = 2
    MaxBack = 0
    MaxWrites = 0
SPECIFICATION Spec
PROPERTIES OnlyOwnerReleases
CHECK_DEADLOCK FALSE
