CONSTANTS
    u1 = u1
    u2 = u2
    r1 = r1
    r2 = r2
    Requests = {r1, r2}
    Users = {u1, u2}
    UserOf <- MCUserOf
    Admins = {}
    Free = Free
    Checkers = {c1, c2}
    States <- MCStates
    Initial = "draft"
    Moves <- MCMoves
    TimeoutTo <- MCTimeoutTo
    Step = 4
    LockTTL = 1
    After = 1
    Horizon = 2
    MaxBack = 1
    MaxWrites = 3
VIEW RecordView
SYMMETRY EditSymmetry
SPECIFICATION Spec
INVARIANTS EditInv HooksOncePerMove
PROPERTIES NoLostUpdate DeclaredMoves LockNeverStolen
CHECK_DEADLOCK FALSE
