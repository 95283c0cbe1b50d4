\* Five components that share no state, one per behaviour.
SPECIFICATION PlatformSpec
CONSTANTS
    m1 = m1  m2 = m2  n1 = n1  n2 = n2  q1 = q1  q2 = q2  u1 = u1  u2 = u2

    Parents = {m1, m2}
    Children = {n1, n2}
    RowRequests = {q1, q2}
    Callers = {u1, u2}
    CallerOf <- MCCallerOf
    Unlocked = Unlocked
    Keys = {k1}
    NoKey = NoKey
    NoRow = NoRow
    Named <- MCNamed
    MaxRequests = 3
    MaxUpsets = 1

    Deliveries = {q1, q2, d3}
    Threshold = 2
    Cooldown = 3
    ProbeEvery = 2
    SendTimeout = 4
    MaxClock = 11

    Digests = {q1, q2}
    NoDigest = NoDigest
    Operations = {o1}

    Pages = {g1}
    Approvals = {q1, q2}
    Exchanges = {e1, e2}
    Refreshes = {q1, q2}
    Scopes = {s1}
    NoOne = NoOne
    MaxTokens = 3

    Sessions = {b1}
    Indices = {0, 1, 2}
    File = {0, 1}
    Puts = {q1, q2}
    NoSession = NoSession
SYMMETRY PlatformSymmetry
VIEW PlatformView
INVARIANTS
    PlatformInv
    OrphanHasCause
    OneRowPerKey
    OneAuditPerDeletion
    ProbesFollowQuiet
    WritesStandApproved
    OneGrantPerConsent
    OneLiveRefresh
    LoadedWhole
    LeftoversHaveCause
PROPERTIES
    LockedRowsSurvive
    NothingStaleLands
    TerminalStays
\* Each component may come to rest, and clocks, requests and tokens are bounded.
CHECK_DEADLOCK FALSE
