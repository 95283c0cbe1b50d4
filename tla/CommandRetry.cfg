CONSTANTS
    Callers = {c1, c2}
    Nobody = Nobody
    Limit = 3
    Timeout = 2
    StaleAfter = 2
    Lifetime = 3
    SweepGrace = 1
    Horizon = 5
    MaxBack = 1
SPECIFICATION Spec
INVARIANTS CommandInv AppliedOnce OneRunning RecordsTrue AnswersTrue ExpiredIsFinal
PROPERTIES RevokedNeverApplied
SYMMETRY CallerSymmetry
CHECK_DEADLOCK FALSE
