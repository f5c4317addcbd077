SPECIFICATION Spec
CONSTANTS
    Tokens = {t1, t2, t3}
    Requests = {r1, r2}
    MaxChanges = 1
    MayCrash = FALSE
SYMMETRY Symmetry
INVARIANT NoOldSessionSurvives
CHECK_DEADLOCK FALSE
